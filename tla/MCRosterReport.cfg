SPECIFICATION FairSpec
CONSTANTS
  ann = ann
  bob = bob
  annPhone = annPhone
  bobPhone = bobPhone
  annTablet = annTablet
  Users = {ann}
  Devices = {annPhone, annTablet}
  SuShares = {"susu"}
  Account <- TwoOfAnn
  MaxTaps <- JoinAndReport
INVARIANTS ReportMeansFlagged OncePerScreen
PROPERTIES FlagIsForever EventuallySettled
