SPECIFICATION Spec
CONSTANTS
  ann = ann
  bob = bob
  annPhone = annPhone
  bobPhone = bobPhone
  annTablet = annTablet
  Users = {ann, bob}
  Devices = {annPhone, bobPhone}
  SuShares = {"susu"}
  Account <- OnePhoneEach
  MaxTaps <- JoinAndFavorite
INVARIANT JoinedStaysListed
