CONSTANTS
  ann = ann
  bob = bob
  Users <- BothUsers
  MaxWrites = 4
  MaxPending = 4
  MaxFaults = 1
SPECIFICATION SpecOnRows
CHECK_DEADLOCK FALSE
INVARIANT RejectedWasRefused
