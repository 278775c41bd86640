CONSTANTS
  ann = ann
  bob = bob
  Users <- BothUsers
  MaxWrites = 3
  MaxPending = 2
  MaxFaults = 2
SPECIFICATION FairSpecOnRows
CHECK_DEADLOCK FALSE
INVARIANTS RowsTypeOK AssertionsHold PipelineIsPrefix WrittenAsOwner NothingAnsweredIsResent StoredInOrder RowsAreQueue CallbackIsOwn
PROPERTIES EventuallyAnswered ImplementsWriteQueue
