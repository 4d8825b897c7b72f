SPECIFICATION FairSpec
CONSTANTS
  Contracts <- AllContracts
  MaxFaults = 3
INVARIANTS
  BegunIsNext
  CompletedIsApproved
  ReviewFollowsReceipt
PROPERTIES
  LoopReachesWork
