SPECIFICATION GrowSpec
CONSTANTS
  DeviceId = {1, 2, 3}
  RegionId = {1, 2}
  PoolId = {1}
  BootId = {1}
  Epochs = {1}
  Policies = {1}
  MaxGen = 3
  GenBound = 2
  EvidenceBound = 0
  MaxBytes = 15
  MaxReservations = 2
  Profile <- MCProfile
  DeviceInputs <- FailoverDevices
  PoolInputs <- FailoverPools
  MemberInputs <- FailoverMembers
  RegionInputs <- FailoverRegions
  MemberLists <- Nothing
  Requests <- FailoverRequests
INVARIANTS
  TypeOK
  PoolUseExact
  PoolReservedCovers
  RegionUseExact
  RegionReservedCovers
  UsedWithinGoverned
  UsedWithinRegion
  LedgerCloses
  
  FailoverIsBest
  PlanCanBeFollowed
PROPERTIES
  ImplementsAllocation
