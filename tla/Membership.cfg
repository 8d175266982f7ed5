SPECIFICATION Spec
CONSTANTS
  DeviceId = {1}
  RegionId = {1}
  PoolId = {1, 2}
  BootId = {1}
  Epochs = {1}
  Policies = {1}
  MaxGen = 2
  GenBound = 2
  EvidenceBound = 1
  MaxBytes = 15
  MaxReservations = 2
  Profile <- MCProfile
  DeviceInputs <- MembershipDevices
  PoolInputs <- MembershipPools
  MemberInputs <- MembershipMembers
  RegionInputs <- MembershipRegions
  MemberLists <- MembershipLists
  Requests <- MembershipRequests
INVARIANTS
  PoolUseExact
  PoolReservedCovers
  LedgerCloses
  NoDoubleCounting
PROPERTIES
  GenerationsNeverRegress
  ReservationsOnlyAdvance
