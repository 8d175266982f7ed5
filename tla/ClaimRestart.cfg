SPECIFICATION CoordSpec
CONSTANTS
  c1 = c1
  c2 = c2
  Conns = {c1, c2}
  SharedBoots = FALSE
  MaxStarts = 2
  DeviceId = {1}
  RegionId = {1}
  PoolId = {1}
  BootId = {1, 2}
  Epochs = {1, 2}
  Policies = {1}
  MaxGen = 2
  GenBound = 2
  EvidenceBound = 0
  MaxBytes = 15
  MaxReservations = 1
  Profile <- MCProfile
  DeviceInputs <- WorkerDevices
  PoolInputs <- WorkerPools
  MemberInputs <- Nothing
  RegionInputs <- WorkerRegions
  MemberLists <- Nothing
  Requests <- WorkerRequests
INVARIANTS
  PoolUseExact
