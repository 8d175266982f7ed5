SPECIFICATION FenceSpec
CONSTANTS
  DeviceId = {1}
  RegionId = {1}
  PoolId = {1}
  BootId = {1}
  Epochs = {1, 2}
  Policies = {1}
  MaxGen = 4
  GenBound = 3
  EvidenceBound = 1
  MaxBytes = 15
  MaxReservations = 1
  Profile <- MCProfile
  DeviceInputs <- FenceDevices
  PoolInputs <- FencePools
  MemberInputs <- FenceMembers
  RegionInputs <- FenceRegions
  MemberLists <- FenceLists
  Requests <- FenceRequests
PROPERTIES
  CommitFenced
