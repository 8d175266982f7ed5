SPECIFICATION ClusterSpec
CONSTANTS
  c1 = c1
  c2 = c2
  Conns = {1, 2}
  SharedBoots = FALSE
  MaxStarts = 2
  Faulty = {1}
  Jobs <- ClusterJobs
  DeviceBytes = 2
  DeviceId = {1}
  RegionId = {1}
  PoolId = {1}
  BootId = {1, 2}
  Epochs = {1}
  Policies = {1}
  MaxGen = 2
  GenBound = 2
  EvidenceBound = 0
  MaxBytes = 15
  MaxReservations = 2
  Profile <- ClusterProfile
  DeviceInputs <- ClusterDevices
  PoolInputs <- ClusterPools
  MemberInputs <- Nothing
  RegionInputs <- ClusterRegions
  MemberLists <- Nothing
  Requests <- ClusterRequests
INVARIANTS
  CommitsOwnGrant
  AnswersMatch
PROPERTIES
  
  WorkersFinish
  DeathsNoticed
CHECK_DEADLOCK FALSE
