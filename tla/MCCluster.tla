------------------------------ MODULE MCCluster ------------------------------
(***************************************************************************)
(* An instance of Cluster for TLC.                                         *)
(***************************************************************************)
EXTENDS Cluster, MCCoordinator

Job(pub, n, com, rel, ask, keep) ==
  [publish |-> pub, reserve |-> n > 0, bytes |-> n,
   commit |-> com, release |-> rel, query |-> ask, stay |-> keep]

\* A worker that reserves and commits what it takes to be its own, beside one that only
\* reserves or one that names a reservation it may have been told of in an earlier life.
Owner == Job(TRUE, 1, 1, 0, FALSE, FALSE)
Other == Job(TRUE, 1, 0, 0, FALSE, FALSE)
Stranger == Job(FALSE, 0, 1, 1, TRUE, TRUE)
ClusterJobs == <<{Owner}, {Other, Stranger}>>

\* What these workers publish and ask for.
ClusterProfile == {decode_device(Base(w)).profile : w \in Conns}
ClusterDevices == {decode_device(Base(w)) : w \in Conns}
ClusterPools == {decode_pool(1, 1, {BaseMember})}
ClusterRegions == {decode_region(1, 1, 1, <<1>>, DeviceBytes, "CXL_NEAR", "ONLINE")}
ClusterRequests == {decode_reserve(1)}

=============================================================================
