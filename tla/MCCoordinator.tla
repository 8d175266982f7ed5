---------------------------- MODULE MCCoordinator ----------------------------
(***************************************************************************)
(* Instances of Coordinator for TLC.                                       *)
(***************************************************************************)
EXTENDS Coordinator, MCFabric

CONSTANTS c1, c2

\* The device, pool and region every worker publishes.
WorkerDevices == {Device(1, 1, 1, "ONLINE")}
WorkerPools == {NewPool(1, {Member(1, 1, 2, TRUE)})}
WorkerRegions == {Region(1, 1, 1, <<1>>, 2)}
WorkerRequests == {Request(1), Request(2)}
TwoDevices == {Device(1, 1, 1, "ONLINE"), Device(2, 1, 1, "ONLINE")}

=============================================================================
