--------------------------- MODULE MCFabricFence ---------------------------
(***************************************************************************)
(* An instance of FabricFence for TLC.                                     *)
(***************************************************************************)
EXTENDS FabricFence, MCFabric

\* One device that comes back with a new generation and other facts; its pool loses it
\* and takes it back, its region loses it and takes it back.
FenceDevices ==
  {Device(1, 1, 1, "ONLINE"), [Device(1, 2, 1, "ONLINE") EXCEPT !.facts = 2],
   [Device(1, 1, 1, "ONLINE") EXCEPT !.facts = 2]}
FencePools == {NewPool(1, {Member(1, 1, 2, TRUE)})}
FenceMembers == {Member(1, 1, 1, TRUE)}
FenceRegions == {Region(1, 1, 1, <<1>>, 2)}
FenceLists == {<<>>, <<1>>}
FenceRequests == {Request(1)}

=============================================================================
