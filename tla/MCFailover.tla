----------------------------- MODULE MCFailover -----------------------------
(***************************************************************************)
(* An instance of Failover for TLC: three devices, two of them in one      *)
(* failure domain, under two regions of one pool.                          *)
(***************************************************************************)
EXTENDS Failover, MCFabric

In(fd, dev) == [dev EXCEPT !.profile = ProfileAt(0, fd)]
InDomain(fd, m) == [m EXCEPT !.failure_domain = fd]

FailoverDevices ==
  {In(1, Device(1, 1, 1, "ONLINE")), In(1, Device(2, 1, 1, "ONLINE")),
   In(2, Device(3, 1, 1, "ONLINE"))}
FailoverPools ==
  {NewPool(1, {Member(1, 1, 1, TRUE), Member(2, 1, 1, TRUE)})}
FailoverMembers == {InDomain(2, Member(3, 1, 1, TRUE))}
FailoverRegions == {Region(1, 1, 1, <<1, 2>>, 2), Region(2, 1, 1, <<3>>, 2)}
FailoverRequests == {Request(0), Request(1), Request(2)}

=============================================================================
