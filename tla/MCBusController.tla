-------------------------- MODULE MCBusController --------------------------
(* Small instances of the bus controller. *)
EXTENDS BusController, TLC

Kind(accepts, mode, ttl, bare) ==
    [accepts |-> accepts, mode |-> mode, ttl |-> ttl, bare |-> bare]

\* A unicast a peer or the controller's own process may take, and a multicast for both
\* that waits a shorter time.
AttachedTraffic ==
    {Kind({"a", "own"}, "unicast", 2, FALSE), Kind({"a", "own"}, "multicast", 1, FALSE)}

WaitingTraffic == {Kind({"a"}, "unicast", 1, FALSE)}

BareTraffic == {Kind({"a"}, "multicast", 1, TRUE)}

PeerLabels == {"a", "own"}

PeerSymmetry == Permutations(Peers)
=============================================================================
