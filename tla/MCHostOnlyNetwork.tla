------------------------- MODULE MCHostOnlyNetwork -------------------------
(* Two machines that share a network, that have a network each, or of which *)
(* one has a CIDR that does not serve: the network's own address, or a      *)
(* narrow subnet.                                                           *)
EXTENDS HostOnlyNetwork

CONSTANTS m1, m2

C(h, n) == [host |-> h, ones |-> n]
MCCIDRFunctions ==
    { m1 :> C(1, 24) @@ m2 :> C(1, 24),
      m1 :> C(1, 24) @@ m2 :> C(5, 25),
      m1 :> C(5, 25) @@ m2 :> C(5, 25),
      m1 :> C(1, 29) @@ m2 :> C(0, 24),
      m1 :> C(1, 24) @@ m2 :> C(77, 24) }
MCTaken == { C(77, 24) }

Symmetry == Permutations(Procs)
=============================================================================
