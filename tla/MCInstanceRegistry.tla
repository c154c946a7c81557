------------------------ MODULE MCInstanceRegistry ------------------------
(* An instance of InstanceRegistry for TLC: two runs that want one endpoint, *)
(* two others that were killed before, and a broker.                       *)
EXTENDS InstanceRegistry, TLC

CONSTANTS a1, a2, b1, c1

MCEndpointOf == (a1 :> "a") @@ (a2 :> "a") @@ (b1 :> "b") @@ (c1 :> "c")
===========================================================================
