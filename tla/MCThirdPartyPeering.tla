------------------------- MODULE MCThirdPartyPeering -------------------------
(* Model checking of ThirdPartyPeering: clusters and profile names are only *)
(* ever compared, so permuting them changes nothing.                        *)
EXTENDS ThirdPartyPeering, TLC

Symmetry == Permutations(Cluster) \cup Permutations(Name)
=============================================================================
