------------------------------ MODULE MCLoader ------------------------------
(* Instances of Loader for TLC. *)
EXTENDS Loader, TLC

CONSTANTS p1, p2, g1, g2

\* The map of the contexts and a map of rules.
TwoMaps == <<"sandboxes", "fs_rules">>
LoaderSymmetry == Permutations({p1, p2}) \cup Permutations({g1, g2})
=============================================================================
