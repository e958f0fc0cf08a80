-------------------------- MODULE MCSandboxManager --------------------------
(* Small instances of SandboxManager for TLC. *)
EXTENDS SandboxManager, TLC

CONSTANTS c1, c2, c3, s1, s2, capA

OnePolicy == {{}}
TwoPolicies == {{}, {capA}}
CallerSymmetry == Permutations(Callers)
=============================================================================
