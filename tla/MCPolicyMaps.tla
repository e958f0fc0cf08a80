---------------------------- MODULE MCPolicyMaps ----------------------------
(* Small instances of PolicyMaps for TLC. *)
EXTENDS PolicyMaps, TLC

CONSTANTS a, b

R(obj, mask) == [obj |-> obj, mask |-> mask]
To(addrs) == [x \in Addrs |-> IF x \in addrs THEN Ports ELSE {}]

\* Two policies of different sizes that share a destination, and one with more
\* rules than a sandbox may have.
SomePlans ==
  { [fs |-> <<R("lib", {"read"})>>, exec |-> <<R("bin", {})>>, net |-> To({"host"})],
    [fs |-> <<>>, exec |-> <<R("lib", {}), R("bin", {})>>, net |-> To({"host", "mirror"})],
    [fs |-> <<R("bin", {"read"}), R("bin", {"read"}), R("lib", {})>>, exec |-> <<>>, net |-> To({})] }

ExecQuestions == {<<"exec", "lib", "read">>}
OpenQuestions == {<<"fs", "lib", "write">>}
AllQuestions == ExecQuestions \cup OpenQuestions

CgidSymmetry == Permutations(Cgids)
=============================================================================
