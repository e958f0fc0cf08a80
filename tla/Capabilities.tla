---------------------------- MODULE Capabilities ----------------------------
(***************************************************************************)
(* What a sandbox's policy means, and what grant_capability and            *)
(* revoke_capability make of it: the policy algebra of aivisor-policy      *)
(* (compile.rs), the capability calls of the manager (manager.rs), the     *)
(* trie entries they compile to (maps.rs), and the verdicts of the hooks   *)
(* on a destination and on a binary (net.bpf.c, exec.bpf.c).               *)
(*                                                                         *)
(* How an update reaches the kernel maps step by step is PolicyMaps; here  *)
(* an update is one step and the question is what it changes.              *)
(*                                                                         *)
(* An address is a sequence of Bits bits and a CIDR an address with a      *)
(* prefix length.  The launch that installs the first policy is Launch.    *)
(***************************************************************************)
EXTENDS PolicyDocument

CONSTANTS
  Bits,        \* bits of an address
  Cidrs,       \* [addr, len] records that rules and capabilities name
  PortSets,    \* port lists capabilities name
  PortLimit,   \* the port bitmap expresses the ports below this one
  Metadata,    \* addresses net.bpf.c always denies
  Paths,       \* binaries in the root file system of the sandbox
  Links        \* the path each of them leads to, itself for a regular file

Addresses == [1 .. Bits -> {0, 1}]
NetRule(cidr, ports) == [cidr |-> cidr, ports |-> ports]

ASSUME CapabilitiesAssumption ==
  /\ Bits \in Nat /\ PortLimit \in Nat
  /\ \A c \in Cidrs : c.addr \in Addresses /\ c.len \in 0 .. Bits
  /\ PortSets \subseteq (SUBSET Nat) \ {{}}
  /\ Paths \subseteq Seq(STRING) /\ Paths \subseteq DOMAIN Links

VARIABLES
  egress,     \* effective_policy: its Direct rules, in order
  allow,      \* effective_policy: the paths of its exec rules
  admitted,   \* what the launch let run beyond them: the entries of prefixes, or the command
  ceiling,    \* launched_landlock: the rules of the LandlockPlan
  ids,        \* installed_exec_ids, and so the exec rules in the kernel
  trie,       \* net_rules of this sandbox: address prefix -> ports
  last        \* history: the last change

policyVars == <<egress, allow, admitted, ceiling, ids, trie, last>>

NetChange(kind, cidr, ports) == [kind |-> kind, cidr |-> cidr, ports |-> ports]
ExecChange(kind, path) == [kind |-> kind, path |-> path]
NoChange == [kind |-> "none"]

-----------------------------------------------------------------------------
(* Compilation *)

\* A trie key of a longer address, or a directory above a path.
IsPrefix(s, t) == Len(s) <= Len(t) /\ s = SubSeq(t, 1, Len(s))

\* The trie key of a CIDR: the address bits under its prefix.
Key(cidr) == SubSeq(cidr.addr, 1, cidr.len)

\* resolve_net_rules and the writes of update_policy: a later rule with the
\* same key overwrites an earlier one.
Compiled(rules) ==
  [k \in {Key(rules[i].cidr) : i \in DOMAIN rules} |->
     rules[Max({i \in DOMAIN rules : Key(rules[i].cidr) = k})].ports]

\* A rule that parse_cidr or port_bitmap refuses fails the whole update.
Expressible(rules) ==
  \A i \in DOMAIN rules :
    /\ rules[i].cidr.addr \in Addresses /\ rules[i].cidr.len <= Bits
    /\ \A p \in rules[i].ports : p < PortLimit

\* parse_mount_devices and device_for_path: the longest mount point above a path.
MountPoints == {<<>>, <<"proc">>, <<"sys">>, <<"tmp">>, <<"dev">>, <<"dev", "pts">>}
DeviceForPath(path) ==
  LET above == {m \in MountPoints : IsPrefix(m, path)}
  IN  CHOOSE m \in above : \A n \in above : Len(n) <= Len(m)

\* collect_exec_identities and resolve_exec_identities_via_pid: the device comes
\* from the mount table and the path as written, the inode from where the path
\* leads in the root file system that the resolving task sees.
IdentityIn(root, path) == [root |-> root, dev |-> DeviceForPath(path), file |-> Links[path]]
Identity(path) == IdentityIn("merged", path)

\* The entries of a prefix: links are not followed and so not regular files.
Expand(prefix) ==
  {p \in Paths : IsPrefix(prefix, p) /\ Len(p) = Len(prefix) + 1 /\ Links[p] = p}

\* LandlockPlan::permits: some rule on the path or above it has all the rights.
Permits_AnyRight(plan, path, required) ==
  \E r \in plan : IsPrefix(r.path, path) /\ r.rights \cap required # {}
Permits(plan, path, required) ==
  \E r \in plan : IsPrefix(r.path, path) /\ required \subseteq r.rights

-----------------------------------------------------------------------------
(* The hooks' verdicts *)

\* check_ipv4_dst: the ports of the longest stored prefix of the destination.
Reaches(table, addr, port) ==
  LET stored == {k \in DOMAIN table : IsPrefix(k, addr)} IN
  /\ addr \notin Metadata
  /\ port < PortLimit
  /\ \E k \in stored : (\A j \in stored : Len(j) <= Len(k)) /\ port \in table[k]

\* aivisor_bprm_check: the device and the inode of the file that is opened.
Executes(installed, path) == IdentityIn("merged", Links[path]) \in installed

\* The rights the kernel collects for a path from all the rules above it.
LandlockRights(plan, path) == UNION {r.rights : r \in {x \in plan : IsPrefix(x.path, path)}}

-----------------------------------------------------------------------------
(* Policy changes *)

\* with_capability_granted merges into the first rule for the same CIDR.
SameCidr(rules, cidr) ==
  LET same == {i \in DOMAIN rules : rules[i].cidr = cidr}
  IN  IF same = {} THEN 0 ELSE Min(same)
NetGranted_Appends(rules, cidr, ports) == Append(rules, NetRule(cidr, ports))
NetGranted_KeepsFirst(rules, cidr, ports) ==
  IF SameCidr(rules, cidr) = 0 THEN Append(rules, NetRule(cidr, ports)) ELSE rules
NetGranted(rules, cidr, ports) ==
  LET i == SameCidr(rules, cidr) IN
  IF i = 0 THEN Append(rules, NetRule(cidr, ports))
  ELSE [rules EXCEPT ![i].ports = @ \cup ports]

\* with_capability_revoked takes the ports out of every rule for the CIDR, and
\* drops the rules left without ports.
NetRevoked_WholeRule(rules, cidr, ports) ==
  SelectSeq(rules, LAMBDA r : r # NetRule(cidr, ports))
NetRevoked_AddsBack(rules, cidr, ports) ==
  SelectSeq([i \in DOMAIN rules |->
               IF rules[i].cidr = cidr
                 THEN NetRule(cidr, (rules[i].ports \ ports) \cup (ports \ rules[i].ports)) ELSE rules[i]],
            LAMBDA r : r.ports # {})
Without(rule, cidr, ports) == IF rule.cidr = cidr THEN NetRule(cidr, rule.ports \ ports) ELSE rule
Retain(kept, rule) == IF rule.ports = {} THEN kept ELSE Append(kept, rule)
NetRevoked(rules, cidr, ports) ==
  LET Kept[n \in 0 .. Len(rules)] ==
        IF n = 0 THEN <<>> ELSE Retain(Kept[n - 1], Without(rules[n], cidr, ports))
  IN  Kept[Len(rules)]

\* apply_capability for a network capability.
ChangeNet(rules) ==
  /\ Expressible(rules)
  /\ egress' = rules
  /\ trie' = Compiled(rules)
  /\ UNCHANGED <<allow, admitted, ceiling, ids>>

GrantNet(cidr, ports) ==
  /\ ChangeNet(NetGranted(egress, cidr, ports))
  /\ last' = NetChange("grant", cidr, ports)
RevokeNet(cidr, ports) ==
  /\ ChangeNet(NetRevoked(egress, cidr, ports))
  /\ last' = NetChange("revoke", cidr, ports)

\* apply_capability for an exec capability: the path is resolved through a live
\* task; a grant is bounded by check_landlock_ceiling.
GrantExec(path) ==
  /\ Permits(ceiling, path, ExecRights)
  /\ allow' = allow \cup {path}
  /\ ids' = ids \cup {Identity(path)}
  /\ last' = ExecChange("grant_exec", path)
  /\ UNCHANGED <<egress, admitted, ceiling, trie>>

IdsWithout(path) == ids \ {Identity(path)}

\* A revoke takes the rule for the path out of the policy; a prefix above the
\* path stays.
RevokeExec(path) ==
  /\ allow' = allow \ {path}
  /\ ids' = IdsWithout(path)
  /\ last' = ExecChange("revoke_exec", path)
  /\ UNCHANGED <<egress, admitted, ceiling, trie>>

ChangeCapability ==
  \/ \E c \in Cidrs, ports \in PortSets : GrantNet(c, ports) \/ RevokeNet(c, ports)
  \/ \E p \in Paths : GrantExec(p) \/ RevokeExec(p)

-----------------------------------------------------------------------------
Ports == UNION PortSets
Destinations == Addresses \X Ports

\* What the sandbox can reach through a table.
Reach(table) == {d \in Destinations : Reaches(table, d[1], d[2])}
Within(cidr) == {a \in Addresses : IsPrefix(Key(cidr), a)}

\* "Widen a running sandbox's policy by one capability": a network grant takes
\* no destination away.
GrantOnlyWidens == [][last'.kind = "grant" => Reach(trie) \subseteq Reach(trie')]_policyVars

\* "Network grants work in full": afterwards every address under the CIDR, bar
\* metadata, is reachable on every port of the grant.
GrantReaches ==
  last.kind = "grant" => ((Within(last.cidr) \ Metadata) \X last.ports) \subseteq Reach(trie)

\* "Narrow a running sandbox's policy by one capability": a revoke opens no
\* destination.
RevokeOnlyNarrows == [][last'.kind = "revoke" => Reach(trie') \subseteq Reach(trie)]_policyVars

\* "removing a rule is by itself sufficient to deny": no address under the CIDR
\* is reachable afterwards on a port that was revoked, and a revoked binary does
\* not execute.
RevokeDenies ==
  /\ last.kind = "revoke" => (Within(last.cidr) \X last.ports) \cap Reach(trie) = {}
  /\ last.kind = "revoke_exec" => ~Executes(ids, last.path)

\* A binary the effective policy has a rule for executes, and no file executes
\* that neither a rule nor the launch admitted: the identities that the child
\* found behind its paths, and that later changes adjusted, are the policy's.
ExecFollowsPolicy ==
  /\ \A p \in allow : Executes(ids, p)
  /\ \A p \in Paths : Executes(ids, p) => \E q \in allow \cup admitted : Links[q] = Links[p]

\* effective_policy "is what L5 currently enforces".
EffectiveEnforced == \A p \in Paths : Executes(ids, p) <=> p \in allow \cup admitted
=============================================================================
