------------------------------- MODULE Launch -------------------------------
(***************************************************************************)
(* A launch from the policy document to the payload: exec and              *)
(* build_launch_policy (manager.rs), Launcher::spawn (launcher.rs), the    *)
(* child of ChildSetup with what the kernel answers to its steps, and,     *)
(* once the payload runs, the capability changes of Capabilities.          *)
(*                                                                         *)
(* What the kernel asks of a step (Needs) is external: it is what the      *)
(* comments of the code record about the order.  One sandbox launches      *)
(* until a payload runs; launches that overlap with destroy, grants or     *)
(* each other are SandboxManager.                                          *)
(***************************************************************************)
EXTENDS Capabilities, SeccompFilter, ChildSetup

CONSTANTS
  Documents,     \* policy documents clients register
  Commands,      \* commands clients run
  Abis,          \* Landlock ABIs of the host, as probed
  Directories    \* directories of the template

ASSUME LaunchAssumption ==
  /\ Abis \subseteq Nat \ {0}
  /\ Directories \cap Paths = {}

VARIABLES
  policy,     \* the policy of this launch
  cmd,        \* its command
  abi         \* landlock_abi

requestVars == <<policy, cmd, abi>>
vars == <<requestVars, setupVars, policyVars>>

-----------------------------------------------------------------------------
(* The kernel *)

\* The system calls a step is made of.
Calls ==
  [ sync |-> {"read"}, namespace_root |-> {"setresgid", "setresuid"}, no_new_privs |-> {"prctl"},
    private |-> {"mount"}, overlay |-> {"mount"}, proc |-> {"mkdir", "mount"},
    sys |-> {"mkdir", "mount"}, tmp |-> {"mkdir", "mount"}, dev |-> {"mkdir", "openat", "mount"},
    workspace |-> {"mkdir"}, pivot |-> {"chdir", "pivot_root", "umount2"},
    identities |-> {"openat", "read", "close", "newfstatat", "getdents64"},
    bounding |-> {"prctl", "capget", "capset"},
    landlock |-> {"landlock_create_ruleset", "openat", "landlock_add_rule", "landlock_restrict_self",
                  "close"},
    seccomp |-> {"prctl", "seccomp"}, unprivileged |-> {"setresgid", "setresuid"},
    capset |-> {"capset"}, ready |-> {"write"}, go |-> {"read"}, execve |-> {"execve"} ]

\* What each profile answers to every call that a table or a step names.
Names == UNION {Listed(p) : p \in Profiles} \cup UNION {Calls[s] : s \in DOMAIN Calls}
Verdicts == [p \in Profiles |-> [c \in [arch : Architectures, nr : Names] |-> Verdict(Programs[p], c)]]

\* The directories of the root file system once the child has added its own.
Made == {<<"proc">>, <<"sys">>, <<"tmp">>, <<"dev">>, <<"workspace">>}
IsDirectory(path) == path \in Directories \/ (path \in Made /\ path[1] \in task.mounted)
Exists(path) == IsDirectory(path) \/ path \in Paths

\* The rights that landlock_add_rule accepts on a file.
FileRights == {"EXECUTE", "WRITE_FILE", "READ_FILE", "TRUNCATE", "IOCTL_DEV"}

Privileged == "effective" \in task.caps
CanMount == Privileged /\ task.cred = "root" /\ task.ruleset = <<>>

\* apply_landlock: a rule without rights is skipped; every other path is opened.
RuleOpens(rule) ==
  rule.rights = {} \/ (Exists(rule.path) /\ (IsDirectory(rule.path) \/ rule.rights \subseteq FileRights))

\* collect_exec_identities fails on a path that is missing and on a prefix that
\* is not a directory, and reads /proc/self/mountinfo when there is any.
IdentitiesResolve ==
  /\ plan.paths \cup plan.prefixes # {} => "proc" \in task.mounted \/ task.root = "host"
  /\ plan.paths \subseteq Paths
  /\ \A p \in plan.prefixes : IsDirectory(p)

\* What the kernel asks of a step.
Needs ==
  [ sync |-> TRUE, namespace_root |-> Privileged, no_new_privs |-> TRUE, private |-> CanMount,
    overlay |-> CanMount, proc |-> CanMount, sys |-> CanMount, tmp |-> CanMount, dev |-> CanMount,
    workspace |-> task.cred = "root",
    pivot |-> CanMount /\ task.propagation = "private" /\ "overlay" \in task.mounted,
    identities |-> IdentitiesResolve, bounding |-> Privileged,
    landlock |-> (task.noNewPrivs \/ Privileged) /\ \A r \in plan.landlock : RuleOpens(r),
    seccomp |-> plan.seccomp \in Profiles, unprivileged |-> Privileged, capset |-> TRUE,
    ready |-> TRUE, go |-> TRUE,
    execve |-> /\ cmd \in Paths /\ Executes(ids, cmd)
               /\ \A rules \in Range(task.ruleset) : ExecRights \subseteq LandlockRights(rules, cmd) ]

Unfiltered(step) ==
  task.filter # "none" => \A nr \in Calls[step] : Verdicts[task.filter][Call(Native, nr)] = "ALLOW"

Works(step) == Needs[step] /\ Unfiltered(step)

-----------------------------------------------------------------------------
(* The launch *)

\* The policies a sandbox can name: the default, and what parse_policy accepted.
Registered == {DefaultPolicy} \cup {ParsePolicy(d) : d \in {d \in Documents : Accepted(d)}}

\* exec up to clone3.
Spawn(p, c) ==
  /\ Begin(BuildLaunchPolicy(p, c, abi))
  /\ policy' = p /\ cmd' = c
  /\ UNCHANGED <<abi, policyVars>>

ChildWorks ==
  /\ phase = "setup" /\ Works(SetupOrder[at])
  /\ SetupStep
  /\ UNCHANGED <<requestVars, policyVars>>
StepFails ==
  /\ phase = "setup" /\ ~Waits(SetupOrder[at]) /\ ~Works(SetupOrder[at])
  /\ Ends("failed")
  /\ UNCHANGED <<requestVars, policyVars>>

Release == ReleaseSetup /\ UNCHANGED <<requestVars, policyVars>>

\* install_policy with the identities of the Ready message.
Admitted == UNION {Expand(p) : p \in plan.prefixes}
InstallPolicy ==
  /\ Expressible(CompileNet(policy))
  /\ ReleasePayload
  /\ egress' = CompileNet(policy) /\ trie' = Compiled(CompileNet(policy))
  /\ allow' = IF policy.exec = <<>> THEN {} ELSE plan.paths
  /\ admitted' = IF policy.exec = <<>> THEN plan.paths ELSE Admitted
  /\ ceiling' = plan.landlock
  /\ ids' = {IdentityIn(task.resolvedIn, p) : p \in plan.paths \cup Admitted}
  /\ last' = NoChange
  /\ UNCHANGED requestVars
InstallFails ==
  /\ sync = "ready" /\ ~Expressible(CompileNet(policy))
  /\ Ends("failed")
  /\ UNCHANGED <<requestVars, policyVars>>

\* Any call of spawn or of the child may fail for want of memory or the like.
Fault == Ends("faulted") /\ UNCHANGED <<requestVars, policyVars>>

LaunchStep == ChildWorks \/ StepFails \/ Release \/ InstallPolicy \/ InstallFails

Change == phase = "payload" /\ ChangeCapability /\ UNCHANGED <<requestVars, setupVars>>

Init ==
  /\ abi \in Abis /\ policy = DefaultPolicy /\ cmd \in Commands
  /\ SetupInit /\ plan = BuildLaunchPolicy(policy, cmd, abi)
  /\ egress = <<>> /\ allow = {} /\ admitted = {} /\ ceiling = {} /\ ids = {}
  /\ trie = Compiled(<<>>) /\ last = NoChange

Next ==
  \/ \E p \in Registered, c \in Commands : Spawn(p, c)
  \/ LaunchStep
  \/ Fault
  \/ Change

\* The daemon and the child run, and each returns from every call.
Spec == Init /\ [][Next]_vars /\ WF_vars(LaunchStep)

-----------------------------------------------------------------------------
(* Properties *)

\* The program that a launch installs answers as its table says: on the architecture
\* of the build the action of the row, or the default of the profile; on any
\* other architecture it kills.
FilterAsListed ==
  phase = "setup" /\ task.filter # "none" =>
    \A c \in [arch : Architectures, nr : Names] :
      LET rows == {r \in Range(Table(task.filter)) : r.nr = c.nr} IN
      Verdicts[task.filter][c] =
        CASE c.arch # Native -> "KILL_PROCESS"
          [] c.arch = Native /\ rows = {} -> Otherwise(task.filter)
          [] OTHER -> (CHOOSE r \in rows : TRUE).action

\* "cannot grant write access to system path": in no sandbox do the Landlock
\* rules, on a directory of the system or above it, give a right to write there.
WriteRights == Mask(WriteWords)
SystemDirectories == {<<>>, <<"usr">>, <<"etc">>, <<"proc">>, <<"sys">>, <<"dev">>}
SystemPathsReadOnly ==
  \A rules \in Range(task.ruleset), d \in SystemDirectories :
    LandlockRights(rules, d) \cap WriteRights = {}

\* Every exec rule L5 has is one that L3 lets the sandbox observe: neither the
\* launch nor a sequence of grants installs a binary that the ruleset of the
\* child still denies.
GrantsObservable ==
  phase = "payload" =>
    \A p \in allow \cup admitted, rules \in Range(task.ruleset) :
      ExecRights \subseteq LandlockRights(rules, p)

\* A policy whose paths exist in the template, with the default profile and
\* egress rules that the maps can hold, for a command that it lets run.
Launchable ==
  /\ \A r \in plan.landlock :
       \/ r.path \in Directories \cup Made
       \/ r.path \in Paths /\ r.rights \subseteq FileRights
  /\ plan.paths \subseteq Paths /\ plan.prefixes \subseteq Directories
  /\ cmd \in plan.paths \cup UNION {Expand(p) : p \in plan.prefixes}
  /\ Expressible(CompileNet(policy))
DefaultLaunchable == Launchable /\ plan.seccomp = "aivisor-default"

\* child_setup has an order in which every step still may do what it does: unless
\* an error is injected, the launch of a sound policy ends with the payload.
LaunchCompletes ==
  (phase = "setup" /\ DefaultLaunchable) ~> (phase \in {"payload", "faulted"})

\* The same of the strict profile, which apply_seccomp offers beside the default.
SoundLaunchCompletes ==
  (phase = "setup" /\ Launchable) ~> (phase \in {"payload", "faulted"})
=============================================================================
