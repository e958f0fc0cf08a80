----------------------------- MODULE ChildSetup -----------------------------
(***************************************************************************)
(* The child of a launch: child_setup (launcher.rs) with the steps it      *)
(* calls in caps.rs, rootfs.rs, landlock.rs and seccomp.rs, and the        *)
(* messages of spawn that it waits for.                                    *)
(*                                                                         *)
(* The child takes the steps of SetupOrder one after the other; here each  *)
(* of them succeeds or ends the child.  Which of them the kernel grants,   *)
(* and where the plan comes from, is Launch.                               *)
(***************************************************************************)
EXTENDS Integers, Sequences

VARIABLES
  plan,       \* the LaunchPolicy: landlock rules, seccomp profile, exec paths and prefixes
  phase,      \* "idle", "setup", "payload", "failed", or "faulted" after an injected error
  at,         \* the step of SetupOrder the child is at
  task,       \* the child, as the kernel knows it
  sync        \* the socket pair: "none", "started", "ready", "go"

setupVars == <<plan, phase, at, task, sync>>

-----------------------------------------------------------------------------
(* The order of child_setup *)

SetupOrder_ReadyEarly ==
  <<"sync", "namespace_root", "no_new_privs", "private", "overlay", "proc", "sys", "tmp", "dev",
    "workspace", "pivot", "identities", "ready", "bounding", "landlock", "seccomp", "unprivileged",
    "capset", "go", "execve">>
SetupOrder_CapsBeforeUid ==
  <<"sync", "namespace_root", "no_new_privs", "private", "overlay", "proc", "sys", "tmp", "dev",
    "workspace", "pivot", "identities", "bounding", "landlock", "seccomp", "capset", "unprivileged",
    "ready", "go", "execve">>
SetupOrder_IdentitiesFirst ==
  <<"sync", "namespace_root", "no_new_privs", "private", "overlay", "proc", "sys", "tmp", "dev",
    "workspace", "identities", "pivot", "bounding", "landlock", "seccomp", "unprivileged", "capset",
    "ready", "go", "execve">>
SetupOrder ==
  <<"sync", "namespace_root", "no_new_privs", "private", "overlay", "proc", "sys", "tmp", "dev",
    "workspace", "pivot", "identities", "bounding", "landlock", "seccomp", "unprivileged", "capset",
    "ready", "go", "execve">>

-----------------------------------------------------------------------------
(* The steps *)

CapSets == {"effective", "permitted", "inheritable", "bounding", "ambient"}

\* After clone3: the credentials of the daemon, all capabilities in the new user
\* namespace, a copy of the mounts of the host.
Forked ==
  [ cred |-> "daemon", caps |-> CapSets, noNewPrivs |-> FALSE, propagation |-> "shared",
    mounted |-> {}, devices |-> "none", root |-> "host", oldRoot |-> FALSE, resolvedIn |-> "none",
    ruleset |-> <<>>, filter |-> "none" ]

\* The two reads that block.
Waits(step) == (step = "sync" /\ sync = "none") \/ (step = "go" /\ sync # "go")

Step(step) ==
  /\ phase = "setup"
  /\ SetupOrder[at] = step
  /\ ~Waits(step)
  /\ at' = at + 1
  /\ plan' = plan

\* A step that only changes the child.
Child(step, next) == Step(step) /\ task' = next /\ UNCHANGED <<phase, sync>>

Receive == Child("sync", task) \/ Child("go", task)

\* caps.rs
BecomeNamespaceRoot == Child("namespace_root", [task EXCEPT !.cred = "root"])
SetNoNewPrivs == Child("no_new_privs", [task EXCEPT !.noNewPrivs = TRUE])
DropBoundingSet == Child("bounding", [task EXCEPT !.caps = @ \ {"bounding", "ambient", "inheritable"}])

\* setresuid away from root may or may not clear the effective capabilities.
DropToUnprivileged ==
  \E kept \in {task.caps, task.caps \ {"effective", "permitted", "ambient"}} :
    Child("unprivileged", [task EXCEPT !.cred = "user", !.caps = kept])
FinishDroppingCapabilities ==
  Child("capset", [task EXCEPT !.caps = @ \ {"effective", "permitted", "inheritable"}])

\* The mounts; the overlay hides what was mounted below its mount point before.
RemountRootPrivate == Child("private", [task EXCEPT !.propagation = "private"])
MountOverlay == Child("overlay", [task EXCEPT !.mounted = {"overlay"}])
MountInto(step) == Child(step, [task EXCEPT !.mounted = @ \cup {step}])
MountDev ==
  Child("dev", [task EXCEPT !.mounted = @ \cup {"dev"},
                            !.devices = IF task.root = "host" THEN "host" ELSE "placeholder"])
PivotInto == Child("pivot", [task EXCEPT !.root = "merged", !.oldRoot = FALSE])
SetUpRoot ==
  \/ RemountRootPrivate \/ MountOverlay \/ MountDev \/ PivotInto
  \/ \E step \in {"proc", "sys", "tmp", "workspace"} : MountInto(step)

\* The root file system in which the exec paths are looked up.
CollectExecIdentities == Child("identities", [task EXCEPT !.resolvedIn = task.root])
ApplyLandlock == Child("landlock", [task EXCEPT !.ruleset = Append(@, plan.landlock)])
ApplySeccomp == Child("seccomp", [task EXCEPT !.filter = plan.seccomp, !.noNewPrivs = TRUE])

SendReady == Step("ready") /\ sync' = "ready" /\ UNCHANGED <<phase, task>>
Execve == Step("execve") /\ phase' = "payload" /\ UNCHANGED <<task, sync>>

SetupStep ==
  \/ Receive \/ BecomeNamespaceRoot \/ SetNoNewPrivs \/ SetUpRoot \/ CollectExecIdentities
  \/ DropBoundingSet \/ ApplyLandlock \/ ApplySeccomp \/ DropToUnprivileged
  \/ FinishDroppingCapabilities \/ SendReady \/ Execve

-----------------------------------------------------------------------------
(* The other side *)

Begin(p) ==
  /\ phase \in {"idle", "failed", "faulted"}
  /\ plan' = p
  /\ phase' = "setup" /\ at' = 1 /\ task' = Forked /\ sync' = "none"

\* write_userns_maps, the cgroup, and the first byte.
ReleaseSetup ==
  /\ phase = "setup" /\ sync = "none"
  /\ sync' = "started"
  /\ UNCHANGED <<plan, phase, at, task>>

\* The second byte, once the policy is installed.
ReleasePayload ==
  /\ phase = "setup" /\ sync = "ready"
  /\ sync' = "go"
  /\ UNCHANGED <<plan, phase, at, task>>

\* The child ends, by itself or killed by spawn, which returns an error.
Ends(how) ==
  /\ phase = "setup"
  /\ phase' = how /\ at' = 1 /\ task' = Forked /\ sync' = "none"
  /\ plan' = plan

SetupInit == phase = "idle" /\ at = 1 /\ task = Forked /\ sync = "none"

\* A launch may come with any plan.
SetupNext ==
  \/ Begin(plan') \/ SetupStep \/ ReleaseSetup \/ ReleasePayload
  \/ \E how \in {"failed", "faulted"} : Ends(how)

\* What a launch is to a child, whatever its policy and its kernel.
SetupSpec == SetupInit /\ [][SetupNext]_setupVars

-----------------------------------------------------------------------------
\* "Report readiness LAST": when the daemon hears Ready, and for as long as the
\* payload runs, the child has no capability in any set, cannot gain one, is
\* not root, sees only its own root, and is under the ruleset and the filter of
\* its policy, with the devices of the host and not placeholders.
Confined ==
  /\ task.caps = {} /\ task.noNewPrivs /\ task.cred = "user"
  /\ task.root = "merged" /\ ~task.oldRoot /\ task.devices = "host"
  /\ task.ruleset = <<plan.landlock>> /\ task.filter = plan.seccomp
ReadyMeansConfined == sync \in {"ready", "go"} => Confined
=============================================================================
