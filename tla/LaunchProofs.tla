---------------------------- MODULE LaunchProofs ----------------------------
(***************************************************************************)
(* ReadyMeansConfined for every plan and every answer of the kernel, and   *)
(* Launch as an implementation of ChildSetup, for every set of documents,  *)
(* commands, directories, binaries, Landlock ABIs and capability changes.  *)
(***************************************************************************)
EXTENDS Launch, WellFoundedInduction, TLAPS

Steps == 20

\* What the steps before the child's have left behind.  The property itself is
\* not inductive: that Ready comes from a confined child is a matter of which
\* steps lie behind the one that sends it.
Progress ==
  /\ at > 3 => task.noNewPrivs
  /\ at <= 11 => task.root = "host"
  /\ at > 9 => task.devices = "host"
  /\ at > 11 => task.root = "merged"
  /\ task.oldRoot = FALSE
  /\ at > 13 => task.caps \cap {"bounding", "ambient", "inheritable"} = {}
  /\ at <= 14 => task.ruleset = <<>>
  /\ at > 14 => task.ruleset = <<plan.landlock>>
  /\ at > 15 => task.filter = plan.seccomp
  /\ at > 16 => task.cred = "user"
  /\ at > 17 => task.caps = {}

FieldNames == {"cred", "caps", "noNewPrivs", "propagation", "mounted", "devices", "root", "oldRoot",
               "resolvedIn", "ruleset", "filter"}
Shape == DOMAIN task = FieldNames /\ task.caps \subseteq CapSets

\* A step changes the fields it touches, and of the others at most what the
\* invariant does not mention.
Mentioned == {"cred", "caps", "noNewPrivs", "devices", "root", "oldRoot", "ruleset", "filter"}
Keeps(touched) == \A f \in Mentioned \ touched : task'[f] = task[f]

IInv ==
  /\ at \in 1 .. Steps + 1
  /\ phase = "setup" => at <= Steps
  /\ sync \in {"ready", "go"} => at > 18
  /\ Shape
  /\ Progress

\* Where each step is in the order of child_setup.
LEMMA Order ==
  ASSUME NEW i \in 1 .. Steps
  PROVE  /\ SetupOrder[i] = "sync" => i = 1
         /\ SetupOrder[i] = "namespace_root" => i = 2
         /\ SetupOrder[i] = "no_new_privs" => i = 3
         /\ SetupOrder[i] = "private" => i = 4
         /\ SetupOrder[i] = "overlay" => i = 5
         /\ SetupOrder[i] \in {"proc", "sys", "tmp", "workspace"} => i \in {6, 7, 8, 10}
         /\ SetupOrder[i] = "dev" => i = 9
         /\ SetupOrder[i] = "pivot" => i = 11
         /\ SetupOrder[i] = "identities" => i = 12
         /\ SetupOrder[i] = "bounding" => i = 13
         /\ SetupOrder[i] = "landlock" => i = 14
         /\ SetupOrder[i] = "seccomp" => i = 15
         /\ SetupOrder[i] = "unprivileged" => i = 16
         /\ SetupOrder[i] = "capset" => i = 17
         /\ SetupOrder[i] = "ready" => i = 18
         /\ SetupOrder[i] = "go" => i = 19
         /\ SetupOrder[i] = "execve" <=> i = 20
  BY SMTT(60) DEF SetupOrder, Steps

\* A step of the child takes it to the next place in the order.
LEMMA StepMoves ==
  ASSUME IInv, NEW step, Step(step)
  PROVE  /\ at \in 1 .. Steps /\ at' = at + 1 /\ at' \in 1 .. Steps + 1
         /\ SetupOrder[at] = step
         /\ phase = "setup"
         /\ plan' = plan
  BY DEF IInv, Step, Steps

\* A step that only changes the child, and is not the last, keeps the invariant
\* when the child keeps its shape and what lies behind it.
LEMMA ChildKeeps ==
  ASSUME IInv, NEW step, NEW next, Child(step, next), step # "execve", Shape', Progress'
  PROVE  IInv'
  <1>1. at' = at + 1 /\ at \in 1 .. Steps /\ at # Steps
    BY StepMoves, Order DEF Child, Steps
  <1> QED BY <1>1, SMTT(20) DEF IInv, Child, Steps

LEMMA SetupStepKeeps ==
  ASSUME IInv, SetupStep
  PROVE  IInv'
  <1>1. CASE Receive
    <2>1. PICK step \in {"sync", "go"} : Child(step, task)
      BY <1>1, Zenon DEF Receive
    <2>2. at \in {1, 19} /\ at' = at + 1 /\ plan' = plan
      BY <2>1, StepMoves, Order, SMTT(20) DEF Child
    <2>3. Shape' /\ Progress'
      BY <2>1, <2>2 DEF Child, IInv, Shape, Progress
    <2> QED BY <2>1, <2>3, ChildKeeps, Zenon
  <1>2. CASE BecomeNamespaceRoot
    <2>1. at = 2 /\ at' = 3 /\ plan' = plan
      BY <1>2, StepMoves, Order, SMTT(20) DEF BecomeNamespaceRoot, Child
    <2>2. /\ Shape'
          /\ Keeps({"cred"})
      BY <1>2, Zenon DEF BecomeNamespaceRoot, Child, Keeps, Mentioned, IInv, Shape, FieldNames, CapSets
    <2>3. Progress'
      BY <2>1, <2>2 DEF Keeps, Mentioned, IInv, Progress
    <2> QED BY <1>2, <2>2, <2>3, ChildKeeps, Zenon DEF BecomeNamespaceRoot
  <1>3. CASE SetNoNewPrivs
    <2>1. at = 3 /\ at' = 4 /\ plan' = plan
      BY <1>3, StepMoves, Order DEF SetNoNewPrivs, Child
    <2>2. /\ Shape'
          /\ task'.noNewPrivs
          /\ Keeps({"noNewPrivs"})
      BY <1>3, Zenon DEF SetNoNewPrivs, Child, Keeps, Mentioned, IInv, Shape, FieldNames, CapSets
    <2>3. Progress'
      BY <2>1, <2>2 DEF Keeps, Mentioned, IInv, Progress
    <2> QED BY <1>3, <2>2, <2>3, ChildKeeps, Zenon DEF SetNoNewPrivs
  <1>4. CASE SetUpRoot
    <2>1. CASE RemountRootPrivate
      <3>1. at = 4 /\ at' = 5 /\ plan' = plan
        BY <2>1, StepMoves, Order DEF RemountRootPrivate, Child
      <3>2. /\ Shape'
            /\ Keeps({})
        BY <2>1, Zenon DEF RemountRootPrivate, Child, Keeps, Mentioned, IInv, Shape, FieldNames, CapSets
      <3>3. Progress'
        BY <3>1, <3>2 DEF Keeps, Mentioned, IInv, Progress
      <3> QED BY <2>1, <3>2, <3>3, ChildKeeps, Zenon DEF RemountRootPrivate
    <2>2. CASE MountOverlay
      <3>1. at = 5 /\ at' = 6 /\ plan' = plan
        BY <2>2, StepMoves, Order DEF MountOverlay, Child
      <3>2. /\ Shape'
            /\ Keeps({})
        BY <2>2, Zenon DEF MountOverlay, Child, Keeps, Mentioned, IInv, Shape, FieldNames, CapSets
      <3>3. Progress'
        BY <3>1, <3>2 DEF Keeps, Mentioned, IInv, Progress
      <3> QED BY <2>2, <3>2, <3>3, ChildKeeps, Zenon DEF MountOverlay
    <2>3. CASE MountDev
      <3>1. at = 9 /\ at' = 10 /\ plan' = plan
        BY <2>3, StepMoves, Order, SMTT(20) DEF MountDev, Child
      <3>2. /\ Shape'
            /\ task'.devices = IF task.root = "host" THEN "host" ELSE "placeholder"
            /\ Keeps({"devices"})
        BY <2>3, Zenon DEF MountDev, Child, Keeps, Mentioned, IInv, Shape, FieldNames, CapSets
      <3>3. Progress'
        BY <3>1, <3>2 DEF Keeps, Mentioned, IInv, Progress
      <3> QED BY <2>3, <3>2, <3>3, ChildKeeps, Zenon DEF MountDev
    <2>4. CASE PivotInto
      <3>1. at = 11 /\ at' = 12 /\ plan' = plan
        BY <2>4, StepMoves, Order DEF PivotInto, Child
      <3>2. /\ Shape'
            /\ task'.root = "merged"
            /\ task'.oldRoot = FALSE
            /\ Keeps({"root", "oldRoot"})
        BY <2>4, Zenon DEF PivotInto, Child, Keeps, Mentioned, IInv, Shape, FieldNames, CapSets
      <3>3. Progress'
        BY <3>1, <3>2 DEF Keeps, Mentioned, IInv, Progress
      <3> QED BY <2>4, <3>2, <3>3, ChildKeeps, Zenon DEF PivotInto
    <2>5. ASSUME NEW step \in {"proc", "sys", "tmp", "workspace"}, MountInto(step) PROVE IInv'
      <3>1. at \in {6, 7, 8, 10} /\ at' = at + 1 /\ plan' = plan
        BY <2>5, StepMoves, Order, ZenonT(30) DEF MountInto, Child
      <3>2. /\ Shape'
            /\ Keeps({})
        BY <2>5, Zenon DEF MountInto, Child, Keeps, Mentioned, IInv, Shape, FieldNames, CapSets
      <3>3. Progress'
        BY <3>1, <3>2 DEF Keeps, Mentioned, IInv, Progress
      <3> QED BY <2>5, <3>2, <3>3, ChildKeeps, Zenon DEF MountInto
    <2> QED BY <1>4, <2>1, <2>2, <2>3, <2>4, <2>5, Zenon DEF SetUpRoot
  <1>5. CASE CollectExecIdentities
    <2>1. at = 12 /\ at' = 13 /\ plan' = plan
      BY <1>5, StepMoves, Order DEF CollectExecIdentities, Child
    <2>2. /\ Shape'
          /\ Keeps({})
      BY <1>5, Zenon DEF CollectExecIdentities, Child, Keeps, Mentioned, IInv, Shape, FieldNames, CapSets
    <2>3. Progress'
      BY <2>1, <2>2 DEF Keeps, Mentioned, IInv, Progress
    <2> QED BY <1>5, <2>2, <2>3, ChildKeeps, Zenon DEF CollectExecIdentities
  <1>6. CASE DropBoundingSet
    <2>1. at = 13 /\ at' = 14 /\ plan' = plan
      BY <1>6, StepMoves, Order, SMTT(20) DEF DropBoundingSet, Child
    <2>2. /\ Shape'
          /\ task'.caps = task.caps \ {"bounding", "ambient", "inheritable"}
          /\ Keeps({"caps"})
      BY <1>6, Zenon DEF DropBoundingSet, Child, Keeps, Mentioned, IInv, Shape, FieldNames, CapSets
    <2>3. Progress'
      BY <2>1, <2>2 DEF Keeps, Mentioned, IInv, Progress
    <2> QED BY <1>6, <2>2, <2>3, ChildKeeps, Zenon DEF DropBoundingSet
  <1>7. CASE ApplyLandlock
    <2>1. at = 14 /\ at' = 15 /\ plan' = plan
      BY <1>7, StepMoves, Order, SMTT(20) DEF ApplyLandlock, Child
    <2>2. /\ Shape'
          /\ task'.ruleset = Append(task.ruleset, plan.landlock)
          /\ Keeps({"ruleset"})
      BY <1>7, Zenon DEF ApplyLandlock, Child, Keeps, Mentioned, IInv, Shape, FieldNames, CapSets
    <2>3. task'.ruleset = <<plan.landlock>>
      <3>1. task.ruleset = <<>>
        BY <2>1 DEF IInv, Progress
      <3> QED BY <2>2, <3>1
    <2>4. Progress'
      BY <2>1, <2>2, <2>3 DEF Keeps, Mentioned, IInv, Progress
    <2> QED BY <1>7, <2>2, <2>4, ChildKeeps, Zenon DEF ApplyLandlock
  <1>8. CASE ApplySeccomp
    <2>1. at = 15 /\ at' = 16 /\ plan' = plan
      BY <1>8, StepMoves, Order, SMTT(20) DEF ApplySeccomp, Child
    <2>2. /\ Shape'
          /\ task'.filter = plan.seccomp
          /\ task'.noNewPrivs
          /\ Keeps({"noNewPrivs", "filter"})
      BY <1>8, Zenon DEF ApplySeccomp, Child, Keeps, Mentioned, IInv, Shape, FieldNames, CapSets
    <2>3. Progress'
      BY <2>1, <2>2 DEF Keeps, Mentioned, IInv, Progress
    <2> QED BY <1>8, <2>2, <2>3, ChildKeeps, Zenon DEF ApplySeccomp
  <1>9. CASE DropToUnprivileged
    <2>1. at = 16 /\ at' = 17 /\ plan' = plan
      BY <1>9, StepMoves, Order, SMTT(20) DEF DropToUnprivileged, Child
    <2>2. /\ Shape'
          /\ task'.cred = "user" /\ task'.caps \subseteq task.caps
          /\ Keeps({"cred", "caps"})
      <3>1. PICK kept \in {task.caps, task.caps \ {"effective", "permitted", "ambient"}} :
              Child("unprivileged", [task EXCEPT !.cred = "user", !.caps = kept])
        BY <1>9, Zenon DEF DropToUnprivileged
      <3>2. kept \subseteq task.caps
        BY <3>1, Zenon
      <3>3. task' = [task EXCEPT !.cred = "user", !.caps = kept] /\ DOMAIN task = FieldNames
        BY <3>1, Zenon DEF Child, IInv, Shape
      <3>4. /\ DOMAIN task' = FieldNames /\ task'.cred = "user" /\ task'.caps = kept
            /\ Keeps({"cred", "caps"})
        BY <3>3, Zenon DEF FieldNames, Keeps, Mentioned
      <3> QED BY <3>2, <3>4, Zenon DEF IInv, Shape
    <2>3. Progress'
      BY <2>1, <2>2 DEF Keeps, Mentioned, IInv, Progress
    <2> QED BY <1>9, <2>2, <2>3, ChildKeeps, Zenon DEF DropToUnprivileged
  <1>10. CASE FinishDroppingCapabilities
    <2>1. at = 17 /\ at' = 18 /\ plan' = plan
      BY <1>10, StepMoves, Order, SMTT(20) DEF FinishDroppingCapabilities, Child
    <2>2. /\ Shape'
          /\ task'.caps = task.caps \ {"effective", "permitted", "inheritable"}
          /\ Keeps({"caps"})
      BY <1>10, Zenon DEF FinishDroppingCapabilities, Child, Keeps, Mentioned, IInv, Shape, FieldNames, CapSets
    <2>3. task'.caps = {}
      <3>1. /\ task.caps \subseteq CapSets
            /\ task.caps \cap {"bounding", "ambient", "inheritable"} = {}
        BY <2>1 DEF IInv, Shape, Progress
      <3> QED BY <2>2, <3>1, Zenon DEF CapSets
    <2>4. Progress'
      BY <2>1, <2>2, <2>3, SMTT(20) DEF Keeps, Mentioned, IInv, Progress
    <2> QED BY <1>10, <2>2, <2>4, ChildKeeps, Zenon DEF FinishDroppingCapabilities
  <1>11. CASE SendReady
    <2>1. at = 18 /\ at' = 19 /\ plan' = plan
      BY <1>11, StepMoves, Order DEF SendReady
    <2> QED BY <1>11, <2>1 DEF SendReady, Step, IInv, Steps, Shape, Progress
  <1>12. CASE Execve
    <2>1. at = 20 /\ at' = 21 /\ plan' = plan
      BY <1>12, StepMoves, Order DEF Execve
    <2> QED BY <1>12, <2>1, SMTT(20) DEF Execve, Step, IInv, Steps, Shape, Progress
  <1> QED BY <1>1, <1>2, <1>3, <1>4, <1>5, <1>6, <1>7, <1>8, <1>9, <1>10, <1>11, <1>12, Zenon DEF SetupStep

LEMMA NextKeeps ==
  ASSUME IInv, [SetupNext]_setupVars
  PROVE  IInv'
  <1>1. CASE SetupStep
    BY <1>1, SetupStepKeeps, Zenon
  <1>2. ASSUME at' = 1, task' = Forked, sync' = "none" PROVE IInv'
    BY <1>2 DEF IInv, Steps, Shape, FieldNames, CapSets, Progress, Forked
  <1>3. CASE Begin(plan') \/ \E how \in {"failed", "faulted"} : Ends(how)
    BY <1>2, <1>3, Zenon DEF Begin, Ends
  <1>4. CASE ReleaseSetup \/ ReleasePayload \/ UNCHANGED setupVars
    BY <1>4 DEF ReleaseSetup, ReleasePayload, setupVars, IInv, Shape, Progress
  <1> QED BY <1>1, <1>3, <1>4, Zenon DEF SetupNext

\* child_setup sends Ready from a child that has lost every capability, its
\* view of the host and its identity, and is under the ruleset and the filter
\* of its plan, whatever the plan and whichever steps the kernel refuses.
THEOREM SetupConfined == SetupSpec => []ReadyMeansConfined
  <1>1. SetupInit => IInv
    BY DEF SetupInit, IInv, Steps, Shape, FieldNames, CapSets, Progress, Forked
  <1>2. IInv /\ [SetupNext]_setupVars => IInv'
    BY NextKeeps, Zenon
  <1>3. IInv => ReadyMeansConfined
    BY DEF IInv, Steps, Progress, ReadyMeansConfined, Confined
  <1> QED BY <1>1, <1>2, <1>3, PTL DEF SetupSpec

-----------------------------------------------------------------------------
\* Every step of a launch is, to the child, a step of child_setup or none.
LEMMA LaunchStepIsSetup ==
  ASSUME [Next]_vars
  PROVE  [SetupNext]_setupVars
  <1>1. ASSUME NEW p \in Registered, NEW c \in Commands, Spawn(p, c) PROVE SetupNext
    BY <1>1, Zenon DEF Spawn, Begin, SetupNext
  <1>2. CASE LaunchStep
    BY <1>2, Zenon DEF LaunchStep, ChildWorks, StepFails, Release, InstallPolicy, InstallFails, SetupNext
  <1>3. CASE Fault
    BY <1>3, Zenon DEF Fault, SetupNext
  <1>4. CASE Change \/ UNCHANGED vars
    BY <1>4, Zenon DEF Change, vars
  <1> QED BY <1>1, <1>2, <1>3, <1>4, Zenon DEF Next

\* A launch from a policy document, with the kernel's answers and whatever
\* capability changes follow it, is to the child a run of child_setup.
THEOREM LaunchIsSetup == Spec => SetupSpec
  <1>1. Init => SetupInit
    BY Zenon DEF Init
  <1>2. [Next]_vars => [SetupNext]_setupVars
    BY LaunchStepIsSetup, Zenon
  <1> QED BY <1>1, <1>2, PTL DEF Spec, SetupSpec

\* In every launch the daemon hears Ready only from a confined child.
THEOREM ReadyConfined == Spec => []ReadyMeansConfined
  BY LaunchIsSetup, SetupConfined, PTL
-----------------------------------------------------------------------------
(* What a launch is planned from *)

PlanInv ==
  /\ abi \in Nat \ {0}
  /\ policy \in Registered /\ plan = BuildLaunchPolicy(policy, cmd, abi)

LEMMA SetupKeepsPlan ==
  ASSUME SetupStep
  PROVE  plan' = plan
  BY Zenon DEF SetupStep, Receive, BecomeNamespaceRoot, SetNoNewPrivs, SetUpRoot, RemountRootPrivate,
     MountOverlay, MountDev, PivotInto, MountInto, CollectExecIdentities, DropBoundingSet,
     ApplyLandlock, ApplySeccomp, DropToUnprivileged, FinishDroppingCapabilities, SendReady, Execve,
     Child, Step

LEMMA PlanInitially ==
  ASSUME Init
  PROVE  PlanInv
  BY LaunchAssumption, Zenon DEF Init, PlanInv, Registered

LEMMA PlanKept ==
  ASSUME PlanInv, [Next]_vars
  PROVE  PlanInv'
  <1>1. ASSUME NEW p \in Registered, NEW c \in Commands, Spawn(p, c) PROVE PlanInv'
    <2>1. plan' = BuildLaunchPolicy(p, c, abi) /\ policy' = p /\ cmd' = c /\ abi' = abi
      BY <1>1, Zenon DEF Spawn, Begin
    <2>2. plan' = BuildLaunchPolicy(policy', cmd', abi')
      BY <2>1, Zenon
    <2> QED BY <2>1, <2>2, Zenon DEF PlanInv
  <1>2. ASSUME plan' = plan, UNCHANGED requestVars PROVE PlanInv'
    BY <1>2, Zenon DEF PlanInv, requestVars, Registered
  <1>3. CASE LaunchStep
    <2>1. plan' = plan
      BY <1>3, SetupKeepsPlan, Zenon
         DEF LaunchStep, ChildWorks, StepFails, Release, InstallPolicy, InstallFails, Ends, ReleaseSetup,
             ReleasePayload
    <2>2. UNCHANGED requestVars
      BY <1>3, Zenon DEF LaunchStep, ChildWorks, StepFails, Release, InstallPolicy, InstallFails
    <2> QED BY <1>2, <2>1, <2>2, Zenon
  <1>4. CASE Fault
    BY <1>2, <1>4, Zenon DEF Fault, Ends
  <1>5. CASE Change \/ UNCHANGED vars
    BY <1>2, <1>5, Zenon DEF Change, vars, setupVars
  <1> QED BY <1>1, <1>3, <1>4, <1>5, Zenon DEF Next

-----------------------------------------------------------------------------
(* System paths *)

\* No document spells a path of its filesystem rules with a slash at the end.
PlainlySpelled ==
  \A d \in Documents : d.filesystem # <<>> =>
    \A r \in Range(d.filesystem[1].rules) : r.path.names \in Seq(STRING) /\ ~r.path.slash

LEMMA ReadRights ==
  ASSUME NEW access, access \cap WriteWords = {}
  PROVE  Mask(access) \cap WriteRights = {}
  <1> SUFFICES ASSUME NEW x, x \in Mask(access), x \in WriteRights PROVE FALSE
    BY Zenon
  <1>1. PICK w \in access \cap DOMAIN WordRights : x \in WordRights[w]
    BY Zenon DEF Mask
  <1>2. PICK v \in WriteWords \cap DOMAIN WordRights : x \in WordRights[v]
    BY Zenon DEF WriteRights, Mask
  <1>3. w \in {"read", "execute"}
    BY <1>1, Zenon DEF WordRights, WriteWords
  <1>4. x \in {"READ_FILE", "READ_DIR", "EXECUTE"}
    BY <1>1, <1>3 DEF WordRights
  <1>5. v \in {"write", "create", "delete", "truncate"}
    BY <1>2, Zenon DEF WriteWords
  <1> QED BY <1>2, <1>4, <1>5 DEF WordRights

LEMMA AboveSystem ==
  ASSUME NEW d \in SystemDirectories, NEW p \in Seq(STRING), IsPrefix(p, d)
  PROVE  p \in SystemPaths
  <1>1. p = <<>> \/ p = d
    BY DEF IsPrefix, SystemDirectories
  <1> QED BY <1>1, Zenon DEF SystemDirectories, SystemPaths

LEMMA OtherPaths ==
  ASSUME NEW d \in SystemDirectories
  PROVE  /\ \A w \in {"workspace", "lib", "lib64", "tmp"} : ~IsPrefix(<<w>>, d)
         /\ ~IsPrefix(<<"etc", "ssl", "certs">>, d)
  <1>1. d = <<>> \/ \E v \in {"usr", "etc", "proc", "sys", "dev"} : d = <<v>>
    BY Zenon DEF SystemDirectories
  <1>2. Len(d) <= 1
    <2>1. CASE d = <<>>
      BY <2>1
    <2>2. ASSUME NEW v, d = <<v>> PROVE Len(d) = 1
      BY <2>2, Zenon
    <2> QED BY <1>1, <2>1, <2>2
  <1>3. ~IsPrefix(<<"etc", "ssl", "certs">>, d)
    BY <1>1, <1>2 DEF IsPrefix
  <1>4. ASSUME NEW w \in {"workspace", "lib", "lib64", "tmp"}, IsPrefix(<<w>>, d) PROVE FALSE
    <2>1. <<w>> \in Seq({w}) /\ Len(<<w>>) = 1
      OBVIOUS
    <2>2. <<w>> = d
      BY <1>4, <2>1 DEF IsPrefix, SystemDirectories
    <2> QED BY <1>1, <2>1, <2>2, Zenon
  <1> QED BY <1>3, <1>4, Zenon

\* The filesystem rules on a system directory or above it have no word to write.
LEMMA SystemRules ==
  ASSUME PlainlySpelled, NEW p \in Registered, NEW r \in p.filesystem,
         NEW d \in SystemDirectories, IsPrefix(r.path, d)
  PROVE  r.access \cap WriteWords = {}
  <1>1. CASE p = DefaultPolicy
    <2>1. \/ r.path = <<"usr">> /\ r.access = {"read", "execute"}
          \/ \E w \in {"workspace", "lib", "lib64", "tmp"} : r.path = <<w>>
          \/ r.path = <<"etc", "ssl", "certs">>
      BY <1>1 DEF DefaultPolicy
    <2>2. CASE r.path = <<"usr">> /\ r.access = {"read", "execute"}
      BY <2>2, Zenon DEF WriteWords
    <2>3. ASSUME NEW w \in {"workspace", "lib", "lib64", "tmp"}, r.path = <<w>> PROVE FALSE
      BY <2>3, OtherPaths, Zenon
    <2>4. r.path # <<"etc", "ssl", "certs">>
      BY OtherPaths, Zenon
    <2> QED BY <2>1, <2>2, <2>3, <2>4, Zenon
  <1>2. ASSUME NEW doc \in Documents, Accepted(doc), p = ParsePolicy(doc) PROVE r.access \cap WriteWords = {}
    <2>1. doc.filesystem # <<>> /\ r \in ParsedFs(doc.filesystem[1])
      BY <1>2, Zenon DEF ParsePolicy
    <2>2. PICK q \in Range(doc.filesystem[1].rules) : r = [path |-> q.path.names, access |-> q.access]
      BY <2>1, Zenon DEF ParsedFs
    <2>3. q.path.names \in Seq(STRING) /\ ~q.path.slash
      BY <1>2, <2>1, <2>2, Zenon DEF PlainlySpelled
    <2>4. q.path.names \in SystemPaths
      BY <2>2, <2>3, AboveSystem, Zenon
    <2>5. \E s \in SystemPaths : Is(q.path, s)
      BY <2>3, <2>4, Zenon DEF Is
    <2>6. FsRuleAccepted(q)
      BY <1>2, <2>1, <2>2, Zenon DEF Accepted, FsAccepted
    <2> QED BY <2>2, <2>5, <2>6, Zenon DEF FsRuleAccepted
  <1> QED BY <1>1, <1>2, Zenon DEF Registered

LEMMA PlanReadOnly ==
  ASSUME PlainlySpelled, PlanInv, NEW d \in SystemDirectories
  PROVE  LandlockRights(plan.landlock, d) \cap WriteRights = {}
  <1> SUFFICES ASSUME NEW rule \in plan.landlock, IsPrefix(rule.path, d)
               PROVE  rule.rights \cap WriteRights = {}
    BY Zenon DEF LandlockRights
  <1>1. ExecRights \cap WriteRights = {}
    BY DEF ExecRights, WriteRights, Mask, WriteWords, WordRights
  <1>2. \/ \E r \in policy.filesystem : rule = LandlockRule(r.path, Mask(r.access) \cap KnownAtAbi(abi))
        \/ \E p : rule = LandlockRule(p, ExecRights \cap KnownAtAbi(abi))
    BY Zenon DEF PlanInv, BuildLaunchPolicy, CompileLandlock
  <1>3. ASSUME NEW r \in policy.filesystem, rule = LandlockRule(r.path, Mask(r.access) \cap KnownAtAbi(abi))
        PROVE  rule.rights \cap WriteRights = {}
    <2>1. rule.path = r.path /\ rule.rights \subseteq Mask(r.access)
      BY <1>3, Zenon DEF LandlockRule
    <2>2. r.access \cap WriteWords = {}
      BY <2>1, SystemRules, Zenon DEF PlanInv
    <2> QED BY <2>1, <2>2, ReadRights, Zenon
  <1>4. ASSUME NEW p, rule = LandlockRule(p, ExecRights \cap KnownAtAbi(abi))
        PROVE  rule.rights \cap WriteRights = {}
    BY <1>1, <1>4, Zenon DEF LandlockRule
  <1> QED BY <1>2, <1>3, <1>4, Zenon

\* "cannot grant write access to system path", whatever the documents, as long
\* as they spell no path with a slash at the end, which parse_policy_str takes
\* for another path: the ruleset that apply_landlock installs gives no right to
\* write on a directory of the system or above it.
THEOREM SystemReadOnly ==
  ASSUME PlainlySpelled
  PROVE  Spec => []SystemPathsReadOnly
  <1>1. Init => IInv /\ PlanInv
    BY PlanInitially DEF Init, SetupInit, IInv, Steps, Shape, FieldNames, CapSets, Progress, Forked
  <1>2. IInv /\ PlanInv /\ [Next]_vars => (IInv /\ PlanInv)'
    BY NextKeeps, PlanKept, LaunchStepIsSetup, Zenon
  <1>3. IInv /\ PlanInv => SystemPathsReadOnly
    <2> SUFFICES ASSUME IInv, PlanInv, NEW rules \in Range(task.ruleset), NEW d \in SystemDirectories
                 PROVE  LandlockRights(rules, d) \cap WriteRights = {}
      BY Zenon DEF SystemPathsReadOnly
    <2>1. task.ruleset = <<>> \/ task.ruleset = <<plan.landlock>>
      BY DEF IInv, Progress
    <2>2. rules = plan.landlock
      BY <2>1 DEF Range
    <2> QED BY <2>2, PlanReadOnly, Zenon
  <1> QED BY <1>1, <1>2, <1>3, PTL DEF Spec
-----------------------------------------------------------------------------
(* The exec rules of a running sandbox *)

\* What the second byte of spawn, and the identities before it, are worth: the
\* child waits for the byte, and looks its paths up in its own root.
ChildInv ==
  /\ phase = "setup" /\ at > 19 => sync = "go"
  /\ phase = "payload" => sync = "go"
  /\ phase = "setup" /\ at > 12 => task.resolvedIn = "merged" /\ plan.paths \subseteq Paths

\* The ceiling is the ruleset of the child, and every rule is under it.
CeilingInv ==
  sync = "go" => ceiling = plan.landlock /\ \A p \in allow \cup admitted : Permits(ceiling, p, ExecRights)

\* A rule has its identity in the maps, and an identity its rule.
IdentityInv ==
  /\ allow \cup admitted \subseteq Paths
  /\ \A p \in allow : Identity(p) \in ids
  /\ \A id \in ids : \E p \in allow \cup admitted : id = Identity(p)
  /\ last.kind = "revoke_exec" => last.path \in Paths /\ Identity(last.path) \notin ids

\* Links lead to files, on the device of the link, and no two paths to the same.
OneNamePerFile ==
  /\ \A p \in Paths : Links[Links[p]] = Links[p] /\ DeviceForPath(Links[p]) = DeviceForPath(p)
  /\ \A p, q \in Paths : Links[p] = Links[q] => p = q

\* A step of the child, as far as the rules depend on it.
StepEffect(step) ==
  /\ Step(step)
  /\ task'.resolvedIn = IF step = "identities" THEN task.root ELSE task.resolvedIn
  /\ phase' = IF step = "execve" THEN "payload" ELSE phase
  /\ sync' = IF step = "ready" THEN "ready" ELSE sync

LEMMA ChildEffect ==
  ASSUME NEW step, NEW next, Child(step, next), step \notin {"identities", "execve", "ready"},
         next.resolvedIn = task.resolvedIn
  PROVE  StepEffect(step)
  BY Zenon DEF Child, StepEffect

LEMMA SetupEffect ==
  ASSUME Shape, SetupStep
  PROVE  \E step : StepEffect(step)
  <1> USE DEF Shape, FieldNames
  <1>1. CASE Receive
    BY <1>1, ChildEffect, Zenon DEF Receive
  <1>2. CASE BecomeNamespaceRoot
    <2>1. [task EXCEPT !.cred = "root"].resolvedIn = task.resolvedIn
      BY Zenon
    <2> QED BY <1>2, <2>1, ChildEffect DEF BecomeNamespaceRoot
  <1>3. CASE SetNoNewPrivs
    <2>1. [task EXCEPT !.noNewPrivs = TRUE].resolvedIn = task.resolvedIn
      BY Zenon
    <2> QED BY <1>3, <2>1, ChildEffect, Zenon DEF SetNoNewPrivs
  <1>4. CASE RemountRootPrivate
    <2>1. [task EXCEPT !.propagation = "private"].resolvedIn = task.resolvedIn
      BY Zenon
    <2> QED BY <1>4, <2>1, ChildEffect DEF RemountRootPrivate
  <1>5. CASE MountOverlay
    <2>1. [task EXCEPT !.mounted = {"overlay"}].resolvedIn = task.resolvedIn
      BY Zenon
    <2> QED BY <1>5, <2>1, ChildEffect DEF MountOverlay
  <1>6. CASE MountDev
    <2> DEFINE next == [task EXCEPT !.mounted = @ \cup {"dev"},
                                    !.devices = IF task.root = "host" THEN "host" ELSE "placeholder"]
    <2>1. next.resolvedIn = task.resolvedIn
      BY Zenon
    <2>2. Child("dev", next)
      BY <1>6, Zenon DEF MountDev
    <2> HIDE DEF next
    <2> QED BY <2>1, <2>2, ChildEffect, Zenon
  <1>7. CASE PivotInto
    <2> DEFINE next == [task EXCEPT !.root = "merged", !.oldRoot = FALSE]
    <2>1. next.resolvedIn = task.resolvedIn
      BY Zenon
    <2>2. Child("pivot", next)
      BY <1>7, Zenon DEF PivotInto
    <2> HIDE DEF next
    <2> QED BY <2>1, <2>2, ChildEffect, Zenon
  <1>8. ASSUME NEW step \in {"proc", "sys", "tmp", "workspace"}, MountInto(step) PROVE \E s : StepEffect(s)
    <2>1. ASSUME NEW m PROVE [task EXCEPT !.mounted = m].resolvedIn = task.resolvedIn
      BY Zenon
    <2>2. PICK next : Child(step, next) /\ next.resolvedIn = task.resolvedIn
      BY <1>8, <2>1, Zenon DEF MountInto
    <2> QED BY <2>2, ChildEffect, Zenon
  <1>9. CASE CollectExecIdentities
    <2>1. [task EXCEPT !.resolvedIn = task.root].resolvedIn = task.root
      BY Zenon
    <2>2. Step("identities") /\ task'.resolvedIn = task.root /\ phase' = phase /\ sync' = sync
      BY <1>9, <2>1, Zenon DEF CollectExecIdentities, Child
    <2>3. StepEffect("identities")
      BY <2>2, Zenon DEF StepEffect
    <2> QED BY <2>3, Zenon
  <1>10. CASE DropBoundingSet
    <2>1. ASSUME NEW m PROVE [task EXCEPT !.caps = m].resolvedIn = task.resolvedIn
      BY Zenon
    <2>2. PICK next : Child("bounding", next) /\ next.resolvedIn = task.resolvedIn
      BY <1>10, <2>1, Zenon DEF DropBoundingSet
    <2> QED BY <2>2, ChildEffect, Zenon
  <1>11. CASE ApplyLandlock
    <2>1. ASSUME NEW m PROVE [task EXCEPT !.ruleset = m].resolvedIn = task.resolvedIn
      BY Zenon
    <2>2. PICK next : Child("landlock", next) /\ next.resolvedIn = task.resolvedIn
      BY <1>11, <2>1, Zenon DEF ApplyLandlock
    <2> QED BY <2>2, ChildEffect, Zenon
  <1>12. CASE ApplySeccomp
    <2>1. ASSUME NEW m PROVE [task EXCEPT !.filter = m, !.noNewPrivs = TRUE].resolvedIn = task.resolvedIn
      BY Zenon
    <2>2. PICK next : Child("seccomp", next) /\ next.resolvedIn = task.resolvedIn
      BY <1>12, <2>1, Zenon DEF ApplySeccomp
    <2> QED BY <2>2, ChildEffect, Zenon
  <1>13. CASE DropToUnprivileged
    <2>1. ASSUME NEW m PROVE [task EXCEPT !.cred = "user", !.caps = m].resolvedIn = task.resolvedIn
      BY Zenon
    <2>2. PICK next : Child("unprivileged", next) /\ next.resolvedIn = task.resolvedIn
      BY <1>13, <2>1, Zenon DEF DropToUnprivileged
    <2> QED BY <2>2, ChildEffect, Zenon
  <1>14. CASE FinishDroppingCapabilities
    <2>1. ASSUME NEW m PROVE [task EXCEPT !.caps = m].resolvedIn = task.resolvedIn
      BY ZenonT(30)
    <2>2. PICK next : Child("capset", next) /\ next.resolvedIn = task.resolvedIn
      BY <1>14, <2>1, Zenon DEF FinishDroppingCapabilities
    <2> QED BY <2>2, ChildEffect, Zenon
  <1>15. CASE SendReady
    <2>1. StepEffect("ready")
      BY <1>15, Zenon DEF SendReady, StepEffect
    <2> QED BY <2>1, Zenon
  <1>16. CASE Execve
    <2>1. StepEffect("execve")
      BY <1>16, Zenon DEF Execve, StepEffect
    <2> QED BY <2>1, Zenon
  <1> QED BY <1>1, <1>2, <1>3, <1>4, <1>5, <1>6, <1>7, <1>8, <1>9, <1>10, <1>11, <1>12, <1>13, <1>14,
             <1>15, <1>16, Zenon DEF SetupStep, SetUpRoot
LEMMA ChildInvKept ==
  ASSUME IInv, ChildInv, [Next]_vars
  PROVE  ChildInv'
  <1>1. ASSUME NEW p \in Registered, NEW c \in Commands, Spawn(p, c) PROVE ChildInv'
    <2>1. at' = 1 /\ phase' = "setup"
      BY <1>1, Zenon DEF Spawn, Begin
    <2> QED BY <2>1 DEF ChildInv
  <1>2. CASE ChildWorks
    <2>1. PICK step : StepEffect(step)
      BY <1>2, SetupEffect, Zenon DEF ChildWorks, IInv
    <2>2. /\ at \in 1 .. Steps /\ at' = at + 1 /\ SetupOrder[at] = step
          /\ phase = "setup" /\ plan' = plan /\ ~Waits(step)
      BY <2>1, StepMoves, Zenon DEF StepEffect, Step
    <2>3. /\ at = 12 <=> step = "identities"
          /\ at = 19 => step = "go"
          /\ step = "ready" => at = 18
          /\ step = "execve" <=> at = 20
      <3>1. SetupOrder[12] = "identities" /\ SetupOrder[19] = "go"
        BY Zenon DEF SetupOrder
      <3> QED BY <2>2, <3>1, Order, Zenon DEF Steps
    <2>4. at = 12 => plan.paths \subseteq Paths
      <3> SUFFICES ASSUME at = 12 PROVE plan.paths \subseteq Paths
        BY Zenon
      <3>1. Works("identities")
        BY <1>2, <2>2, <2>3, Zenon DEF ChildWorks
      <3> QED BY <3>1, Zenon DEF Works, Needs, IdentitiesResolve
    <2>5. at = 12 => task.root = "merged"
      BY DEF IInv, Progress
    <2>6. step = "go" => sync = "go"
      BY <2>2, Zenon DEF Waits
    <2>7. at' > 12 => task'.resolvedIn = "merged" /\ plan'.paths \subseteq Paths
      BY <2>1, <2>2, <2>3, <2>4, <2>5 DEF StepEffect, ChildInv, Steps
    <2>8. at' > 19 => sync' = "go"
      BY <2>1, <2>2, <2>3, <2>6 DEF StepEffect, ChildInv, Steps
    <2>9. phase' = "payload" => at' > 19
      BY <2>1, <2>2, <2>3 DEF StepEffect
    <2> QED BY <2>7, <2>8, <2>9, Zenon DEF ChildInv
  <1>3. ASSUME NEW how \in {"failed", "faulted"}, Ends(how) PROVE ChildInv'
    BY <1>3, Zenon DEF Ends, ChildInv
  <1>4. CASE Release
    BY <1>4, Zenon DEF Release, ReleaseSetup, ChildInv
  <1>5. CASE InstallPolicy
    <2>1. phase' = "setup" /\ phase = "setup" /\ sync' = "go" /\ UNCHANGED <<plan, at, task>>
      BY <1>5, Zenon DEF InstallPolicy, ReleasePayload
    <2> QED BY <2>1, Zenon DEF ChildInv
  <1>6. CASE Change \/ UNCHANGED vars
    <2>1. UNCHANGED setupVars
      BY <1>6, Zenon DEF Change, vars
    <2> QED BY <2>1, Zenon DEF setupVars, ChildInv
  <1> QED BY <1>1, <1>2, <1>3, <1>4, <1>5, <1>6, Zenon
          DEF Next, LaunchStep, StepFails, InstallFails, Fault

\* Every path of a plan, and every entry of its prefixes, has a Landlock rule.
LEMMA PlanPermits ==
  ASSUME PlanInv, plan.paths \subseteq Paths, NEW p \in plan.paths \cup Admitted
  PROVE  Permits(plan.landlock, p, ExecRights)
  <1> DEFINE rights == ExecRights \cap KnownAtAbi(abi)
  <1>1. ExecRights \subseteq rights
    BY Zenon DEF ExecRights, KnownAtAbi, FirstRights
  <1>2. ASSUME NEW q, LandlockRule(q, rights) \in plan.landlock, IsPrefix(q, p)
        PROVE  Permits(plan.landlock, p, ExecRights)
    <2>1. LandlockRule(q, rights).path = q /\ LandlockRule(q, rights).rights = rights
      BY Zenon DEF LandlockRule
    <2> HIDE DEF rights
    <2> QED BY <1>1, <1>2, <2>1, Zenon DEF Permits
  <1>3. \A q \in plan.paths \cup plan.prefixes : LandlockRule(q, rights) \in plan.landlock
    BY DEF PlanInv, BuildLaunchPolicy, CompileLandlock
  <1>4. CASE p \in plan.paths
    <2>1. p \in Seq(STRING)
      BY <1>4, CapabilitiesAssumption, Zenon
    <2>2. IsPrefix(p, p)
      BY <2>1 DEF IsPrefix
    <2> HIDE DEF rights
    <2> QED BY <1>2, <1>3, <1>4, <2>2, Zenon
  <1>5. CASE p \in Admitted
    <2>1. PICK q \in plan.prefixes : IsPrefix(q, p)
      BY <1>5, Zenon DEF Admitted, Expand
    <2> HIDE DEF rights
    <2> QED BY <1>2, <1>3, <2>1, Zenon
  <1> QED BY <1>4, <1>5, Zenon

\* The exec rules that a launch installs.
LEMMA InstalledRules ==
  ASSUME PlanInv, InstallPolicy
  PROVE  allow' \cup admitted' = plan.paths \cup Admitted /\ allow' \subseteq plan.paths
  <1>1. policy.exec = <<>> => Admitted = {}
    <2> SUFFICES ASSUME policy.exec = <<>> PROVE plan.prefixes = {}
      BY Zenon DEF Admitted
    <2>1. Range(policy.exec) = {}
      BY DEF Range
    <2> QED BY <2>1, Zenon DEF PlanInv, BuildLaunchPolicy
  <1>2. /\ allow' = IF policy.exec = <<>> THEN {} ELSE plan.paths
        /\ admitted' = IF policy.exec = <<>> THEN plan.paths ELSE Admitted
    BY Zenon DEF InstallPolicy
  <1> QED BY <1>1, <1>2, Zenon

LEMMA CeilingKept ==
  ASSUME IInv, PlanInv, ChildInv, CeilingInv, [Next]_vars
  PROVE  CeilingInv'
  <1>1. CASE sync' # "go"
    BY <1>1, Zenon DEF CeilingInv
  <1>2. CASE InstallPolicy
    <2>1. ceiling' = plan.landlock /\ plan' = plan /\ sync = "ready" /\ phase = "setup"
      BY <1>2, Zenon DEF InstallPolicy, ReleasePayload
    <2>2. plan.paths \subseteq Paths
      BY <2>1 DEF IInv, ChildInv, Steps
    <2>3. \A p \in allow' \cup admitted' : Permits(ceiling', p, ExecRights)
      BY <1>2, <2>1, <2>2, InstalledRules, PlanPermits, Zenon
    <2> QED BY <2>1, <2>3, Zenon DEF CeilingInv
  <1>3. ASSUME sync = "go", plan' = plan, UNCHANGED policyVars PROVE CeilingInv'
    BY <1>3, Zenon DEF CeilingInv, policyVars
  <1>4. CASE Change
    <2>1. sync = "go" /\ plan' = plan /\ ceiling' = ceiling
      BY <1>4, Zenon
         DEF Change, ChildInv, setupVars, ChangeCapability, GrantNet, RevokeNet, ChangeNet, GrantExec, RevokeExec
    <2>2. \A p \in allow' \cup admitted' : p \in allow \cup admitted \/ Permits(ceiling, p, ExecRights)
      BY <1>4, Zenon DEF Change, ChangeCapability, GrantNet, RevokeNet, ChangeNet, GrantExec, RevokeExec
    <2> QED BY <2>1, <2>2, Zenon DEF CeilingInv
  <1>5. CASE ChildWorks
    <2>1. sync' = "go" => sync = "go"
      <3>1. PICK step : StepEffect(step)
        BY <1>5, SetupEffect, Zenon DEF ChildWorks, IInv
      <3> QED BY <3>1, Zenon DEF StepEffect
    <2> QED BY <1>1, <1>3, <1>5, <2>1, SetupKeepsPlan, Zenon DEF ChildWorks
  <1>6. CASE UNCHANGED vars
    BY <1>1, <1>3, <1>6, Zenon DEF vars, setupVars
  <1>7. ASSUME NEW p \in Registered, NEW c \in Commands, Spawn(p, c) PROVE sync' # "go"
    BY <1>7, Zenon DEF Spawn, Begin
  <1>8. CASE StepFails \/ Release \/ InstallFails \/ Fault
    <2>1. sync' # "go"
      BY <1>8, Zenon DEF StepFails, Release, InstallFails, Fault, Ends, ReleaseSetup
    <2> QED BY <1>1, <2>1, Zenon
  <1> QED BY <1>1, <1>2, <1>4, <1>5, <1>6, <1>7, <1>8, Zenon DEF Next, LaunchStep
\* The identity of a path is what the hook sees when the path is executed.
LEMMA IdentityFacts ==
  ASSUME OneNamePerFile
  PROVE  /\ \A p \in Paths : Identity(p) = IdentityIn("merged", Links[p])
         /\ \A p \in Paths : Identity(p).file = Links[p]
         /\ \A p, q \in Paths : Identity(p) = Identity(q) => p = q
  <1>1. ASSUME NEW p \in Paths
        PROVE  Identity(p) = IdentityIn("merged", Links[p]) /\ Identity(p).file = Links[p]
    BY Zenon DEF OneNamePerFile, Identity, IdentityIn
  <1>2. ASSUME NEW p \in Paths, NEW q \in Paths, Identity(p) = Identity(q) PROVE p = q
    BY <1>1, <1>2 DEF OneNamePerFile
  <1> QED BY <1>1, <1>2, Zenon

LEMMA IdentityKept ==
  ASSUME OneNamePerFile, IInv, PlanInv, ChildInv, IdentityInv, [Next]_vars
  PROVE  IdentityInv'
  <1>1. ASSUME UNCHANGED <<allow, admitted, ids>>, last'.kind # "revoke_exec" \/ last' = last PROVE IdentityInv'
    BY <1>1, Zenon DEF IdentityInv
  <1>2. CASE InstallPolicy
    <2>1. /\ sync = "ready" /\ phase = "setup" /\ last' = NoChange
          /\ ids' = {IdentityIn(task.resolvedIn, p) : p \in plan.paths \cup Admitted}
      BY <1>2, Zenon DEF InstallPolicy, ReleasePayload
    <2>2. task.resolvedIn = "merged" /\ plan.paths \subseteq Paths
      BY <2>1 DEF IInv, ChildInv, Steps
    <2>3. ids' = {Identity(p) : p \in plan.paths \cup Admitted}
      BY <2>1, <2>2, Zenon DEF Identity
    <2>4. Admitted \subseteq Paths
      BY Zenon DEF Admitted, Expand
    <2>5. allow' \cup admitted' = plan.paths \cup Admitted /\ allow' \subseteq plan.paths
      BY <1>2, InstalledRules, Zenon
    <2>6. last'.kind # "revoke_exec"
      BY <2>1, Zenon DEF NoChange
    <2>7. \A p \in allow' : Identity(p) \in ids'
      BY <2>3, <2>5, Zenon
    <2>8. \A id \in ids' : \E p \in allow' \cup admitted' : id = Identity(p)
      BY <2>3, <2>5, Zenon
    <2> QED BY <2>2, <2>4, <2>5, <2>6, <2>7, <2>8, Zenon DEF IdentityInv
  <1>3. ASSUME NEW p \in Paths, GrantExec(p) PROVE IdentityInv'
    <2>1. /\ allow' = allow \cup {p} /\ ids' = ids \cup {Identity(p)} /\ admitted' = admitted
          /\ last'.kind # "revoke_exec"
      BY <1>3, Zenon DEF GrantExec, ExecChange
    <2> QED BY <2>1, Zenon DEF IdentityInv
  <1>4. ASSUME NEW p \in Paths, RevokeExec(p) PROVE IdentityInv'
    <2>1. /\ allow' = allow \ {p} /\ ids' = ids \ {Identity(p)} /\ admitted' = admitted
          /\ last'.path = p
      BY <1>4, Zenon DEF RevokeExec, ExecChange, IdsWithout
    <2>2. \A q \in allow' : Identity(q) \in ids'
      BY <2>1, IdentityFacts, Zenon DEF IdentityInv
    <2>3. \A id \in ids' : \E q \in allow' \cup admitted' : id = Identity(q)
      BY <2>1, Zenon DEF IdentityInv
    <2>4. allow' \cup admitted' \subseteq Paths
      BY <2>1, Zenon DEF IdentityInv
    <2> QED BY <2>1, <2>2, <2>3, <2>4, Zenon DEF IdentityInv
  <1>5. ASSUME NEW c \in Cidrs, NEW ports \in PortSets, GrantNet(c, ports) \/ RevokeNet(c, ports) PROVE IdentityInv'
    <2>1. UNCHANGED <<allow, admitted, ids>> /\ last'.kind # "revoke_exec"
      BY <1>5 DEF GrantNet, RevokeNet, ChangeNet, NetChange
    <2> QED BY <1>1, <2>1, Zenon
  <1>6. CASE Change
    BY <1>3, <1>4, <1>5, <1>6, Zenon DEF Change, ChangeCapability
  <1>7. ASSUME UNCHANGED policyVars PROVE IdentityInv'
    BY <1>1, <1>7, Zenon DEF policyVars
  <1>8. CASE ChildWorks \/ StepFails \/ Release \/ InstallFails \/ Fault \/ UNCHANGED vars
    BY <1>7, <1>8, Zenon DEF ChildWorks, StepFails, Release, InstallFails, Fault, vars
  <1>9. ASSUME NEW p \in Registered, NEW c \in Commands, Spawn(p, c) PROVE IdentityInv'
    BY <1>7, <1>9, Zenon DEF Spawn
  <1> QED BY <1>2, <1>6, <1>8, <1>9, Zenon DEF Next, LaunchStep

LEMMA LaunchInitially ==
  ASSUME Init
  PROVE  IInv /\ PlanInv /\ ChildInv /\ CeilingInv /\ IdentityInv
  <1>1. IInv
    BY DEF Init, SetupInit, IInv, Steps, Shape, FieldNames, CapSets, Progress, Forked
  <1>2. phase = "idle" /\ sync = "none" /\ allow = {} /\ admitted = {} /\ ids = {} /\ last = NoChange
    BY Zenon DEF Init, SetupInit
  <1>3. ChildInv /\ CeilingInv /\ IdentityInv
    BY <1>2, Zenon DEF ChildInv, CeilingInv, IdentityInv, NoChange
  <1> QED BY <1>1, <1>3, PlanInitially, Zenon

\* Neither a launch nor a sequence of grants installs an exec rule for a binary
\* that the Landlock ruleset of the child still denies, for every document,
\* command, kernel and sequence of capability changes: check_landlock_ceiling
\* compares with the ruleset that the child is under.
THEOREM Observable == Spec => []GrantsObservable
  <1> DEFINE Inv == IInv /\ PlanInv /\ ChildInv /\ CeilingInv
  <1>1. Init => Inv
    BY LaunchInitially, Zenon
  <1>2. Inv /\ [Next]_vars => Inv'
    BY NextKeeps, LaunchStepIsSetup, PlanKept, ChildInvKept, CeilingKept, Zenon
  <1>3. Inv => GrantsObservable
    <2> SUFFICES ASSUME Inv, phase = "payload", NEW p \in allow \cup admitted, NEW rules \in Range(task.ruleset)
                 PROVE  ExecRights \subseteq LandlockRights(rules, p)
      BY Zenon DEF GrantsObservable
    <2>1. task.ruleset = <<>> \/ task.ruleset = <<plan.landlock>>
      BY DEF IInv, Progress
    <2>2. rules = plan.landlock
      BY <2>1 DEF Range
    <2>3. Permits(rules, p, ExecRights)
      BY <2>2, Zenon DEF ChildInv, CeilingInv
    <2> QED BY <2>3, Zenon DEF Permits, LandlockRights
  <1> HIDE DEF Inv
  <1> QED BY <1>1, <1>2, <1>3, PTL DEF Spec

\* The identities in the exec map are those of the policy's rules, through the
\* launch, every grant and every revoke, when no two paths of the sandbox lead
\* to one file (with an alias a revoke of one name takes the other one's).
THEOREM ExecFollows ==
  ASSUME OneNamePerFile
  PROVE  Spec => []ExecFollowsPolicy
  <1> DEFINE Inv == IInv /\ PlanInv /\ ChildInv /\ IdentityInv
  <1>1. Init => Inv
    BY LaunchInitially, Zenon
  <1>2. Inv /\ [Next]_vars => Inv'
    BY NextKeeps, LaunchStepIsSetup, PlanKept, ChildInvKept, IdentityKept, Zenon
  <1>3. Inv => ExecFollowsPolicy
    <2> SUFFICES ASSUME IdentityInv PROVE ExecFollowsPolicy
      BY Zenon
    <2>1. ASSUME NEW p \in allow PROVE Executes(ids, p)
      BY IdentityFacts, Zenon DEF IdentityInv, Executes
    <2>2. ASSUME NEW p \in Paths, Executes(ids, p) PROVE \E q \in allow \cup admitted : Links[q] = Links[p]
      <3>1. Identity(p) \in ids
        BY <2>2, IdentityFacts, Zenon DEF Executes
      <3>2. PICK q \in allow \cup admitted : Identity(p) = Identity(q)
        BY <3>1, Zenon DEF IdentityInv
      <3>3. q = p
        BY <3>2, IdentityFacts, Zenon DEF IdentityInv
      <3> QED BY <3>2, <3>3, Zenon
    <2> QED BY <2>1, <2>2, Zenon DEF ExecFollowsPolicy
  <1> HIDE DEF Inv
  <1> QED BY <1>1, <1>2, <1>3, PTL DEF Spec
-----------------------------------------------------------------------------
(* The network rules of a running sandbox *)

NetRules == [cidr : Cidrs, ports : SUBSET Nat]

\* No two CIDRs have an address in common.
Apart == \A c, d \in Cidrs : c # d => Within(c) \cap Within(d) = {}

\* A list of rules has at most one for a CIDR.
ListedOnce(rules) == \A i, j \in DOMAIN rules : rules[i].cidr = rules[j].cidr => i = j

\* The egress rules of every document whose rules the maps can hold.
DocumentsListOnce ==
  \A p \in Registered : Expressible(CompileNet(p)) => CompileNet(p) \in Seq(NetRules) /\ ListedOnce(CompileNet(p))

\* Some rule for the CIDR has the port.
Opens(rules, cidr, port) == \E i \in DOMAIN rules : rules[i].cidr = cidr /\ port \in rules[i].ports

LEMMA RuleFields ==
  ASSUME NEW rules \in Seq(NetRules), NEW i \in DOMAIN rules
  PROVE  rules[i] \in NetRules /\ rules[i].cidr \in Cidrs /\ rules[i].ports \in SUBSET Nat
  <1>1. rules[i] \in NetRules
    OBVIOUS
  <1> QED BY <1>1, Zenon DEF NetRules

\* The trie entry of a rule under which some address lies is that rule's.
LEMMA StoredPorts ==
  ASSUME Apart, NEW rules \in Seq(NetRules), ListedOnce(rules), NEW i \in DOMAIN rules,
         NEW a \in Within(rules[i].cidr)
  PROVE  /\ Key(rules[i].cidr) \in DOMAIN Compiled(rules)
         /\ Compiled(rules)[Key(rules[i].cidr)] = rules[i].ports
  <1> DEFINE k == Key(rules[i].cidr)
             I == {j \in 1 .. Len(rules) : Key(rules[j].cidr) = k}
  <1>1. i \in 1 .. Len(rules) /\ \A j \in 1 .. Len(rules) : rules[j].cidr \in Cidrs
    BY RuleFields
  <1>2. ASSUME NEW j \in I PROVE j = i
    <2>1. a \in Within(rules[j].cidr)
      BY <1>2, Zenon DEF Within
    <2>2. rules[j].cidr = rules[i].cidr
      BY <1>1, <1>2, <2>1, Zenon DEF Apart
    <2> QED BY <1>1, <1>2, <2>2 DEF ListedOnce
  <1>3. I = {i}
    BY <1>1, <1>2, Zenon
  <1>4. Max(I) = i
    BY <1>1, <1>3 DEF Max
  <1>5. {j \in DOMAIN rules : Key(rules[j].cidr) = k} = I
    OBVIOUS
  <1>6. k \in DOMAIN Compiled(rules) /\ Compiled(rules)[k] = rules[Max({j \in DOMAIN rules : Key(rules[j].cidr) = k})].ports
    <2> HIDE DEF k
    <2>1. k \in {Key(rules[j].cidr) : j \in DOMAIN rules}
      BY Zenon DEF k
    <2> QED BY <2>1, Zenon DEF Compiled
  <1> HIDE DEF I
  <1> QED BY <1>4, <1>5, <1>6, Zenon

LEMMA KeyLength ==
  ASSUME NEW c \in Cidrs
  PROVE  Len(Key(c)) \in Nat
  <1>1. c.addr \in Seq({0, 1}) /\ c.len \in 0 .. Bits /\ Len(c.addr) = Bits /\ Bits \in Nat
    BY CapabilitiesAssumption DEF Addresses
  <1> QED BY <1>1 DEF Key

\* With CIDRs apart the longest prefix of an address is the only one: the hook
\* lets through what some rule over the address lets through.
LEMMA ReachIff ==
  ASSUME Apart, NEW rules \in Seq(NetRules), ListedOnce(rules), NEW a \in Addresses, NEW port
  PROVE  Reaches(Compiled(rules), a, port) <=>
           /\ a \notin Metadata /\ port < PortLimit
           /\ \E i \in DOMAIN rules : a \in Within(rules[i].cidr) /\ port \in rules[i].ports
  <1> DEFINE T == Compiled(rules)
             stored == {k \in DOMAIN T : IsPrefix(k, a)}
  <1>1. ASSUME NEW k \in stored
        PROVE  \E i \in DOMAIN rules : /\ k = Key(rules[i].cidr) /\ a \in Within(rules[i].cidr)
                                       /\ T[k] = rules[i].ports /\ Len(k) \in Nat
    <2>1. PICK i \in DOMAIN rules : k = Key(rules[i].cidr)
      BY <1>1, Zenon DEF Compiled
    <2>2. a \in Within(rules[i].cidr)
      BY <1>1, <2>1, Zenon DEF Within
    <2>3. rules[i].cidr \in Cidrs
      BY RuleFields, Zenon
    <2> QED BY <2>1, <2>2, <2>3, StoredPorts, KeyLength, Zenon
  <1>2. ASSUME NEW j \in stored, NEW k \in stored PROVE j = k
    <2>1. PICK m \in DOMAIN rules : j = Key(rules[m].cidr) /\ a \in Within(rules[m].cidr)
      BY <1>1, Zenon
    <2>2. PICK n \in DOMAIN rules : k = Key(rules[n].cidr) /\ a \in Within(rules[n].cidr)
      BY <1>1, Zenon
    <2>3. rules[m].cidr \in Cidrs /\ rules[n].cidr \in Cidrs
      BY RuleFields, Zenon
    <2>4. rules[m].cidr = rules[n].cidr
      BY <2>1, <2>2, <2>3, Zenon DEF Apart
    <2> QED BY <2>1, <2>2, <2>4, Zenon
  <1>3. ASSUME NEW i \in DOMAIN rules, a \in Within(rules[i].cidr)
        PROVE  Key(rules[i].cidr) \in stored /\ T[Key(rules[i].cidr)] = rules[i].ports
    BY <1>3, StoredPorts, Zenon DEF Within
  <1>4. Reaches(T, a, port) <=>
          /\ a \notin Metadata /\ port < PortLimit
          /\ \E k \in stored : (\A j \in stored : Len(j) <= Len(k)) /\ port \in T[k]
    BY Zenon DEF Reaches
  <1> HIDE DEF T, stored
  <1>5. ASSUME NEW k \in stored, port \in T[k]
        PROVE  \E i \in DOMAIN rules : a \in Within(rules[i].cidr) /\ port \in rules[i].ports
    BY <1>1, <1>5, Zenon
  <1>6. ASSUME NEW i \in DOMAIN rules, a \in Within(rules[i].cidr), port \in rules[i].ports
        PROVE  \E k \in stored : (\A j \in stored : Len(j) <= Len(k)) /\ port \in T[k]
    <2>1. PICK k \in stored : port \in T[k]
      BY <1>3, <1>6, Zenon
    <2>2. Len(k) \in Nat
      BY <1>1, Zenon
    <2>3. \A j \in stored : Len(j) <= Len(k)
      BY <1>2, <2>2
    <2> QED BY <2>1, <2>3, Zenon
  <1> QED BY <1>4, <1>5, <1>6, Zenon DEF T

\* The same by CIDR.
LEMMA ReachOpens ==
  ASSUME Apart, NEW rules \in Seq(NetRules), ListedOnce(rules), NEW a \in Addresses, NEW port
  PROVE  Reaches(Compiled(rules), a, port) <=>
           /\ a \notin Metadata /\ port < PortLimit
           /\ \E c \in Cidrs : a \in Within(c) /\ Opens(rules, c, port)
  <1>1. (\E i \in DOMAIN rules : a \in Within(rules[i].cidr) /\ port \in rules[i].ports)
        <=> \E c \in Cidrs : a \in Within(c) /\ Opens(rules, c, port)
    BY RuleFields, Zenon DEF Opens
  <1> QED BY <1>1, ReachIff, Zenon

\* A grant opens the ports of the CIDR and nothing else.
LEMMA GrantOpens ==
  ASSUME NEW rules \in Seq(NetRules), ListedOnce(rules), NEW c \in Cidrs, NEW ports \in SUBSET Nat
  PROVE  /\ NetGranted(rules, c, ports) \in Seq(NetRules)
         /\ ListedOnce(NetGranted(rules, c, ports))
         /\ \A d, q : Opens(NetGranted(rules, c, ports), d, q) <=> Opens(rules, d, q) \/ (d = c /\ q \in ports)
  <1> DEFINE I == {j \in 1 .. Len(rules) : rules[j].cidr = c}
             new == NetGranted(rules, c, ports)
             rule == NetRule(c, ports)
  <1>l. Len(rules) \in Nat /\ DOMAIN rules = 1 .. Len(rules)
    OBVIOUS
  <1>1. CASE I = {}
    <2>1. SameCidr(rules, c) = 0
      BY <1>1, <1>l, Zenon DEF SameCidr
    <2>2. new = Append(rules, rule)
      BY <2>1, Zenon DEF NetGranted
    <2>3. rule \in NetRules /\ rule.cidr = c /\ rule.ports = ports
      BY Zenon DEF NetRule, NetRules
    <2>4. \A j \in 1 .. Len(rules) : rules[j].cidr # c
      BY <1>1, Zenon
    <2> HIDE DEF rule, new, I
    <2>5. /\ new \in Seq(NetRules) /\ Len(new) = Len(rules) + 1 /\ DOMAIN new = 1 .. Len(rules) + 1
          /\ \A j \in 1 .. Len(rules) : new[j] = rules[j]
          /\ new[Len(rules) + 1] = rule
      BY <2>2, <2>3
    <2>6. \A j \in DOMAIN new : j \in 1 .. Len(rules) \/ j = Len(rules) + 1
      BY <1>l, <2>5
    <2>7. ListedOnce(new)
      BY <1>l, <2>3, <2>4, <2>5, <2>6, Zenon DEF ListedOnce
    <2>8. ASSUME NEW d, NEW q PROVE Opens(new, d, q) <=> Opens(rules, d, q) \/ (d = c /\ q \in ports)
      <3>1. Len(rules) + 1 \in DOMAIN new /\ \A j \in 1 .. Len(rules) : j \in DOMAIN new
        BY <1>l, <2>5
      <3> QED BY <1>l, <2>3, <2>5, <2>6, <3>1, Zenon DEF Opens
    <2> QED BY <2>5, <2>7, <2>8, Zenon DEF new
  <1>2. CASE I # {}
    <2>1. PICK i : i \in 1 .. Len(rules) /\ rules[i].cidr = c
      BY <1>2, Zenon
    <2>2. I = {i}
      BY <2>1 DEF ListedOnce
    <2>3. Min(I) = i
      BY <2>1, <2>2 DEF Min
    <2>4. SameCidr(rules, c) = i
      BY <1>2, <1>l, <2>3, Zenon DEF SameCidr
    <2>5. new = [rules EXCEPT ![i].ports = @ \cup ports]
      <3>1. i # 0
        BY <1>l, <2>1
      <3> QED BY <2>4, <3>1, Zenon DEF NetGranted
    <2>6. rules[i] \in NetRules /\ rules[i].ports \in SUBSET Nat
      BY <2>1, RuleFields
    <2> DEFINE merged == [rules[i] EXCEPT !.ports = @ \cup ports]
    <2>7. merged \in NetRules /\ merged.cidr = c /\ merged.ports = rules[i].ports \cup ports
      BY <2>1, <2>6, Zenon DEF NetRules
    <2>8. new = [rules EXCEPT ![i] = merged]
      BY <2>5, Zenon
    <2> HIDE DEF new, I, merged
    <2>9. /\ new \in Seq(NetRules) /\ DOMAIN new = DOMAIN rules /\ new[i] = merged
          /\ \A j \in DOMAIN rules : j # i => new[j] = rules[j]
      BY <2>1, <2>7, <2>8
    <2>10. \A j \in DOMAIN rules : new[j].cidr = rules[j].cidr
      BY <2>1, <2>7, <2>9, Zenon
    <2>11. ListedOnce(new)
      BY <2>9, <2>10, Zenon DEF ListedOnce
    <2>12. ASSUME NEW d, NEW q PROVE Opens(new, d, q) <=> Opens(rules, d, q) \/ (d = c /\ q \in ports)
      <3>1. i \in DOMAIN rules
        BY <2>1
      <3>2. ASSUME NEW j \in DOMAIN rules
            PROVE  q \in new[j].ports <=> q \in rules[j].ports \/ (j = i /\ q \in ports)
        BY <2>7, <2>9, Zenon
      <3>3. \A j \in DOMAIN rules : rules[j].cidr = c => j = i
        BY <2>1, <3>1, Zenon DEF ListedOnce
      <3> QED BY <2>1, <2>9, <2>10, <3>1, <3>2, <3>3, Zenon DEF Opens
    <2> QED BY <2>9, <2>11, <2>12, Zenon DEF new
  <1> QED BY <1>1, <1>2, Zenon

LEMMA LeastOf ==
  ASSUME NEW S \in SUBSET Nat, S # {}
  PROVE  \E m \in S : \A y \in S : m <= y
  <1> DEFINE R == OpToRel(<, Nat)
  <1>1. \A x, y \in Nat : y < x => <<y, x>> \in R
    BY Zenon DEF OpToRel
  <1>2. IsWellFoundedOn(R, Nat)
    BY NatLessThanWellFounded, Zenon
  <1> HIDE DEF R
  <1>3. PICK x \in S : \A y \in S : ~(<<y, x>> \in R)
    BY <1>2, WFMin, Zenon
  <1>4. ASSUME NEW y \in S PROVE x <= y
    <2>1. x \in Nat /\ y \in Nat
      BY Zenon
    <2>2. ~(y < x)
      BY <1>1, <1>3, <2>1, Zenon
    <2> QED BY <2>1, <2>2
  <1> QED BY <1>4, Zenon

\* The lists that with_capability_revoked goes through, by the rules done.
Retained(rules, c, ports, m, g) ==
  g = [n \in 0 .. m |-> IF n = 0 THEN <<>> ELSE Retain(g[n - 1], Without(rules[n], c, ports))]

LEMMA RetainedExists ==
  ASSUME NEW s, NEW c, NEW ports, NEW L \in Nat
  PROVE  \E g : Retained(s, c, ports, L, g)
  <1> DEFINE Bad == {m \in Nat : ~\E g : Retained(s, c, ports, m, g)}
  <1> SUFFICES ASSUME Bad # {} PROVE FALSE
    BY Zenon
  <1>1. Bad \in SUBSET Nat
    BY Zenon
  <1>2. PICK m \in Bad : \A y \in Bad : m <= y
    <2> HIDE DEF Bad
    <2> QED BY <1>1, LeastOf, Zenon
  <1>3. m # 0
    <2>1. Retained(s, c, ports, 0, [n \in 0 .. 0 |-> <<>>])
      BY DEF Retained
    <2> QED BY <1>2, <2>1, Zenon
  <1>4. m \in Nat /\ m - 1 \in Nat /\ m - 1 \notin Bad
    <2>1. m \in Nat
      BY Zenon
    <2>2. m - 1 \in Nat /\ ~(m <= m - 1)
      BY <1>3, <2>1
    <2> HIDE DEF Bad
    <2> QED BY <1>2, <2>1, <2>2, Zenon
  <1>5. PICK g : Retained(s, c, ports, m - 1, g)
    BY <1>4, Zenon
  <1> DEFINE w(n) == Without(s[n], c, ports)
             h == [n \in 0 .. m |-> IF n = m THEN Retain(g[m - 1], w(m)) ELSE g[n]]
  <1>6. Retained(s, c, ports, m, h)
    <2>1. ASSUME NEW n \in 0 .. m
          PROVE  h[n] = IF n = 0 THEN <<>> ELSE Retain(h[n - 1], w(n))
      <3>1. CASE n = m
        <4>1. h[n] = Retain(g[m - 1], w(m)) /\ m - 1 \in 0 .. m /\ m - 1 # m
          BY <1>4, <3>1
        <4>2. h[m - 1] = g[m - 1]
          BY <4>1, Zenon
        <4> QED BY <1>3, <3>1, <4>1, <4>2, Zenon
      <3>2. CASE n # m
        <4>1. n \in 0 .. m - 1 /\ h[n] = g[n]
          BY <1>4, <3>2
        <4>2. g[n] = IF n = 0 THEN <<>> ELSE Retain(g[n - 1], w(n))
          BY <1>5, <4>1, Zenon DEF Retained
        <4>3. n # 0 => n - 1 \in 0 .. m /\ n - 1 # m
          BY <1>4, <3>2
        <4>4. n # 0 => h[n - 1] = g[n - 1]
          BY <4>3, Zenon
        <4> QED BY <4>1, <4>2, <4>4, Zenon
      <3> QED BY <3>1, <3>2, Zenon
    <2> QED BY <2>1, Zenon DEF Retained
  <1> QED BY <1>6, Zenon

\* What is retained of the first n rules.
RetainedOf(rules, c, ports, n, kept) ==
  /\ kept \in Seq(NetRules)
  /\ ListedOnce(kept)
  /\ \A j \in DOMAIN kept : \E i \in 1 .. n : kept[j] = Without(rules[i], c, ports)
  /\ \A i \in 1 .. n : Without(rules[i], c, ports).ports # {} =>
                         \E j \in DOMAIN kept : kept[j] = Without(rules[i], c, ports)

LEMMA WithoutFields ==
  ASSUME NEW rule \in NetRules, NEW c \in Cidrs, NEW ports
  PROVE  Without(rule, c, ports) \in NetRules /\ Without(rule, c, ports).cidr = rule.cidr
  BY Zenon DEF Without, NetRules, NetRule

LEMMA WithoutPorts ==
  ASSUME NEW rule \in NetRules, NEW c \in Cidrs, NEW ports, NEW q
  PROVE  q \in Without(rule, c, ports).ports <=> q \in rule.ports /\ ~(rule.cidr = c /\ q \in ports)
  BY Zenon DEF Without, NetRules, NetRule

LEMMA RetainStep ==
  ASSUME NEW rules \in Seq(NetRules), ListedOnce(rules), NEW c \in Cidrs, NEW ports,
         NEW n \in 1 .. Len(rules), NEW kept, RetainedOf(rules, c, ports, n - 1, kept)
  PROVE  RetainedOf(rules, c, ports, n, Retain(kept, Without(rules[n], c, ports)))
  <1> DEFINE rule == Without(rules[n], c, ports)
             w(i) == Without(rules[i], c, ports)
             new == Append(kept, rule)
  <1>1. Len(rules) \in Nat /\ DOMAIN rules = 1 .. Len(rules) /\ n \in Nat /\ n - 1 \in Nat
    OBVIOUS
  <1>2. \A i \in 1 .. n : i \in DOMAIN rules /\ (i \in 1 .. n - 1 \/ i = n)
    BY <1>1
  <1>3. \A i \in 1 .. n - 1 : i \in 1 .. n /\ i # n
    BY <1>1
  <1>4. \A i \in 1 .. n : w(i) \in NetRules /\ w(i).cidr = rules[i].cidr
    <2> SUFFICES ASSUME NEW i \in 1 .. n PROVE w(i) \in NetRules /\ w(i).cidr = rules[i].cidr
      BY Zenon
    <2>1. rules[i] \in NetRules
      BY <1>2, RuleFields, Zenon
    <2> QED BY <2>1, WithoutFields, Zenon
  <1>5. n \in 1 .. n
    BY <1>1
  <1>6. /\ kept \in Seq(NetRules)
        /\ ListedOnce(kept)
        /\ \A j \in DOMAIN kept : \E i \in 1 .. n - 1 : kept[j] = w(i)
        /\ \A i \in 1 .. n - 1 : w(i).ports # {} => \E j \in DOMAIN kept : kept[j] = w(i)
    BY Zenon DEF RetainedOf
  <1>7. CASE rule.ports = {}
    <2>1. Retain(kept, rule) = kept
      BY <1>7, Zenon DEF Retain
    <2>2. \A j \in DOMAIN kept : \E i \in 1 .. n : kept[j] = w(i)
      BY <1>3, <1>6, Zenon
    <2>3. \A i \in 1 .. n : w(i).ports # {} => \E j \in DOMAIN kept : kept[j] = w(i)
      BY <1>2, <1>6, <1>7, Zenon
    <2>4. RetainedOf(rules, c, ports, n, kept)
      BY <1>6, <2>2, <2>3, Zenon DEF RetainedOf
    <2> QED BY <2>1, <2>4, Zenon
  <1>8. CASE rule.ports # {}
    <2>1. Retain(kept, rule) = new
      BY <1>8, Zenon DEF Retain
    <2>2. rule \in NetRules /\ rule.cidr = rules[n].cidr
      BY <1>4, <1>5, Zenon
    <2> HIDE DEF rule
    <2>3. /\ new \in Seq(NetRules) /\ DOMAIN new = 1 .. Len(kept) + 1 /\ Len(kept) \in Nat
          /\ DOMAIN kept = 1 .. Len(kept)
          /\ \A j \in 1 .. Len(kept) : new[j] = kept[j]
          /\ new[Len(kept) + 1] = rule
      BY <1>6, <2>2
    <2> HIDE DEF new
    <2>4. /\ \A j \in DOMAIN new : j \in DOMAIN kept \/ j = Len(kept) + 1
          /\ \A j \in DOMAIN kept : j \in DOMAIN new
          /\ Len(kept) + 1 \in DOMAIN new
      BY <2>3
    <2>5. ASSUME NEW j \in DOMAIN kept PROVE kept[j].cidr # rule.cidr
      <3>1. PICK i \in 1 .. n - 1 : kept[j] = w(i)
        BY <1>6, Zenon
      <3>2. kept[j].cidr = rules[i].cidr
        BY <1>3, <1>4, <3>1, Zenon
      <3>3. i \in DOMAIN rules /\ n \in DOMAIN rules /\ i # n
        BY <1>2, <1>3, <1>5, Zenon
      <3> QED BY <2>2, <3>2, <3>3, Zenon DEF ListedOnce
    <2>6. ListedOnce(new)
      <3> SUFFICES ASSUME NEW i \in DOMAIN new, NEW j \in DOMAIN new, new[i].cidr = new[j].cidr PROVE i = j
        BY Zenon DEF ListedOnce
      <3>1. CASE i \in DOMAIN kept /\ j \in DOMAIN kept
        <4>1. kept[i].cidr = kept[j].cidr
          BY <2>3, <3>1, Zenon
        <4> QED BY <1>6, <3>1, <4>1, Zenon DEF ListedOnce
      <3> QED BY <2>3, <2>4, <2>5, <3>1, Zenon
    <2>7. \A j \in DOMAIN new : \E i \in 1 .. n : new[j] = w(i)
      <3>1. ASSUME NEW j \in DOMAIN kept PROVE \E i \in 1 .. n : new[j] = w(i)
        <4>1. new[j] = kept[j]
          BY <2>3, Zenon
        <4> QED BY <1>3, <1>6, <4>1, Zenon
      <3>2. new[Len(kept) + 1] = w(n)
        BY <2>3, Zenon DEF rule
      <3> QED BY <1>5, <2>4, <3>1, <3>2, Zenon
    <2>8. \A i \in 1 .. n : w(i).ports # {} => \E j \in DOMAIN new : new[j] = w(i)
      <3> SUFFICES ASSUME NEW i \in 1 .. n, w(i).ports # {} PROVE \E j \in DOMAIN new : new[j] = w(i)
        BY Zenon
      <3>1. CASE i = n
        <4>1. new[Len(kept) + 1] = w(i)
          BY <2>3, <3>1, Zenon DEF rule
        <4> QED BY <2>4, <4>1, Zenon
      <3>2. CASE i \in 1 .. n - 1
        <4>1. PICK j \in DOMAIN kept : kept[j] = w(i)
          BY <1>6, <3>2, Zenon
        <4>2. new[j] = kept[j] /\ j \in DOMAIN new
          BY <2>3, <2>4, Zenon
        <4> QED BY <4>1, <4>2, Zenon
      <3> QED BY <1>2, <3>1, <3>2, Zenon
    <2> QED BY <2>1, <2>3, <2>6, <2>7, <2>8, Zenon DEF RetainedOf, rule
  <1> QED BY <1>7, <1>8, Zenon

\* A revoke closes the ports of the CIDR and nothing else.
LEMMA RevokeCloses ==
  ASSUME NEW rules \in Seq(NetRules), ListedOnce(rules), NEW c \in Cidrs, NEW ports
  PROVE  /\ NetRevoked(rules, c, ports) \in Seq(NetRules)
         /\ ListedOnce(NetRevoked(rules, c, ports))
         /\ \A d, q : Opens(NetRevoked(rules, c, ports), d, q) <=> Opens(rules, d, q) /\ ~(d = c /\ q \in ports)
  <1> DEFINE L == Len(rules)
             g == CHOOSE h : Retained(rules, c, ports, L, h)
             Bad == {m \in 0 .. L : ~RetainedOf(rules, c, ports, m, g[m])}
             new == NetRevoked(rules, c, ports)
             w(i) == Without(rules[i], c, ports)
  <1>s. L \in Nat /\ DOMAIN rules = 1 .. L
    OBVIOUS
  <1>1. new = g[L]
    BY Zenon DEF NetRevoked, Retained
  <1>2. Retained(rules, c, ports, L, g)
    BY <1>s, RetainedExists, Zenon
  <1>3. g[0] = <<>> /\ \A k \in 1 .. L : g[k] = Retain(g[k - 1], w(k))
    <2> HIDE DEF g, L
    <2>1. ASSUME NEW k \in 0 .. L
          PROVE  g[k] = IF k = 0 THEN <<>> ELSE Retain(g[k - 1], w(k))
      BY <1>2, Zenon DEF Retained
    <2>2. 0 \in 0 .. L /\ \A k \in 1 .. L : k \in 0 .. L /\ k # 0
      BY <1>s
    <2> QED BY <2>1, <2>2, Zenon
  <1> HIDE DEF g, new
  <1>4. RetainedOf(rules, c, ports, 0, <<>>)
    BY DEF RetainedOf, ListedOnce
  <1>5. Bad = {}
    <2> SUFFICES ASSUME Bad # {} PROVE FALSE
      BY Zenon
    <2>1. Bad \in SUBSET Nat
      BY <1>s
    <2>2. PICK m \in Bad : \A y \in Bad : m <= y
      <3> HIDE DEF Bad
      <3> QED BY <2>1, LeastOf, Zenon
    <2>3. m \in 0 .. L /\ ~RetainedOf(rules, c, ports, m, g[m])
      BY Zenon
    <2>4. m # 0
      BY <1>3, <1>4, <2>3, Zenon
    <2>5. m \in 1 .. L /\ m - 1 \in 0 .. L /\ ~(m <= m - 1)
      BY <1>s, <2>3, <2>4
    <2>6. m - 1 \notin Bad
      <3> HIDE DEF Bad
      <3> QED BY <2>2, <2>5, Zenon
    <2>7. RetainedOf(rules, c, ports, m - 1, g[m - 1])
      BY <2>5, <2>6, Zenon
    <2>8. RetainedOf(rules, c, ports, m, Retain(g[m - 1], w(m)))
      BY <2>5, <2>7, RetainStep, Zenon
    <2> QED BY <1>3, <2>3, <2>5, <2>8, Zenon
  <1>6. RetainedOf(rules, c, ports, L, new)
    BY <1>s, <1>1, <1>5
  <1>7. ASSUME NEW i \in DOMAIN rules
        PROVE  w(i).cidr = rules[i].cidr /\ \A q : q \in w(i).ports <=> q \in rules[i].ports /\ ~(rules[i].cidr = c /\ q \in ports)
    <2>1. rules[i] \in NetRules
      BY RuleFields, Zenon
    <2>2. w(i).cidr = rules[i].cidr
      BY <2>1, WithoutFields, Zenon
    <2>3. \A q : q \in w(i).ports <=> q \in rules[i].ports /\ ~(rules[i].cidr = c /\ q \in ports)
      BY <2>1, WithoutPorts, Zenon
    <2> QED BY <2>2, <2>3, Zenon
  <1> HIDE DEF w, L, Bad
  <1>8. ASSUME NEW d, NEW q PROVE Opens(new, d, q) <=> Opens(rules, d, q) /\ ~(d = c /\ q \in ports)
    <2>1. ASSUME NEW j \in DOMAIN new, new[j].cidr = d, q \in new[j].ports
          PROVE  Opens(rules, d, q) /\ ~(d = c /\ q \in ports)
      <3>1. PICK i \in DOMAIN rules : new[j] = w(i)
        BY <1>6, <1>s, <2>1, Zenon DEF RetainedOf, w
      <3> QED BY <1>7, <2>1, <3>1, Zenon DEF Opens
    <2>2. ASSUME NEW i \in DOMAIN rules, rules[i].cidr = d, q \in rules[i].ports, ~(d = c /\ q \in ports)
          PROVE  Opens(new, d, q)
      <3>1. q \in w(i).ports /\ w(i).cidr = d
        BY <1>7, <2>2, Zenon
      <3>2. PICK j \in DOMAIN new : new[j] = w(i)
        <4>1. w(i).ports # {}
          BY <3>1, Zenon
        <4> QED BY <1>6, <1>s, <4>1, Zenon DEF RetainedOf, w
      <3> QED BY <3>1, <3>2, Zenon DEF Opens
    <2> QED BY <2>1, <2>2, Zenon DEF Opens
  <1> QED BY <1>6, <1>8, Zenon DEF RetainedOf, new

\* The table is compiled from the rules, and the last change is in the rules.
NetInv ==
  /\ egress \in Seq(NetRules) /\ ListedOnce(egress)
  /\ trie = Compiled(egress)
  /\ last.kind = "grant" => /\ last.cidr \in Cidrs /\ last.ports \in PortSets
                            /\ \A q \in last.ports : Opens(egress, last.cidr, q) /\ q < PortLimit
  /\ last.kind = "revoke" => /\ last.cidr \in Cidrs
                             /\ \A q \in last.ports : ~Opens(egress, last.cidr, q)

LEMMA GrantNetKeeps ==
  ASSUME NetInv, NEW c \in Cidrs, NEW ports \in PortSets, GrantNet(c, ports)
  PROVE  NetInv' /\ \A d, q : Opens(egress, d, q) => Opens(egress', d, q)
  <1> DEFINE rules == NetGranted(egress, c, ports)
  <1>1. ports \in SUBSET Nat
    BY CapabilitiesAssumption, Zenon
  <1>2. egress \in Seq(NetRules) /\ ListedOnce(egress)
    BY Zenon DEF NetInv
  <1>3. /\ rules \in Seq(NetRules) /\ ListedOnce(rules)
        /\ \A d, q : Opens(rules, d, q) <=> Opens(egress, d, q) \/ (d = c /\ q \in ports)
    BY <1>1, <1>2, GrantOpens, Zenon
  <1>4. Expressible(rules) /\ egress' = rules /\ trie' = Compiled(rules) /\ last' = NetChange("grant", c, ports)
    BY Zenon DEF GrantNet, ChangeNet
  <1> HIDE DEF rules
  <1>5. ASSUME NEW q \in ports PROVE Opens(rules, c, q) /\ q < PortLimit
    <2>1. Opens(rules, c, q)
      BY <1>3, Zenon
    <2> QED BY <1>4, <2>1, Zenon DEF Opens, Expressible
  <1>6. last'.kind = "grant" /\ last'.cidr = c /\ last'.ports = ports
    BY <1>4, Zenon DEF NetChange
  <1>7. egress' \in Seq(NetRules) /\ ListedOnce(egress') /\ trie' = Compiled(egress')
    BY <1>3, <1>4, Zenon
  <1>8. \A q \in last'.ports : Opens(egress', last'.cidr, q) /\ q < PortLimit
    BY <1>4, <1>5, <1>6, Zenon
  <1>9. NetInv'
    BY <1>6, <1>7, <1>8, Zenon DEF NetInv
  <1> QED BY <1>3, <1>4, <1>9, Zenon

LEMMA RevokeNetKeeps ==
  ASSUME NetInv, NEW c \in Cidrs, NEW ports \in PortSets, RevokeNet(c, ports)
  PROVE  NetInv' /\ \A d, q : Opens(egress', d, q) => Opens(egress, d, q)
  <1> DEFINE rules == NetRevoked(egress, c, ports)
  <1>1. egress \in Seq(NetRules) /\ ListedOnce(egress)
    BY Zenon DEF NetInv
  <1>2. /\ rules \in Seq(NetRules) /\ ListedOnce(rules)
        /\ \A d, q : Opens(rules, d, q) <=> Opens(egress, d, q) /\ ~(d = c /\ q \in ports)
    BY <1>1, RevokeCloses, Zenon
  <1>3. egress' = rules /\ trie' = Compiled(rules) /\ last' = NetChange("revoke", c, ports)
    BY Zenon DEF RevokeNet, ChangeNet
  <1> HIDE DEF rules
  <1>4. last'.kind = "revoke" /\ last'.cidr = c /\ last'.ports = ports
    BY <1>3, Zenon DEF NetChange
  <1>5. egress' \in Seq(NetRules) /\ ListedOnce(egress') /\ trie' = Compiled(egress')
    BY <1>2, <1>3, Zenon
  <1>6. \A q \in last'.ports : ~Opens(egress', last'.cidr, q)
    BY <1>2, <1>3, <1>4, Zenon
  <1>7. NetInv'
    BY <1>4, <1>5, <1>6, Zenon DEF NetInv
  <1> QED BY <1>2, <1>3, <1>7, Zenon

LEMMA NetInvKept ==
  ASSUME DocumentsListOnce, PlanInv, NetInv, [Next]_vars
  PROVE  NetInv'
  <1>1. CASE UNCHANGED policyVars
    BY <1>1, Zenon DEF NetInv, policyVars
  <1>2. CASE InstallPolicy
    <2> DEFINE rules == CompileNet(policy)
    <2>1. Expressible(rules) /\ egress' = rules /\ trie' = Compiled(rules) /\ last' = NoChange
      BY <1>2, Zenon DEF InstallPolicy
    <2>2. rules \in Seq(NetRules) /\ ListedOnce(rules)
      BY <2>1, Zenon DEF PlanInv, DocumentsListOnce
    <2> HIDE DEF rules
    <2>3. last'.kind # "grant" /\ last'.kind # "revoke"
      BY <2>1, Zenon DEF NoChange
    <2> QED BY <2>1, <2>2, <2>3, Zenon DEF NetInv
  <1>3. ASSUME NEW c \in Cidrs, NEW ports \in PortSets, GrantNet(c, ports) \/ RevokeNet(c, ports) PROVE NetInv'
    BY <1>3, GrantNetKeeps, RevokeNetKeeps, Zenon
  <1>4. ASSUME NEW p \in Paths, GrantExec(p) \/ RevokeExec(p) PROVE NetInv'
    <2>1. UNCHANGED <<egress, trie>> /\ last'.kind # "grant" /\ last'.kind # "revoke"
      BY <1>4 DEF GrantExec, RevokeExec, ExecChange
    <2> QED BY <2>1, Zenon DEF NetInv
  <1>5. CASE Change
    BY <1>3, <1>4, <1>5, Zenon DEF Change, ChangeCapability
  <1>6. CASE ChildWorks \/ StepFails \/ Release \/ InstallFails \/ Fault \/ UNCHANGED vars
    BY <1>1, <1>6, Zenon DEF ChildWorks, StepFails, Release, InstallFails, Fault, vars
  <1>7. ASSUME NEW p \in Registered, NEW c \in Commands, Spawn(p, c) PROVE NetInv'
    BY <1>1, <1>7, Zenon DEF Spawn
  <1> QED BY <1>2, <1>5, <1>6, <1>7, Zenon DEF Next, LaunchStep

LEMMA NetInitially ==
  ASSUME Init
  PROVE  PlanInv /\ NetInv
  <1>1. egress = <<>> /\ trie = Compiled(<<>>) /\ last = NoChange
    BY Zenon DEF Init
  <1>2. last.kind # "grant" /\ last.kind # "revoke"
    BY <1>1, Zenon DEF NoChange
  <1>3. egress \in Seq(NetRules) /\ ListedOnce(egress)
    BY <1>1 DEF ListedOnce
  <1> QED BY <1>1, <1>2, <1>3, PlanInitially, Zenon DEF NetInv

\* With the rules of a document listed once and CIDRs that do not overlap, after
\* a grant every address under its CIDR, bar metadata, is reachable on every
\* port of it, and stays so until the next change.
THEOREM Granted ==
  ASSUME Apart, DocumentsListOnce
  PROVE  Spec => []GrantReaches
  <1>1. PlanInv /\ NetInv /\ [Next]_vars => (PlanInv /\ NetInv)'
    BY PlanKept, NetInvKept, Zenon
  <1>2. NetInv => GrantReaches
    <2> SUFFICES ASSUME NetInv, last.kind = "grant", NEW a \in Within(last.cidr) \ Metadata, NEW q \in last.ports
                 PROVE  <<a, q>> \in Reach(trie)
      BY DEF GrantReaches
    <2>1. a \in Addresses /\ a \notin Metadata
      BY Zenon DEF Within
    <2>2. /\ last.cidr \in Cidrs /\ a \in Within(last.cidr) /\ q \in Ports /\ q < PortLimit
          /\ Opens(egress, last.cidr, q) /\ egress \in Seq(NetRules) /\ ListedOnce(egress)
          /\ trie = Compiled(egress)
      BY Zenon DEF NetInv, Ports
    <2>3. Reaches(trie, a, q)
      BY <2>1, <2>2, ReachOpens, Zenon
    <2> QED BY <2>1, <2>2, <2>3, Zenon DEF Reach, Destinations
  <1> QED BY <1>1, <1>2, NetInitially, PTL DEF Spec

\* After a revoke no address under the CIDR is reachable on a port that was
\* revoked, and a revoked binary does not execute: removing a rule is sufficient
\* to deny, when no other rule has the addresses or the file.
THEOREM Revoked ==
  ASSUME Apart, DocumentsListOnce, OneNamePerFile
  PROVE  Spec => []RevokeDenies
  <1> DEFINE Inv == IInv /\ PlanInv /\ ChildInv /\ IdentityInv /\ NetInv
  <1>1. Init => Inv
    BY LaunchInitially, NetInitially, Zenon
  <1>2. Inv /\ [Next]_vars => Inv'
    BY NextKeeps, LaunchStepIsSetup, PlanKept, ChildInvKept, IdentityKept, NetInvKept, Zenon
  <1>3. NetInv /\ last.kind = "revoke" => (Within(last.cidr) \X last.ports) \cap Reach(trie) = {}
    <2> SUFFICES ASSUME NetInv, last.kind = "revoke", NEW a \in Within(last.cidr), NEW q \in last.ports,
                        <<a, q>> \in Reach(trie)
                 PROVE  FALSE
      OBVIOUS
    <2>1. a \in Addresses /\ Reaches(trie, a, q)
      BY Zenon DEF Within, Reach
    <2>2. PICK d \in Cidrs : a \in Within(d) /\ Opens(egress, d, q)
      BY <2>1, ReachOpens, Zenon DEF NetInv
    <2>3. last.cidr \in Cidrs /\ ~Opens(egress, last.cidr, q)
      BY Zenon DEF NetInv
    <2>4. d = last.cidr
      BY <2>2, <2>3, Zenon DEF Apart
    <2> QED BY <2>2, <2>3, <2>4, Zenon
  <1>4. IdentityInv /\ last.kind = "revoke_exec" => ~Executes(ids, last.path)
    BY IdentityFacts, Zenon DEF IdentityInv, Executes
  <1>5. Inv => RevokeDenies
    BY <1>3, <1>4, Zenon DEF RevokeDenies
  <1> HIDE DEF Inv
  <1> QED BY <1>1, <1>2, <1>5, PTL DEF Spec

\* What more rules open is reachable through more.
LEMMA ReachGrows ==
  ASSUME Apart, NEW old \in Seq(NetRules), ListedOnce(old), NEW new \in Seq(NetRules), ListedOnce(new),
         \A d, q : Opens(old, d, q) => Opens(new, d, q)
  PROVE  Reach(Compiled(old)) \subseteq Reach(Compiled(new))
  <1> SUFFICES ASSUME NEW x \in Reach(Compiled(old)) PROVE x \in Reach(Compiled(new))
    BY Zenon
  <1>1. x \in Destinations /\ x[1] \in Addresses /\ Reaches(Compiled(old), x[1], x[2])
    BY Zenon DEF Reach, Destinations
  <1>2. Reaches(Compiled(new), x[1], x[2])
    BY <1>1, ReachOpens, Zenon
  <1> QED BY <1>1, <1>2, Zenon DEF Reach

\* Every step that changes the rules leaves a mark that says which way.
LEMMA NetSteps ==
  ASSUME PlanInv, NetInv, [Next]_vars
  PROVE  /\ last'.kind = "grant" => UNCHANGED policyVars \/ \E c \in Cidrs, ports \in PortSets : GrantNet(c, ports)
         /\ last'.kind = "revoke" => UNCHANGED policyVars \/ \E c \in Cidrs, ports \in PortSets : RevokeNet(c, ports)
  <1>1. CASE InstallPolicy
    BY <1>1, Zenon DEF InstallPolicy, NoChange
  <1>2. ASSUME NEW p \in Paths, GrantExec(p) \/ RevokeExec(p)
        PROVE  last'.kind # "grant" /\ last'.kind # "revoke"
    BY <1>2 DEF GrantExec, RevokeExec, ExecChange
  <1>3. ASSUME NEW c, NEW ports PROVE /\ GrantNet(c, ports) => last'.kind = "grant"
                                      /\ RevokeNet(c, ports) => last'.kind = "revoke"
    BY DEF GrantNet, RevokeNet, NetChange
  <1>4. CASE Change
    <2>1. \/ \E c \in Cidrs, ports \in PortSets : GrantNet(c, ports) \/ RevokeNet(c, ports)
          \/ \E p \in Paths : GrantExec(p) \/ RevokeExec(p)
      BY <1>4, Zenon DEF Change, ChangeCapability
    <2>2. "grant" # "revoke"
      BY Zenon
    <2> QED BY <1>2, <1>3, <2>1, <2>2, Zenon
  <1>5. CASE ChildWorks \/ StepFails \/ Release \/ InstallFails \/ Fault \/ UNCHANGED vars
    BY <1>5, Zenon DEF ChildWorks, StepFails, Release, InstallFails, Fault, vars
  <1>6. ASSUME NEW p \in Registered, NEW c \in Commands, Spawn(p, c) PROVE UNCHANGED policyVars
    BY <1>6, Zenon DEF Spawn
  <1> QED BY <1>1, <1>4, <1>5, <1>6, Zenon DEF Next, LaunchStep

\* A network grant takes no destination away from a running sandbox.
THEOREM GrantWidens ==
  ASSUME Apart, DocumentsListOnce
  PROVE  Spec => GrantOnlyWidens
  <1>1. PlanInv /\ NetInv /\ [Next]_vars => (PlanInv /\ NetInv)'
    BY PlanKept, NetInvKept, ZenonT(30)
  <1>2. PlanInv /\ NetInv /\ [Next]_vars => [last'.kind = "grant" => Reach(trie) \subseteq Reach(trie')]_policyVars
    <2> SUFFICES ASSUME PlanInv, NetInv, [Next]_vars, last'.kind = "grant", ~UNCHANGED policyVars
                 PROVE  Reach(trie) \subseteq Reach(trie')
      BY Zenon
    <2>1. PICK c \in Cidrs, ports \in PortSets : GrantNet(c, ports)
      BY NetSteps, Zenon
    <2>2. NetInv' /\ \A d, q : Opens(egress, d, q) => Opens(egress', d, q)
      BY <2>1, GrantNetKeeps, Zenon
    <2> QED BY <2>2, ReachGrows, Zenon DEF NetInv
  <1> QED BY <1>1, <1>2, NetInitially, PTL DEF Spec, GrantOnlyWidens

\* A revoke opens no destination to a running sandbox.
THEOREM RevokeNarrows ==
  ASSUME Apart, DocumentsListOnce
  PROVE  Spec => RevokeOnlyNarrows
  <1>1. PlanInv /\ NetInv /\ [Next]_vars => (PlanInv /\ NetInv)'
    BY PlanKept, NetInvKept, ZenonT(30)
  <1>2. PlanInv /\ NetInv /\ [Next]_vars => [last'.kind = "revoke" => Reach(trie') \subseteq Reach(trie)]_policyVars
    <2> SUFFICES ASSUME PlanInv, NetInv, [Next]_vars, last'.kind = "revoke", ~UNCHANGED policyVars
                 PROVE  Reach(trie') \subseteq Reach(trie)
      BY Zenon
    <2>1. PICK c \in Cidrs, ports \in PortSets : RevokeNet(c, ports)
      BY NetSteps, Zenon
    <2>2. NetInv' /\ \A d, q : Opens(egress', d, q) => Opens(egress, d, q)
      BY <2>1, RevokeNetKeeps, Zenon
    <2> QED BY <2>2, ReachGrows, Zenon DEF NetInv
  <1> QED BY <1>1, <1>2, NetInitially, PTL DEF Spec, RevokeOnlyNarrows
=============================================================================
