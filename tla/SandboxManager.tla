--------------------------- MODULE SandboxManager ---------------------------
(***************************************************************************)
(* The sandbox life cycle of aivisor-runtime: SandboxManager (manager.rs), *)
(* the launch handshake with the child (launcher.rs), the cgroup it lives  *)
(* in (cgroup.rs) and the sandbox_ctx entry the BPF hooks consult          *)
(* (aivisor-bpf maps.rs and the *.bpf.c programs).                         *)
(*                                                                         *)
(* A caller is a thread inside one of the manager's blocking calls (create,*)
(* exec, destroy, begin_turn, grant, revoke).  Its program counter names   *)
(* the next lock acquisition or system call, so every interleaving of two  *)
(* calls, of a call with the child it launched, and of a call with the     *)
(* kernel hooks is a behaviour of the model.                               *)
(*                                                                         *)
(* Sandbox ids are UUIDs drawn afresh for every create, so an id is used   *)
(* once.  Each sandbox has its own cgroup id, identified here with its id. *)
(***************************************************************************)
EXTENDS Integers, FiniteSets

CONSTANTS
  Sandboxes,   \* sandbox ids create() may draw
  Callers,     \* threads that call into the manager
  Caps,        \* runtime capabilities; an L5 policy is the set it allows
  Policies,    \* policies register_policy may put in the policy store
  Ops          \* optional control-plane calls the clients make

AllOps == {"pause", "turn", "capability", "sweep"}

ASSUME ConstantsAssumption ==
  /\ Policies \subseteq SUBSET Caps
  /\ Policies # {}
  /\ Sandboxes # {}
  /\ Ops \subseteq AllOps

VARIABLES
  \* SandboxManager.inner: registry, policy_store and the mutex itself
  hstate,      \* SandboxHandle.state; "Unborn", "Creating", "Gone": not in the registry
  launched,    \* effective_policy.is_some()
  eff,         \* the effective_policy of a launched handle
  turn,        \* baseline_pids of the open turn, or NoTurn
  store,       \* the policy the sandboxes' PolicyRef resolves to
  lock,        \* holder of SandboxManager.inner across a multi-step section
  \* the cgroup
  dir,         \* the cgroup directory: absent, younger or older than the grace period
  frozen,      \* cgroup.freeze, which the kernel honours with a delay
  attached,    \* the connect4/connect6 programs are attached to the cgroup
  \* the BPF side
  ctx,         \* the kernel's sandboxes map
  registered,  \* keys of BpfManagerInner.registered
  bpfLock,     \* holder of BpfManager.inner across a multi-step section
  \* the calls in progress
  pc, sb, tmp, pol, base,
  \* the child a caller's exec has cloned, and its sync socket
  child, sent, reply, killed,
  \* history: whether a payload acted since begin_turn, and what end_turn said
  \* of a turn in which it did or did not
  ran, outcome, acted

handleVars == <<hstate, launched, eff, turn>>
cgroupVars == <<dir, frozen, attached>>
bpfVars    == <<ctx, registered>>
callVars   == <<pc, sb, tmp, pol, base>>
childVars  == <<child, sent, reply, killed>>
history    == <<ran, outcome, acted>>
vars == <<handleVars, store, lock, cgroupVars, bpfVars, bpfLock, callVars, childVars, history>>

NoTurn == -1

Ctx == [present : BOOLEAN, enforcing : BOOLEAN, dirty : BOOLEAN, policy : SUBSET Caps]
NoCtx == [present |-> FALSE, enforcing |-> FALSE, dirty |-> FALSE, policy |-> {}]

\* A context in the map: the two flags and the rules it points at.
Context(enforcing, dirty, policy) ==
  [present |-> TRUE, enforcing |-> enforcing, dirty |-> dirty, policy |-> policy]

\* SandboxCtx::registered_for_setup: empty rule ranges, FLAG_ENFORCING clear.
SetupCtx == Context(FALSE, FALSE, {})

CreatePcs == {"create_apply", "create_register", "create_attach", "create_insert"}
\* Program counters of exec during which the parent's end of the sync socket is open.
SocketPcs == {"go", "recv", "install", "swap", "release", "record", "wait"}
ExecPcs == {"setup_read", "setup_write", "clone", "finish"} \cup SocketPcs
DestroyPcs == {"kill_all", "wait_empty", "rmdir", "deregister"}
Pcs == {"idle", "turn_write", "cap_write"} \cup CreatePcs \cup ExecPcs \cup DestroyPcs

InRegistry(s) == hstate[s] \in {"Ready", "Running", "Paused"}
Tasks(s) == {c \in Callers : child[c] # "none" /\ sb[c] = s}
Payloads(s) == {c \in Tasks(s) : child[c] = "payload"}

Init ==
  /\ hstate = [s \in Sandboxes |-> "Unborn"]
  /\ launched = [s \in Sandboxes |-> FALSE]
  /\ eff = [s \in Sandboxes |-> {}]
  /\ turn = [s \in Sandboxes |-> NoTurn]
  /\ store \in Policies
  /\ lock = {}
  /\ dir = [s \in Sandboxes |-> "absent"]
  /\ frozen = [s \in Sandboxes |-> "thawed"]
  /\ attached = [s \in Sandboxes |-> FALSE]
  /\ ctx = [s \in Sandboxes |-> NoCtx]
  /\ registered = [s \in Sandboxes |-> FALSE]
  /\ bpfLock = {}
  /\ pc = [c \in Callers |-> "idle"]
  /\ sb = [c \in Callers |-> CHOOSE s \in Sandboxes : TRUE]
  /\ tmp = [c \in Callers |-> NoCtx]
  /\ pol = [c \in Callers |-> {}]
  /\ base = [c \in Callers |-> 0]
  /\ child = [c \in Callers |-> "none"]
  /\ sent = [c \in Callers |-> 0]
  /\ reply = [c \in Callers |-> "none"]
  /\ killed = [c \in Callers |-> FALSE]
  /\ ran = [s \in Sandboxes |-> FALSE]
  /\ outcome = [s \in Sandboxes |-> "dirty"]
  /\ acted = [s \in Sandboxes |-> FALSE]

-----------------------------------------------------------------------------
Goto(c, p) == pc' = [pc EXCEPT ![c] = p]

\* A caller enters the manager.  It has one child slot: a caller whose last
\* exec failed issues its next call once that child is gone (other callers may
\* call meanwhile).
Call(c, s, p) ==
  /\ pc[c] = "idle"
  /\ child[c] = "none"
  /\ Goto(c, p)
  /\ sb' = [sb EXCEPT ![c] = s]

\* A userspace read-modify-write of a map value: the value to be written is
\* computed from the entry as read now; WriteCtx stores it in a later step.
ReadCtx(c, new) == tmp' = [tmp EXCEPT ![c] = new]
WriteCtx(c) ==
  /\ ctx' = [ctx EXCEPT ![sb[c]] = tmp[c]]
  /\ tmp' = [tmp EXCEPT ![c] = NoCtx]
DropTmp(c) == tmp' = [tmp EXCEPT ![c] = NoCtx]

\* BpfManager::deregister_sandbox; the final map delete may fail.
DeregisterCtx(s) ==
  /\ registered' = [registered EXCEPT ![s] = FALSE]
  /\ \/ ctx' = [ctx EXCEPT ![s] = NoCtx]
     \/ ctx' = [ctx EXCEPT ![s] = Context(ctx[s].enforcing, ctx[s].dirty, {})]

-----------------------------------------------------------------------------
(* create *)

\* Cgroup::create up to the mkdir; the id is fresh.
CreateCgroup(c, s) ==
  /\ hstate[s] = "Unborn"
  /\ Call(c, s, "create_apply")
  /\ hstate' = [hstate EXCEPT ![s] = "Creating"]
  /\ dir' = [dir EXCEPT ![s] = "young"]
  /\ UNCHANGED <<launched, eff, turn, store, lock, frozen, attached, bpfVars, bpfLock,
                 tmp, pol, base, childVars, history>>

\* An early return of create(): the id is never inserted and the cgroup
\* directory stays behind.
CreateFails(c) ==
  /\ Goto(c, "idle")
  /\ hstate' = [hstate EXCEPT ![sb[c]] = "Gone"]
  /\ UNCHANGED <<launched, eff, turn>>

CreateApply(c) ==
  /\ pc[c] = "create_apply"
  /\ \/ Goto(c, "create_register") /\ UNCHANGED handleVars
     \/ CreateFails(c)
  /\ UNCHANGED <<store, lock, cgroupVars, bpfVars, bpfLock, sb, tmp, pol, base, childVars, history>>

CreateRegister(c) ==
  LET s == sb[c] IN
  /\ pc[c] = "create_register"
  /\ bpfLock = {}
  /\ \/ /\ ~registered[s]
        /\ ctx' = [ctx EXCEPT ![s] = SetupCtx]
        /\ registered' = [registered EXCEPT ![s] = TRUE]
        /\ Goto(c, "create_attach")
        /\ UNCHANGED handleVars
     \/ CreateFails(c) /\ UNCHANGED bpfVars
  /\ UNCHANGED <<store, lock, cgroupVars, bpfLock, sb, tmp, pol, base, childVars, history>>

CreateAttach(c) ==
  LET s == sb[c] IN
  /\ pc[c] = "create_attach"
  /\ \/ /\ attached' = [attached EXCEPT ![s] = TRUE]
        /\ Goto(c, "create_insert")
        /\ UNCHANGED <<handleVars, bpfVars>>
     \/ bpfLock = {} /\ DeregisterCtx(s) /\ CreateFails(c) /\ UNCHANGED attached
  /\ UNCHANGED <<store, lock, dir, frozen, bpfLock, sb, tmp, pol, base, childVars, history>>

CreateInsert(c) ==
  /\ pc[c] = "create_insert"
  /\ lock = {}
  /\ hstate' = [hstate EXCEPT ![sb[c]] = "Ready"]
  /\ Goto(c, "idle")
  /\ UNCHANGED <<launched, eff, turn, store, lock, cgroupVars, bpfVars, bpfLock,
                 sb, tmp, pol, base, childVars, history>>

-----------------------------------------------------------------------------
(* exec: the caller's side, Launcher::spawn included *)

\* One payload at a time.
ExecAdmits_Always(s) == InRegistry(s)
ExecAdmits(s) == InRegistry(s) /\ hstate[s] # "Running"

ExecBegin(c, s) ==
  /\ lock = {}
  /\ ExecAdmits(s)
  /\ hstate' = [hstate EXCEPT ![s] = "Running"]
  /\ \/ /\ Call(c, s, "setup_read")
        /\ pol' = [pol EXCEPT ![c] = store]
     \/ \* dup of the cgroup fd fails: exec returns, the state stays Running
        pc[c] = "idle" /\ child[c] = "none" /\ UNCHANGED <<pc, sb, pol>>
  /\ UNCHANGED <<launched, eff, turn, store, lock, cgroupVars, bpfVars, bpfLock,
                 tmp, base, childVars, history>>

\* exec returns before the spawn: nothing puts the state back to Ready.
ExecAborts(c) ==
  /\ Goto(c, "idle")
  /\ pol' = [pol EXCEPT ![c] = {}]

\* build_launch_policy, then BpfManager::begin_setup, which clears FLAG_ENFORCING.
SetupRead(c) ==
  LET s == sb[c] IN
  /\ pc[c] = "setup_read"
  /\ \/ /\ bpfLock = {}
        /\ registered[s] /\ ctx[s].present
        /\ ReadCtx(c, Context(FALSE, ctx[s].dirty, ctx[s].policy))
        /\ bpfLock' = {c}
        /\ Goto(c, "setup_write")
        /\ UNCHANGED pol
     \/ ExecAborts(c) /\ UNCHANGED <<tmp, bpfLock>>
  /\ UNCHANGED <<handleVars, store, lock, cgroupVars, bpfVars, sb, base, childVars, history>>

SetupWrite(c) ==
  /\ pc[c] = "setup_write"
  /\ bpfLock' = {}
  /\ \/ WriteCtx(c) /\ Goto(c, "clone") /\ UNCHANGED pol
     \/ ExecAborts(c) /\ DropTmp(c) /\ UNCHANGED ctx
  /\ UNCHANGED <<handleVars, store, lock, cgroupVars, registered, sb, base, childVars, history>>

\* socketpair, chown and clone3 into the cgroup; the uid maps; the join of the
\* cgroup where clone3 cannot.  A removed cgroup cannot be entered.
Clone(c) ==
  /\ pc[c] = "clone"
  /\ \/ /\ dir[sb[c]] # "absent"
        /\ child' = [child EXCEPT ![c] = "blocked"]
        /\ \/ Goto(c, "go") /\ UNCHANGED killed
           \/ Goto(c, "finish") /\ killed' = [killed EXCEPT ![c] = TRUE]
     \/ Goto(c, "finish") /\ UNCHANGED <<child, killed>>
  /\ UNCHANGED <<handleVars, store, lock, cgroupVars, bpfVars, bpfLock, sb, tmp, pol, base,
                 sent, reply, history>>

\* kill_via_pidfd: SIGKILL is pending until the kernel delivers it.
KillChild(c) == killed' = [killed EXCEPT ![c] = child[c] # "none"]

\* The byte that releases the child into its setup; EPIPE if it has died.
Go(c) ==
  /\ pc[c] = "go"
  /\ IF child[c] # "none"
       THEN sent' = [sent EXCEPT ![c] = 1] /\ Goto(c, "recv")
       ELSE Goto(c, "finish") /\ UNCHANGED sent
  /\ UNCHANGED <<handleVars, store, lock, cgroupVars, bpfVars, bpfLock, sb, tmp, pol, base,
                 child, reply, killed, history>>

\* recv_msg: a buffered message, or end of file once the child is dead.
RecvNext_SkipsInstall(c) ==
  IF reply[c] = "ready" THEN {"release"}
  ELSE IF reply[c] = "error" \/ child[c] = "none" THEN {"finish"} ELSE {}
RecvNext_NoEof(c) ==
  IF reply[c] = "ready" THEN {"install"} ELSE IF reply[c] = "error" THEN {"finish"} ELSE {}
RecvNext(c) ==
  IF reply[c] = "ready" THEN {"install"}
  ELSE IF reply[c] = "error" \/ child[c] = "none" THEN {"finish"} ELSE {}

\* An error report makes the launcher kill the child.
Recv(c) ==
  /\ pc[c] = "recv"
  /\ \E p \in RecvNext(c) : Goto(c, p)
  /\ IF reply[c] = "error" THEN KillChild(c) ELSE UNCHANGED killed
  /\ UNCHANGED <<handleVars, store, lock, cgroupVars, bpfVars, bpfLock, sb, tmp, pol, base,
                 child, sent, reply, history>>

\* The context update_policy swaps in: the live flags with FLAG_ENFORCING, and
\* the new rules.
PolicyCtx(s, policy) == Context(TRUE, ctx[s].dirty, policy)

\* install_policy = BpfManager::update_policy, first half: validate, write the
\* rules into fresh indices, read the context.  Any failure kills the child.
Install(c) ==
  LET s == sb[c] IN
  /\ pc[c] = "install"
  /\ bpfLock = {}
  /\ \/ /\ registered[s] /\ ctx[s].present
        /\ ReadCtx(c, PolicyCtx(s, pol[c]))
        /\ bpfLock' = {c}
        /\ Goto(c, "swap")
        /\ UNCHANGED killed
     \/ KillChild(c) /\ Goto(c, "finish") /\ UNCHANGED <<tmp, bpfLock>>
  /\ UNCHANGED <<handleVars, store, lock, cgroupVars, bpfVars, sb, pol, base,
                 child, sent, reply, history>>

\* update_policy, second half: swap the whole context value.
Swap(c) ==
  /\ pc[c] = "swap"
  /\ bpfLock' = {}
  /\ \/ WriteCtx(c) /\ Goto(c, "release") /\ UNCHANGED killed
     \/ DropTmp(c) /\ KillChild(c) /\ Goto(c, "finish") /\ UNCHANGED ctx
  /\ UNCHANGED <<handleVars, store, lock, cgroupVars, registered, sb, pol, base,
                 child, sent, reply, history>>

\* The byte that releases the child to execve.
Released(c) == sent[c] + 1

Release(c) ==
  /\ pc[c] = "release"
  /\ IF child[c] # "none"
       THEN sent' = [sent EXCEPT ![c] = Released(c)] /\ Goto(c, "record")
       ELSE Goto(c, "finish") /\ UNCHANGED sent
  /\ UNCHANGED <<handleVars, store, lock, cgroupVars, bpfVars, bpfLock, sb, tmp, pol, base,
                 child, reply, killed, history>>

\* Record the launch in the handle, if the handle is still there.
Records_FirstLaunchOnly(s) == InRegistry(s) /\ ~launched[s]
Records(s) == InRegistry(s)

Record(c) ==
  LET s == sb[c] IN
  /\ pc[c] = "record"
  /\ lock = {}
  /\ Goto(c, "wait")
  /\ IF Records(s)
       THEN /\ launched' = [launched EXCEPT ![s] = TRUE]
            /\ eff' = [eff EXCEPT ![s] = pol[c]]
       ELSE UNCHANGED <<launched, eff>>
  /\ UNCHANGED <<hstate, turn, store, lock, cgroupVars, bpfVars, bpfLock,
                 sb, tmp, pol, base, childVars, history>>

Reaped_Early(c) == TRUE
Reaped(c) == child[c] = "none"

\* Supervisor::wait: the child is the init of its pid namespace, so when it has
\* been reaped every task of the launch is gone.
Wait(c) ==
  /\ pc[c] = "wait"
  /\ Reaped(c)
  /\ Goto(c, "finish")
  /\ UNCHANGED <<handleVars, store, lock, cgroupVars, bpfVars, bpfLock,
                 sb, tmp, pol, base, childVars, history>>

\* Both the failed-spawn path and the normal return put the state to Ready.
Finish(c) ==
  LET s == sb[c] IN
  /\ pc[c] = "finish"
  /\ lock = {}
  /\ hstate' = IF InRegistry(s) THEN [hstate EXCEPT ![s] = "Ready"] ELSE hstate
  /\ Goto(c, "idle")
  /\ pol' = [pol EXCEPT ![c] = {}]
  /\ reply' = [reply EXCEPT ![c] = "none"]
  /\ UNCHANGED <<launched, eff, turn, store, lock, cgroupVars, bpfVars, bpfLock,
                 sb, tmp, base, child, sent, killed, history>>

-----------------------------------------------------------------------------
(* exec: the child's side (child_setup) and the kernel hooks it meets *)

Runs(c) == frozen[sb[c]] # "frozen"
ParentOpen(c) == pc[c] \in SocketPcs

\* A hook that finds the task's context sets FLAG_DIRTY in place.
MarkDirty(s) ==
  IF ctx[s].present
    THEN ctx' = [ctx EXCEPT ![s] = Context(ctx[s].enforcing, TRUE, ctx[s].policy)]
    ELSE UNCHANGED ctx

\* The child's exit; msg is what is left on the sync socket.
ChildEnds(c, msg) ==
  /\ child' = [child EXCEPT ![c] = "none"]
  /\ sent' = [sent EXCEPT ![c] = 0]
  /\ killed' = [killed EXCEPT ![c] = FALSE]
  /\ reply' = IF ParentOpen(c) THEN [reply EXCEPT ![c] = msg] ELSE reply

ChildMoves(c, p) ==
  /\ child' = [child EXCEPT ![c] = p]
  /\ UNCHANGED <<sent, killed>>

\* Blocked in the first read: the parent's byte, or end of file.
ChildStart(c) ==
  /\ child[c] = "blocked" /\ Runs(c)
  /\ \/ sent[c] >= 1 /\ ChildMoves(c, "setup") /\ UNCHANGED reply
     \/ sent[c] = 0 /\ ~ParentOpen(c) /\ ChildEnds(c, "error")
  /\ UNCHANGED <<handleVars, store, lock, cgroupVars, bpfVars, bpfLock, callVars, history>>

\* The mounts, which lsm/sb_mount denies to an enforcing sandbox, and the
\* mkdir of dev/pts in a fresh tmpfs, which lsm/path_mkdir marks dirty.
ChildMounts(c) ==
  LET s == sb[c] IN
  /\ child[c] = "setup" /\ Runs(c)
  /\ \/ ~ctx[s].enforcing /\ MarkDirty(s) /\ ChildMoves(c, "mounted") /\ UNCHANGED reply
     \/ ChildEnds(c, "error") /\ (MarkDirty(s) \/ UNCHANGED ctx)
  /\ UNCHANGED <<handleVars, store, lock, cgroupVars, registered, bpfLock, callVars, history>>

\* Capabilities, Landlock, seccomp and uid drop, then ChildMsg::Ready.
ChildReady(c) ==
  /\ child[c] = "mounted" /\ Runs(c)
  /\ \/ /\ ParentOpen(c)
        /\ ChildMoves(c, "ready")
        /\ reply' = [reply EXCEPT ![c] = "ready"]
     \/ ChildEnds(c, "error")
  /\ UNCHANGED <<handleVars, store, lock, cgroupVars, bpfVars, bpfLock, callVars, history>>

\* Blocked in the second read, then execve.  lsm/bprm_check_security marks an
\* allowed exec dirty only while the sandbox is enforcing.
ChildExec(c) ==
  LET s == sb[c] IN
  /\ child[c] = "ready" /\ Runs(c)
  /\ \/ /\ sent[c] = 2
        /\ ChildMoves(c, "payload")
        /\ IF ctx[s].enforcing THEN MarkDirty(s) ELSE UNCHANGED ctx
        /\ ran' = [ran EXCEPT ![s] = TRUE]
        /\ UNCHANGED reply
     \/ (sent[c] = 2 \/ ~ParentOpen(c)) /\ ChildEnds(c, "error") /\ UNCHANGED <<ctx, ran>>
  /\ UNCHANGED <<handleVars, store, lock, cgroupVars, registered, bpfLock, callVars, outcome, acted>>

\* A fork or a directory-changing path operation of the payload.
PayloadOp(c) ==
  /\ child[c] = "payload" /\ Runs(c)
  /\ MarkDirty(sb[c])
  /\ ran' = [ran EXCEPT ![sb[c]] = TRUE]
  /\ UNCHANGED <<handleVars, store, lock, cgroupVars, registered, bpfLock, callVars,
                 childVars, outcome, acted>>

PayloadExit(c) ==
  /\ child[c] = "payload" /\ Runs(c)
  /\ ChildEnds(c, "none")
  /\ UNCHANGED <<handleVars, store, lock, cgroupVars, bpfVars, bpfLock, callVars, history>>

\* The kernel delivers a pending SIGKILL, to a frozen task too.
Die(c) ==
  /\ killed[c]
  /\ ChildEnds(c, reply[c])
  /\ UNCHANGED <<handleVars, store, lock, cgroupVars, bpfVars, bpfLock, callVars, history>>

-----------------------------------------------------------------------------
(* Turns *)

\* begin_turn refuses a Running sandbox.
TurnAdmits_Always(s) == InRegistry(s)
TurnAdmits(s) == InRegistry(s) /\ hstate[s] # "Running"

\* begin_turn holds the manager's mutex throughout, but not BpfManager's.
\* An unreadable pids.current counts as a baseline of 0.
BeginTurn(c, s) ==
  /\ "turn" \in Ops
  /\ lock = {}
  /\ TurnAdmits(s)
  /\ ctx[s].present
  /\ Call(c, s, "turn_write")
  /\ lock' = {c}
  /\ ReadCtx(c, Context(ctx[s].enforcing, FALSE, ctx[s].policy))
  /\ \E n \in {0, Cardinality(Tasks(s))} : base' = [base EXCEPT ![c] = n]
  /\ UNCHANGED <<handleVars, store, cgroupVars, bpfVars, bpfLock, pol, childVars, history>>

TurnWrite(c) ==
  LET s == sb[c] IN
  /\ pc[c] = "turn_write"
  /\ lock' = {}
  /\ base' = [base EXCEPT ![c] = 0]
  /\ Goto(c, "idle")
  /\ \/ /\ WriteCtx(c)
        /\ turn' = [turn EXCEPT ![s] = base[c]]
        /\ ran' = [ran EXCEPT ![s] = FALSE]
     \/ DropTmp(c) /\ UNCHANGED <<ctx, turn, ran>>
  /\ UNCHANGED <<hstate, launched, eff, store, cgroupVars, registered, bpfLock, sb, pol,
                 childVars, outcome, acted>>

\* What end_turn may answer.  A pids file that cannot be read makes the turn
\* dirty; a context that cannot be read makes end_turn fail.
TurnOutcomes(s) ==
  {"dirty", "error"} \cup
    IF ctx[s].present /\ ~ctx[s].dirty /\ Cardinality(Tasks(s)) = turn[s] THEN {"clean"} ELSE {}

\* end_turn takes the turn out of the handle before it reads anything.
EndTurn(s) ==
  /\ "turn" \in Ops
  /\ lock = {}
  /\ InRegistry(s)
  /\ turn[s] # NoTurn
  /\ turn' = [turn EXCEPT ![s] = NoTurn]
  /\ \E o \in TurnOutcomes(s) : outcome' = [outcome EXCEPT ![s] = o]
  /\ acted' = [acted EXCEPT ![s] = ran[s]]
  /\ UNCHANGED <<hstate, launched, eff, store, lock, cgroupVars, bpfVars, bpfLock, callVars,
                 childVars, ran>>

-----------------------------------------------------------------------------
(* grant_capability and revoke_capability *)

\* apply_capability holds both mutexes across update_policy.
ApplyCapability(c, s, next) ==
  /\ "capability" \in Ops
  /\ lock = {} /\ bpfLock = {}
  /\ InRegistry(s)
  /\ launched[s]
  /\ registered[s] /\ ctx[s].present
  /\ Call(c, s, "cap_write")
  /\ lock' = {c} /\ bpfLock' = {c}
  /\ ReadCtx(c, PolicyCtx(s, next))
  /\ UNCHANGED <<handleVars, store, cgroupVars, bpfVars, pol, base, childVars, history>>

Grant(c, s, cap) == ApplyCapability(c, s, eff[s] \cup {cap})
Revoke(c, s, cap) == ApplyCapability(c, s, eff[s] \ {cap})

CapWrite(c) ==
  /\ pc[c] = "cap_write"
  /\ lock' = {} /\ bpfLock' = {}
  /\ Goto(c, "idle")
  /\ \/ WriteCtx(c) /\ eff' = [eff EXCEPT ![sb[c]] = tmp[c].policy]
     \/ DropTmp(c) /\ UNCHANGED <<ctx, eff>>
  /\ UNCHANGED <<hstate, launched, turn, store, cgroupVars, registered, sb, pol, base,
                 childVars, history>>

-----------------------------------------------------------------------------
(* pause, resume, register_policy and the start-up sweep of another manager *)

Pause(s) ==
  /\ "pause" \in Ops
  /\ lock = {}
  /\ InRegistry(s)
  /\ dir[s] # "absent"
  /\ frozen' = [frozen EXCEPT ![s] = IF @ = "frozen" THEN @ ELSE "freezing"]
  /\ hstate' = [hstate EXCEPT ![s] = "Paused"]
  /\ UNCHANGED <<launched, eff, turn, store, lock, dir, attached, bpfVars, bpfLock, callVars,
                 childVars, history>>

Resume(s) ==
  /\ "pause" \in Ops
  /\ lock = {}
  /\ InRegistry(s)
  /\ dir[s] # "absent"
  /\ frozen' = [frozen EXCEPT ![s] = "thawed"]
  /\ hstate' = [hstate EXCEPT ![s] = "Running"]
  /\ UNCHANGED <<launched, eff, turn, store, lock, dir, attached, bpfVars, bpfLock, callVars,
                 childVars, history>>

\* The kernel finishes freezing the tasks.
FreezeSettles(s) ==
  /\ frozen[s] = "freezing"
  /\ frozen' = [frozen EXCEPT ![s] = "frozen"]
  /\ UNCHANGED <<handleVars, store, lock, dir, attached, bpfVars, bpfLock, callVars,
                 childVars, history>>

RegisterPolicy(p) ==
  /\ lock = {}
  /\ store' = p
  /\ UNCHANGED <<handleVars, lock, cgroupVars, bpfVars, bpfLock, callVars, childVars, history>>

\* The directory outlives ORPHAN_GRACE_PERIOD.
Age(s) ==
  /\ "sweep" \in Ops
  /\ dir[s] = "young"
  /\ dir' = [dir EXCEPT ![s] = "old"]
  /\ UNCHANGED <<handleVars, store, lock, frozen, attached, bpfVars, bpfLock, callVars,
                 childVars, history>>

\* adopt_or_clean_orphan_cgroups, run by SandboxManager::new() of another
\* manager; it consults no registry.
Sweep(s) ==
  /\ "sweep" \in Ops
  /\ dir[s] = "old"
  /\ Tasks(s) = {}
  /\ dir' = [dir EXCEPT ![s] = "absent"]
  /\ UNCHANGED <<handleVars, store, lock, frozen, attached, bpfVars, bpfLock, callVars,
                 childVars, history>>

-----------------------------------------------------------------------------
(* destroy *)

\* The cgroup goes first, the BPF context last.
TeardownStart_ContextFirst == "deregister"
TeardownStart == "kill_all"

DestroyRemove(c, s) ==
  /\ lock = {}
  /\ InRegistry(s)
  /\ Call(c, s, TeardownStart)
  /\ hstate' = [hstate EXCEPT ![s] = "Gone"]
  /\ turn' = [turn EXCEPT ![s] = NoTurn]
  /\ launched' = [launched EXCEPT ![s] = FALSE]
  /\ eff' = [eff EXCEPT ![s] = {}]
  /\ UNCHANGED <<store, lock, cgroupVars, bpfVars, bpfLock, tmp, pol, base, childVars, history>>

\* Cgroup::destroy returns an error: destroy returns it, and dropping the
\* handle detaches the cgroup programs.  The BPF context is left in place.
DestroyFails(c) ==
  /\ Goto(c, "idle")
  /\ attached' = [attached EXCEPT ![sb[c]] = FALSE]

KillAll(c) ==
  LET s == sb[c] IN
  /\ pc[c] = "kill_all"
  /\ \/ /\ dir[s] # "absent"
        /\ killed' = [d \in Callers |-> killed[d] \/ d \in Tasks(s)]
        /\ Goto(c, "wait_empty")
        /\ UNCHANGED attached
     \/ DestroyFails(c) /\ UNCHANGED killed
  /\ UNCHANGED <<handleVars, store, lock, dir, frozen, bpfVars, bpfLock, sb, tmp, pol, base,
                 child, sent, reply, history>>

\* wait_for_empty gives up after two seconds, or when the directory is gone.
GivesUp_Never(s) == dir[s] = "absent"
GivesUp(s) == dir[s] = "absent" \/ Tasks(s) # {}

WaitEmpty(c) ==
  LET s == sb[c] IN
  /\ pc[c] = "wait_empty"
  /\ \/ dir[s] # "absent" /\ Tasks(s) = {} /\ Goto(c, "rmdir") /\ UNCHANGED attached
     \/ GivesUp(s) /\ DestroyFails(c)
  /\ UNCHANGED <<handleVars, store, lock, dir, frozen, bpfVars, bpfLock, sb, tmp, pol, base,
                 childVars, history>>

\* rmdir refuses a populated cgroup.
Rmdir(c) ==
  LET s == sb[c] IN
  /\ pc[c] = "rmdir"
  /\ IF dir[s] # "absent" /\ Tasks(s) = {}
       THEN dir' = [dir EXCEPT ![s] = "absent"] /\ Goto(c, "deregister") /\ UNCHANGED attached
       ELSE DestroyFails(c) /\ UNCHANGED dir
  /\ UNCHANGED <<handleVars, store, lock, frozen, bpfVars, bpfLock, sb, tmp, pol, base,
                 childVars, history>>

Deregister(c) ==
  LET s == sb[c] IN
  /\ pc[c] = "deregister"
  /\ bpfLock = {}
  /\ Goto(c, "idle")
  /\ attached' = [attached EXCEPT ![s] = FALSE]
  /\ DeregisterCtx(s)
  /\ UNCHANGED <<handleVars, store, lock, dir, frozen, bpfLock, sb, tmp, pol, base,
                 childVars, history>>

-----------------------------------------------------------------------------
CallStep(c) ==
  \/ CreateApply(c) \/ CreateRegister(c) \/ CreateAttach(c) \/ CreateInsert(c)
  \/ SetupRead(c) \/ SetupWrite(c) \/ Clone(c) \/ Go(c) \/ Recv(c) \/ Install(c)
  \/ Swap(c) \/ Release(c) \/ Record(c) \/ Wait(c) \/ Finish(c)
  \/ TurnWrite(c) \/ CapWrite(c)
  \/ KillAll(c) \/ WaitEmpty(c) \/ Rmdir(c) \/ Deregister(c)

CallStart(c, s) ==
  \/ CreateCgroup(c, s) \/ ExecBegin(c, s) \/ DestroyRemove(c, s) \/ BeginTurn(c, s)
  \/ \E cap \in Caps : Grant(c, s, cap) \/ Revoke(c, s, cap)

ChildStep(c) == ChildStart(c) \/ ChildMounts(c) \/ ChildReady(c) \/ ChildExec(c)

Next ==
  \/ \E c \in Callers : CallStep(c) \/ ChildStep(c) \/ PayloadOp(c) \/ PayloadExit(c) \/ Die(c)
  \/ \E c \in Callers, s \in Sandboxes : CallStart(c, s)
  \/ \E s \in Sandboxes :
       \/ EndTurn(s) \/ Pause(s) \/ Resume(s) \/ FreezeSettles(s) \/ Age(s) \/ Sweep(s)
  \/ \E p \in Policies : RegisterPolicy(p)

Spec == Init /\ [][Next]_vars

\* The threads inside calls are scheduled, an unfrozen child makes progress,
\* and the kernel delivers signals.  Nothing makes a payload exit, a client
\* call, or the kernel freeze.
Fairness ==
  \A c \in Callers : WF_vars(CallStep(c)) /\ WF_vars(ChildStep(c)) /\ WF_vars(Die(c))

FairSpec == Spec /\ Fairness

-----------------------------------------------------------------------------
\* The variables the launch and teardown protocol runs on...
ProtocolTypeOK ==
  /\ hstate \in [Sandboxes -> {"Unborn", "Creating", "Ready", "Running", "Paused", "Gone"}]
  /\ lock \subseteq Callers
  /\ dir \in [Sandboxes -> {"absent", "young", "old"}]
  /\ ctx \in [Sandboxes -> Ctx]
  /\ bpfLock \subseteq Callers
  /\ pc \in [Callers -> Pcs]
  /\ sb \in [Callers -> Sandboxes]
  /\ tmp \in [Callers -> Ctx]
  /\ child \in [Callers -> {"none", "blocked", "setup", "mounted", "ready", "payload"}]
  /\ sent \in [Callers -> 0..2]

\* ... and the rest.
RecordTypeOK ==
  /\ launched \in [Sandboxes -> BOOLEAN]
  /\ eff \in [Sandboxes -> SUBSET Caps]
  /\ turn \in [Sandboxes -> Int]
  /\ store \in Policies
  /\ frozen \in [Sandboxes -> {"thawed", "freezing", "frozen"}]
  /\ attached \in [Sandboxes -> BOOLEAN]
  /\ registered \in [Sandboxes -> BOOLEAN]
  /\ pol \in [Callers -> SUBSET Caps]
  /\ base \in [Callers -> Int]
  /\ reply \in [Callers -> {"none", "ready", "error"}]
  /\ killed \in [Callers -> BOOLEAN]
  /\ ran \in [Sandboxes -> BOOLEAN]
  /\ outcome \in [Sandboxes -> {"clean", "dirty", "error"}]
  /\ acted \in [Sandboxes -> BOOLEAN]

\* Every variable keeps its type through every call, failure and child step.
TypeOK == ProtocolTypeOK /\ RecordTypeOK

\* No payload runs, not even for one step of another thread, in a sandbox whose
\* kernel context is missing or not enforcing: exec installs the policy before
\* it releases the child, begin_setup waits for the last payload, and destroy
\* removes the context last.
PayloadConfined ==
  \A c \in Callers : child[c] = "payload" => ctx[sb[c]].present /\ ctx[sb[c]].enforcing

\* begin_setup's and begin_turn's precondition: while a handle says Ready, no
\* payload is alive in its cgroup and no exec call is still under way for it.
ReadyMeansQuiescent ==
  \A s \in Sandboxes : hstate[s] = "Ready" =>
    /\ Payloads(s) = {}
    /\ \A c \in Callers : sb[c] = s => pc[c] \notin ExecPcs

\* "aivisor runs one payload per sandbox at a time" (exec).
OnePayload == \A c, d \in Callers : child[c] = "payload" /\ child[d] = "payload" /\ sb[c] = sb[d] => c = d

\* The context is removed last: as long as any task is alive in the cgroup,
\* whatever calls have failed and in whatever order calls overlap, its cgroup
\* exists and the hooks find a context for it.
ContextOutlivesTasks ==
  \A c \in Callers : child[c] # "none" => ctx[sb[c]].present /\ dir[sb[c]] # "absent"

\* A turn in which a payload was executed or changed anything is never
\* reported clean by end_turn.
CleanTurnIsClean == \A s \in Sandboxes : acted[s] => outcome[s] # "clean"

\* effective_policy "is what L5 currently enforces": between calls, the policy
\* in the handle is the policy in the kernel.
HandleMatchesKernel ==
  \A s \in Sandboxes :
    hstate[s] = "Ready" /\ launched[s] /\ lock = {} => ctx[s].policy = eff[s]

\* The policy of a running payload changes only through grant or revoke.
PolicyStableUnderPayload ==
  [][\A s \in Sandboxes :
       Payloads(s) # {} /\ ctx'[s].policy # ctx[s].policy =>
         \E c \in Callers : pc[c] = "cap_write" /\ sb[c] = s]_vars

\* A payload never runs without the connect4/connect6 programs on its cgroup.
HooksCoverPayload ==
  \A c \in Callers : child[c] = "payload" => attached[sb[c]]

\* The start-up sweep removes no cgroup that a live manager has registered.
SweepSparesRegistered ==
  [][\A s \in Sandboxes : Sweep(s) => ~registered[s]]_vars

\* "already running a command": a Running handle has an exec call under way.
RunningMeansBusy ==
  \A s \in Sandboxes : hstate[s] = "Running" => \E c \in Callers : sb[c] = s /\ pc[c] \in ExecPcs

\* The refinement mapping to Confinement: the gate is closed when the hooks find
\* an enforcing context.
Gate == INSTANCE Confinement WITH
  gate    <- [s \in Sandboxes |-> IF ctx[s].present /\ ctx[s].enforcing THEN "closed" ELSE "open"],
  running <- [s \in Sandboxes |-> Payloads(s)]

\* The launch protocol, with its failures and its races against destroy,
\* begin_turn and grants, implements the gate: a payload starts only alone and
\* behind an enforcing context, which is taken down only when it has ended.
RefinesConfinement == Gate!GSpec

\* In a sandbox that is never paused, a launch that has begun releases its
\* payload or returns, whatever the child does and whenever it dies: spawn never
\* waits on a dead child.
LaunchResolves ==
  \A s \in Sandboxes : [](frozen[s] = "thawed") =>
    \A c \in Callers : (pc[c] = "setup_read" /\ sb[c] = s) ~> pc[c] \in {"idle", "record"}

\* destroy returns even when another thread keeps putting tasks into the cgroup
\* behind its kill_all, or the cgroup is frozen.
DestroyResolves ==
  \A c \in Callers : pc[c] = "kill_all" ~> pc[c] = "idle"

\* An exec whose child has been killed, by destroy or by its own launcher,
\* returns to its caller, at whatever point of the launch the kill struck and
\* frozen or not.
KilledExecReturns ==
  \A c \in Callers : pc[c] \in ExecPcs /\ killed[c] ~> pc[c] = "idle"
=============================================================================
