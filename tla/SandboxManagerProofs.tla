------------------------ MODULE SandboxManagerProofs ------------------------
(***************************************************************************)
(* Theorems about SandboxManager for every number of callers, sandboxes,   *)
(* capabilities and policies, as long as no client pauses a sandbox (with  *)
(* pause the properties do not hold).                                      *)
(*                                                                         *)
(* None of the safety invariants is inductive by itself: that a payload is *)
(* confined depends on who may still write the context, which depends on   *)
(* which calls can overlap on one sandbox, which depends on the handle's   *)
(* state and on the two mutexes.  IInv below says just that.  After it     *)
(* come the steps that keep it, one lemma per action, then the invariants, *)
(* then what a step may do to contexts and payloads and the refinement     *)
(* that follows from it.                                                   *)
(***************************************************************************)
EXTENDS SandboxManager, TLAPS

\* A thread in the middle of a read-modify-write holds the mutex it took.
LockInv ==
  /\ \A c, d \in lock : c = d
  /\ \A c, d \in bpfLock : c = d
  /\ \A c \in Callers :
       /\ pc[c] \in {"turn_write", "cap_write"} => c \in lock
       /\ pc[c] \in {"setup_write", "swap", "cap_write"} => c \in bpfLock

\* The value about to be written was computed from an existing context.
TmpInv ==
  \A c \in Callers :
    /\ pc[c] \in {"setup_write", "swap", "cap_write", "turn_write"} => tmp[c].present
    /\ pc[c] \in {"swap", "cap_write"} => tmp[c].enforcing

\* What the handle's state says of the calls under way on it.
PhaseInv ==
  \A c \in Callers :
    /\ pc[c] \in CreatePcs => hstate[sb[c]] = "Creating"
    /\ pc[c] \in ExecPcs => hstate[sb[c]] \in {"Running", "Gone"}
    /\ pc[c] \in DestroyPcs => hstate[sb[c]] = "Gone"
    /\ pc[c] = "turn_write" => hstate[sb[c]] \in {"Ready", "Paused"}
    /\ pc[c] = "cap_write" => hstate[sb[c]] \in {"Ready", "Running", "Paused"}
    /\ child[c] # "none" => hstate[sb[c]] \notin {"Unborn", "Creating"}

\* At most one create and at most one exec per sandbox.
OwnerInv ==
  \A c, d \in Callers :
    sb[c] = sb[d] /\ (\/ pc[c] \in CreatePcs /\ pc[d] \in CreatePcs
                      \/ pc[c] \in ExecPcs /\ pc[d] \in ExecPcs) => c = d

\* The handshake: how many bytes a live child has been sent.
HandshakeInv ==
  \A c \in Callers :
    /\ child[c] = "none" => sent[c] = 0
    /\ child[c] # "none" => pc[c] \in {"idle", "finish"} \cup SocketPcs
    /\ pc[c] = "go" => sent[c] = 0
    /\ pc[c] \in {"recv", "install", "swap", "release"} /\ child[c] # "none" => sent[c] = 1
    /\ child[c] = "payload" => sent[c] = 2
    /\ sent[c] = 2 => pc[c] \in {"record", "wait"}

\* The context of a sandbox with live tasks, and of one about to get one.
ContextInv ==
  \A c \in Callers :
    /\ child[c] # "none" => ctx[sb[c]].present /\ dir[sb[c]] # "absent"
    /\ pc[c] = "clone" /\ dir[sb[c]] # "absent" => ctx[sb[c]].present
    /\ pc[c] = "deregister" => dir[sb[c]] = "absent"
    /\ (pc[c] = "release" \/ sent[c] = 2) /\ child[c] # "none" => ctx[sb[c]].enforcing

ProtocolInv == LockInv /\ TmpInv /\ PhaseInv /\ OwnerInv /\ HandshakeInv /\ ContextInv

IInv == TypeOK /\ ProtocolInv

-----------------------------------------------------------------------------
(* Facts about the operators *)

LEMMA PcNames ==
  /\ "idle" \in Pcs /\ "turn_write" \in Pcs /\ "cap_write" \in Pcs
  /\ "create_apply" \in Pcs /\ "create_register" \in Pcs
  /\ "create_attach" \in Pcs /\ "create_insert" \in Pcs
  /\ "setup_read" \in Pcs /\ "setup_write" \in Pcs /\ "clone" \in Pcs /\ "finish" \in Pcs
  /\ "go" \in Pcs /\ "recv" \in Pcs /\ "install" \in Pcs /\ "swap" \in Pcs
  /\ "release" \in Pcs /\ "record" \in Pcs /\ "wait" \in Pcs
  /\ "kill_all" \in Pcs /\ "wait_empty" \in Pcs /\ "rmdir" \in Pcs /\ "deregister" \in Pcs
  BY Zenon DEF Pcs, CreatePcs, ExecPcs, SocketPcs, DestroyPcs

LEMMA NoCtxType == NoCtx \in Ctx
  BY Zenon DEF NoCtx, Ctx

LEMMA ContextType ==
  ASSUME NEW e \in BOOLEAN, NEW d \in BOOLEAN, NEW p \in SUBSET Caps
  PROVE  /\ Context(e, d, p) \in Ctx
         /\ Context(e, d, p).present
         /\ Context(e, d, p).enforcing = e
         /\ Context(e, d, p).policy = p
  BY Zenon DEF Context, Ctx

LEMMA CtxFields ==
  ASSUME NEW x \in Ctx
  PROVE  x.enforcing \in BOOLEAN /\ x.dirty \in BOOLEAN /\ x.policy \in SUBSET Caps
  BY Zenon DEF Ctx

\* A hook that marks a context dirty changes nothing else of any context.
LEMMA MarkDirtyKeeps ==
  ASSUME NEW s \in Sandboxes, ctx \in [Sandboxes -> Ctx], MarkDirty(s)
  PROVE  /\ ctx' \in [Sandboxes -> Ctx]
         /\ \A t \in Sandboxes : /\ ctx'[t].present = ctx[t].present
                                /\ ctx'[t].enforcing = ctx[t].enforcing
                                /\ ctx'[t].policy = ctx[t].policy
  <1>1. ctx[s] \in Ctx
    BY Zenon
  <1>2. CASE ~ctx[s].present
    BY <1>2, Zenon DEF MarkDirty
  <1>3. CASE ctx[s].present
    <2> DEFINE new == Context(ctx[s].enforcing, TRUE, ctx[s].policy)
    <2>0. ctx[s].enforcing \in BOOLEAN /\ ctx[s].policy \in SUBSET Caps
      BY <1>1, CtxFields, Zenon
    <2>1. /\ new \in Ctx /\ new.present
          /\ new.enforcing = ctx[s].enforcing /\ new.policy = ctx[s].policy
      BY <2>0, ContextType, ZenonT(30)
    <2>2. ctx' = [ctx EXCEPT ![s] = new]
      BY <1>3, Zenon DEF MarkDirty
    <2> HIDE DEF new
    <2> QED BY <1>3, <2>1, <2>2, ZenonT(30)
  <1> QED BY <1>2, <1>3, Zenon

\* Deregistering one context leaves the others alone; when the final delete
\* fails the context keeps its flags.
LEMMA DeregisterKeeps ==
  ASSUME NEW s \in Sandboxes, ctx \in [Sandboxes -> Ctx], DeregisterCtx(s)
  PROVE  /\ ctx' \in [Sandboxes -> Ctx]
         /\ \A t \in Sandboxes \ {s} : ctx'[t] = ctx[t]
  <1>1. ctx[s].enforcing \in BOOLEAN /\ ctx[s].dirty \in BOOLEAN
    BY CtxFields, Zenon
  <1>2. Context(ctx[s].enforcing, ctx[s].dirty, {}) \in Ctx
    BY <1>1, ContextType, Zenon
  <1> QED BY <1>2, NoCtxType, Zenon DEF DeregisterCtx

-----------------------------------------------------------------------------
(* What several actions have in common *)

\* A caller moves on and changes nothing else of the protocol.
LEMMA PcMove ==
  ASSUME ProtocolTypeOK, ProtocolInv, NEW c \in Callers, NEW p,
         UNCHANGED <<hstate, lock, dir, ctx, bpfLock, sb, tmp, child, sent>>,
         pc' = [pc EXCEPT ![c] = p],
         \/ pc[c] = "recv" /\ p \in {"install", "finish"}
         \/ pc[c] = "record" /\ p = "wait"
         \/ pc[c] = "wait" /\ child[c] = "none" /\ p = "finish"
         \/ pc[c] = "kill_all" /\ p \in {"wait_empty", "idle"}
         \/ pc[c] = "wait_empty" /\ p \in {"rmdir", "idle"}
  PROVE  ProtocolTypeOK' /\ ProtocolInv'
  <1> USE DEF ProtocolInv
  <1>2. ProtocolTypeOK'
    BY PcNames, Zenon DEF ProtocolTypeOK
  <1>3. LockInv'
    BY Zenon DEF ProtocolTypeOK, LockInv
  <1>4. TmpInv'
    BY Zenon DEF ProtocolTypeOK, TmpInv
  <1>5. PhaseInv'
    BY DEF ProtocolTypeOK, PhaseInv, CreatePcs, ExecPcs, SocketPcs, DestroyPcs
  <1>6. OwnerInv'
    BY DEF ProtocolTypeOK, OwnerInv, CreatePcs, ExecPcs, SocketPcs, DestroyPcs
  <1>7. HandshakeInv'
    BY DEF ProtocolTypeOK, HandshakeInv, SocketPcs
  <1>8. ContextInv'
    BY Zenon DEF ProtocolTypeOK, ContextInv
  <1> QED BY <1>2, <1>3, <1>4, <1>5, <1>6, <1>7, <1>8, Zenon

\* A child ends; its hooks have at most marked its context dirty.
LEMMA ChildGone ==
  ASSUME ProtocolTypeOK, ProtocolInv, NEW c \in Callers,
         UNCHANGED <<hstate, lock, dir, bpfLock, pc, sb, tmp>>,
         child' = [child EXCEPT ![c] = "none"], sent' = [sent EXCEPT ![c] = 0],
         ctx' \in [Sandboxes -> Ctx],
         \A t \in Sandboxes : ctx'[t].present = ctx[t].present /\ ctx'[t].enforcing = ctx[t].enforcing
  PROVE  ProtocolTypeOK' /\ ProtocolInv'
  <1> USE DEF ProtocolInv
  <1>2. ProtocolTypeOK'
    BY PcNames DEF ProtocolTypeOK
  <1>3. LockInv'
    BY Zenon DEF ProtocolTypeOK, LockInv
  <1>4. TmpInv'
    BY Zenon DEF ProtocolTypeOK, TmpInv
  <1>5. PhaseInv'
    BY DEF ProtocolTypeOK, PhaseInv, CreatePcs, ExecPcs, SocketPcs, DestroyPcs
  <1>6. OwnerInv'
    BY Zenon DEF ProtocolTypeOK, OwnerInv, CreatePcs, ExecPcs, SocketPcs, DestroyPcs
  <1>7. HandshakeInv'
    BY DEF ProtocolTypeOK, HandshakeInv, SocketPcs
  <1>8. ContextInv'
    BY ZenonT(30) DEF ProtocolTypeOK, ContextInv
  <1> QED BY <1>2, <1>3, <1>4, <1>5, <1>6, <1>7, <1>8, Zenon

\* A child moves on towards its execve, for which it needs the second byte.
LEMMA ChildAdvances ==
  ASSUME ProtocolTypeOK, ProtocolInv, NEW c \in Callers, NEW p \in {"setup", "mounted", "ready", "payload"},
         child[c] # "none", p = "payload" => sent[c] = 2,
         UNCHANGED <<hstate, lock, dir, bpfLock, pc, sb, tmp, sent>>,
         child' = [child EXCEPT ![c] = p],
         ctx' \in [Sandboxes -> Ctx],
         \A t \in Sandboxes : ctx'[t].present = ctx[t].present /\ ctx'[t].enforcing = ctx[t].enforcing
  PROVE  ProtocolTypeOK' /\ ProtocolInv'
  <1> USE DEF ProtocolInv
  <1>2. ProtocolTypeOK'
    BY PcNames, Zenon DEF ProtocolTypeOK
  <1>3. LockInv'
    BY Zenon DEF ProtocolTypeOK, LockInv
  <1>4. TmpInv'
    BY Zenon DEF ProtocolTypeOK, TmpInv
  <1>5. PhaseInv'
    BY DEF ProtocolTypeOK, PhaseInv, CreatePcs, ExecPcs, SocketPcs, DestroyPcs
  <1>6. OwnerInv'
    BY Zenon DEF ProtocolTypeOK, OwnerInv, CreatePcs, ExecPcs, SocketPcs, DestroyPcs
  <1>7. HandshakeInv'
    BY DEF ProtocolTypeOK, HandshakeInv, SocketPcs
  <1>8. ContextInv'
    BY ZenonT(30) DEF ProtocolTypeOK, ContextInv
  <1> QED BY <1>2, <1>3, <1>4, <1>5, <1>6, <1>7, <1>8, Zenon

\* Nothing of the protocol moves, except that a hook may mark a context dirty.
LEMMA OnlyDirtyMoves ==
  ASSUME ProtocolTypeOK, ProtocolInv, UNCHANGED <<hstate, lock, dir, bpfLock, pc, sb, tmp, child, sent>>,
         ctx' \in [Sandboxes -> Ctx],
         \A t \in Sandboxes : ctx'[t].present = ctx[t].present /\ ctx'[t].enforcing = ctx[t].enforcing
  PROVE  ProtocolTypeOK' /\ ProtocolInv'
  <1> USE DEF ProtocolInv
  <1>2. ProtocolTypeOK'
    BY PcNames, Zenon DEF ProtocolTypeOK
  <1>3. LockInv'
    BY Zenon DEF ProtocolTypeOK, LockInv
  <1>4. TmpInv'
    BY Zenon DEF ProtocolTypeOK, TmpInv
  <1>5. PhaseInv'
    BY Zenon DEF ProtocolTypeOK, PhaseInv, CreatePcs, ExecPcs, SocketPcs, DestroyPcs
  <1>6. OwnerInv'
    BY Zenon DEF ProtocolTypeOK, OwnerInv, CreatePcs, ExecPcs, SocketPcs, DestroyPcs
  <1>7. HandshakeInv'
    BY Zenon DEF ProtocolTypeOK, HandshakeInv, SocketPcs
  <1>8. ContextInv'
    BY Zenon DEF ProtocolTypeOK, ContextInv
  <1> QED BY <1>2, <1>3, <1>4, <1>5, <1>6, <1>7, <1>8, Zenon

-----------------------------------------------------------------------------
(* create, exec, the child and the payload keep the invariant.  The first step
   of each lemma says what the action does to the variables the invariant is
   about. *)

LEMMA CreateCgroupStep ==
  ASSUME NEW c \in Callers, NEW s \in Sandboxes, IInv, CreateCgroup(c, s)
  PROVE  IInv'
  <1> USE DEF IInv, ProtocolInv, TypeOK
  <1>1. /\ UNCHANGED <<lock, ctx, bpfLock, tmp, child, sent>>
        /\ pc[c] = "idle" /\ child[c] = "none" /\ hstate[s] = "Unborn"
        /\ pc' = [pc EXCEPT ![c] = "create_apply"]
        /\ sb' = [sb EXCEPT ![c] = s]
        /\ hstate' = [hstate EXCEPT ![s] = "Creating"]
        /\ dir' = [dir EXCEPT ![s] = "young"]
    BY Zenon DEF CreateCgroup, Call, Goto, bpfVars, childVars
  <1>2. ProtocolTypeOK'
    BY <1>1, PcNames, NoCtxType, Zenon DEF ProtocolTypeOK
  <1>3. LockInv'
    BY <1>1, Zenon DEF ProtocolTypeOK, LockInv
  <1>4. TmpInv'
    BY <1>1, Zenon DEF ProtocolTypeOK, TmpInv
  <1>5. PhaseInv'
    BY <1>1 DEF ProtocolTypeOK, PhaseInv, CreatePcs, ExecPcs, SocketPcs, DestroyPcs
  <1>6. OwnerInv'
    BY <1>1 DEF ProtocolTypeOK, OwnerInv, PhaseInv, CreatePcs, ExecPcs, SocketPcs, DestroyPcs
  <1>7. HandshakeInv'
    BY <1>1, Zenon DEF ProtocolTypeOK, HandshakeInv, SocketPcs
  <1>8. ContextInv'
    BY <1>1 DEF ProtocolTypeOK, ContextInv, PhaseInv, ExecPcs, SocketPcs, DestroyPcs
  <1>9. RecordTypeOK'
    BY Zenon DEF RecordTypeOK, CreateCgroup, handleVars, cgroupVars, bpfVars, callVars, childVars, history
  <1> QED BY <1>2, <1>3, <1>4, <1>5, <1>6, <1>7, <1>8, <1>9, Zenon

LEMMA CreateApplyStep ==
  ASSUME NEW c \in Callers, IInv, CreateApply(c)
  PROVE  IInv'
  <1> USE DEF IInv, ProtocolInv, TypeOK
  <1>1. /\ UNCHANGED <<lock, dir, ctx, bpfLock, sb, tmp, child, sent>>
        /\ pc[c] = "create_apply"
        /\ \/ pc' = [pc EXCEPT ![c] = "create_register"] /\ UNCHANGED hstate
           \/ pc' = [pc EXCEPT ![c] = "idle"] /\ hstate' = [hstate EXCEPT ![sb[c]] = "Gone"]
    BY Zenon DEF CreateApply, CreateFails, Goto, handleVars, cgroupVars, bpfVars, childVars
  <1>2. ProtocolTypeOK'
    BY <1>1, PcNames, NoCtxType DEF ProtocolTypeOK
  <1>3. LockInv'
    BY <1>1, ZenonT(30) DEF ProtocolTypeOK, LockInv
  <1>4. TmpInv'
    BY <1>1 DEF ProtocolTypeOK, TmpInv
  <1>5. PhaseInv'
    BY <1>1 DEF ProtocolTypeOK, PhaseInv, OwnerInv, CreatePcs, ExecPcs, SocketPcs, DestroyPcs
  <1>6. OwnerInv'
    BY <1>1 DEF ProtocolTypeOK, OwnerInv, CreatePcs, ExecPcs, SocketPcs, DestroyPcs
  <1>7. HandshakeInv'
    BY <1>1 DEF ProtocolTypeOK, HandshakeInv, SocketPcs
  <1>8. ContextInv'
    BY <1>1 DEF ProtocolTypeOK, ContextInv
  <1>9. RecordTypeOK'
    BY Zenon DEF RecordTypeOK, CreateApply, CreateFails, handleVars, cgroupVars, bpfVars, callVars, childVars, history
  <1> QED BY <1>2, <1>3, <1>4, <1>5, <1>6, <1>7, <1>8, <1>9, Zenon

LEMMA CreateRegisterStep ==
  ASSUME NEW c \in Callers, IInv, CreateRegister(c)
  PROVE  IInv'
  <1> USE DEF IInv, ProtocolInv, TypeOK
  <1>0. SetupCtx \in Ctx /\ SetupCtx.present
    BY ContextType, ZenonT(30) DEF SetupCtx
  <1>1. /\ UNCHANGED <<lock, dir, bpfLock, sb, tmp, child, sent>>
        /\ pc[c] = "create_register"
        /\ \/ pc' = [pc EXCEPT ![c] = "create_attach"] /\ UNCHANGED hstate
              /\ ctx' = [ctx EXCEPT ![sb[c]] = SetupCtx]
           \/ pc' = [pc EXCEPT ![c] = "idle"] /\ hstate' = [hstate EXCEPT ![sb[c]] = "Gone"] /\ UNCHANGED ctx
    BY Zenon DEF CreateRegister, CreateFails, Goto, handleVars, cgroupVars, bpfVars, childVars
  <1>2. ProtocolTypeOK'
    BY <1>1, PcNames, NoCtxType, <1>0 DEF ProtocolTypeOK
  <1>3. LockInv'
    BY <1>1 DEF ProtocolTypeOK, LockInv
  <1>4. TmpInv'
    BY <1>1 DEF ProtocolTypeOK, TmpInv
  <1>5. PhaseInv'
    BY <1>1 DEF ProtocolTypeOK, PhaseInv, OwnerInv, CreatePcs, ExecPcs, SocketPcs, DestroyPcs
  <1>6. OwnerInv'
    BY <1>1 DEF ProtocolTypeOK, OwnerInv, CreatePcs, ExecPcs, SocketPcs, DestroyPcs
  <1>7. HandshakeInv'
    BY <1>1 DEF ProtocolTypeOK, HandshakeInv, SocketPcs
  <1>8. ContextInv'
    BY <1>1, <1>0 DEF ProtocolTypeOK, ContextInv, PhaseInv, CreatePcs
  <1>9. RecordTypeOK'
    <2>1. (registered \in [Sandboxes -> BOOLEAN])'
      BY ZenonT(30) DEF ProtocolTypeOK, RecordTypeOK, CreateRegister, bpfVars
    <2> QED BY <2>1, Zenon DEF RecordTypeOK, CreateRegister, CreateFails, handleVars, cgroupVars, bpfVars, callVars, childVars, history
  <1> QED BY <1>2, <1>3, <1>4, <1>5, <1>6, <1>7, <1>8, <1>9, ZenonT(30)

LEMMA CreateAttachStep ==
  ASSUME NEW c \in Callers, IInv, CreateAttach(c)
  PROVE  IInv'
  <1> USE DEF IInv, ProtocolInv, TypeOK
  <1>0. sb[c] \in Sandboxes /\ ctx \in [Sandboxes -> Ctx]
    BY Zenon DEF ProtocolTypeOK
  <1>1. /\ UNCHANGED <<lock, dir, bpfLock, sb, tmp, child, sent>>
        /\ pc[c] = "create_attach"
        /\ ctx' \in [Sandboxes -> Ctx]
        /\ \A t \in Sandboxes \ {sb[c]} : ctx'[t] = ctx[t]
        /\ \/ pc' = [pc EXCEPT ![c] = "create_insert"] /\ UNCHANGED <<hstate, ctx>>
           \/ pc' = [pc EXCEPT ![c] = "idle"] /\ hstate' = [hstate EXCEPT ![sb[c]] = "Gone"]
    BY <1>0, DeregisterKeeps, Zenon DEF CreateAttach, CreateFails, Goto, handleVars, bpfVars, childVars
  <1>2. ProtocolTypeOK'
    BY <1>1, PcNames, NoCtxType DEF ProtocolTypeOK
  <1>3. LockInv'
    BY <1>1 DEF ProtocolTypeOK, LockInv
  <1>4. TmpInv'
    BY <1>1 DEF ProtocolTypeOK, TmpInv
  <1>5. PhaseInv'
    BY <1>1 DEF ProtocolTypeOK, PhaseInv, OwnerInv, CreatePcs, ExecPcs, SocketPcs, DestroyPcs
  <1>6. OwnerInv'
    BY <1>1 DEF ProtocolTypeOK, OwnerInv, CreatePcs, ExecPcs, SocketPcs, DestroyPcs
  <1>7. HandshakeInv'
    BY <1>1 DEF ProtocolTypeOK, HandshakeInv, SocketPcs
  <1>8. ContextInv'
    BY <1>1 DEF ProtocolTypeOK, ContextInv, PhaseInv, CreatePcs, ExecPcs
  <1>9. RecordTypeOK'
    <2>1. (attached \in [Sandboxes -> BOOLEAN])'
      BY <1>0, ZenonT(30) DEF RecordTypeOK, CreateAttach
    <2>2. (registered \in [Sandboxes -> BOOLEAN])'
      BY <1>0, ZenonT(30) DEF RecordTypeOK, CreateAttach, DeregisterCtx, bpfVars
    <2> QED BY <2>1, <2>2, Zenon DEF RecordTypeOK, CreateAttach, CreateFails, handleVars, cgroupVars, bpfVars, callVars, childVars, history
  <1> QED BY <1>2, <1>3, <1>4, <1>5, <1>6, <1>7, <1>8, <1>9, ZenonT(30)

LEMMA CreateInsertStep ==
  ASSUME NEW c \in Callers, IInv, CreateInsert(c)
  PROVE  IInv'
  <1> USE DEF IInv, ProtocolInv, TypeOK
  <1>1. /\ UNCHANGED <<lock, dir, ctx, bpfLock, sb, tmp, child, sent>>
        /\ pc[c] = "create_insert"
        /\ pc' = [pc EXCEPT ![c] = "idle"]
        /\ hstate' = [hstate EXCEPT ![sb[c]] = "Ready"]
    BY Zenon DEF CreateInsert, Goto, cgroupVars, bpfVars, childVars
  <1>2. ProtocolTypeOK'
    BY <1>1, PcNames, NoCtxType, Zenon DEF ProtocolTypeOK
  <1>3. LockInv'
    BY <1>1, Zenon DEF ProtocolTypeOK, LockInv
  <1>4. TmpInv'
    BY <1>1, Zenon DEF ProtocolTypeOK, TmpInv
  <1>5. PhaseInv'
    BY <1>1 DEF ProtocolTypeOK, PhaseInv, OwnerInv, CreatePcs, ExecPcs, SocketPcs, DestroyPcs
  <1>6. OwnerInv'
    BY <1>1, ZenonT(30) DEF ProtocolTypeOK, OwnerInv, CreatePcs, ExecPcs, SocketPcs, DestroyPcs
  <1>7. HandshakeInv'
    BY <1>1, ZenonT(30) DEF ProtocolTypeOK, HandshakeInv, SocketPcs
  <1>8. ContextInv'
    BY <1>1, Zenon DEF ProtocolTypeOK, ContextInv
  <1>9. RecordTypeOK'
    BY Zenon DEF RecordTypeOK, CreateInsert, handleVars, cgroupVars, bpfVars, callVars, childVars, history
  <1> QED BY <1>2, <1>3, <1>4, <1>5, <1>6, <1>7, <1>8, <1>9, ZenonT(30)

LEMMA ExecBeginStep ==
  ASSUME NEW c \in Callers, NEW s \in Sandboxes, IInv, ExecBegin(c, s)
  PROVE  IInv'
  <1> USE DEF IInv, ProtocolInv, TypeOK
  <1>1. /\ UNCHANGED <<lock, dir, ctx, bpfLock, tmp, child, sent>>
        /\ pc[c] = "idle" /\ child[c] = "none" /\ lock = {}
        /\ hstate[s] \in {"Ready", "Paused"}
        /\ hstate' = [hstate EXCEPT ![s] = "Running"]
        /\ \/ pc' = [pc EXCEPT ![c] = "setup_read"] /\ sb' = [sb EXCEPT ![c] = s]
           \/ UNCHANGED <<pc, sb>>
    BY Zenon DEF ExecBegin, ExecAdmits, InRegistry, Call, Goto, cgroupVars, bpfVars, childVars
  <1>2. ProtocolTypeOK'
    BY <1>1, PcNames, NoCtxType DEF ProtocolTypeOK
  <1>3. LockInv'
    BY <1>1 DEF ProtocolTypeOK, LockInv
  <1>4. TmpInv'
    BY <1>1, Zenon DEF ProtocolTypeOK, TmpInv
  <1>5. PhaseInv'
    BY <1>1 DEF ProtocolTypeOK, PhaseInv, LockInv, CreatePcs, ExecPcs, SocketPcs, DestroyPcs
  <1>6. OwnerInv'
    BY <1>1 DEF ProtocolTypeOK, OwnerInv, PhaseInv, CreatePcs, ExecPcs, SocketPcs, DestroyPcs
  <1>7. HandshakeInv'
    BY <1>1, ZenonT(30) DEF ProtocolTypeOK, HandshakeInv, SocketPcs
  <1>8. ContextInv'
    BY <1>1, SMTT(30) DEF ProtocolTypeOK, ContextInv
  <1>9. RecordTypeOK'
    <2>1. (pol \in [Callers -> SUBSET Caps])'
      BY ConstantsAssumption, SMTT(30) DEF RecordTypeOK, ExecBegin
    <2> QED BY <2>1, Zenon DEF RecordTypeOK, ExecBegin, handleVars, cgroupVars, bpfVars, callVars, childVars, history
  <1> QED BY <1>2, <1>3, <1>4, <1>5, <1>6, <1>7, <1>8, <1>9, ZenonT(30)

LEMMA SetupReadStep ==
  ASSUME NEW c \in Callers, IInv, SetupRead(c)
  PROVE  IInv'
  <1> USE DEF IInv, ProtocolInv, TypeOK
  <1> DEFINE new == Context(FALSE, ctx[sb[c]].dirty, ctx[sb[c]].policy)
  <1>f. ctx[sb[c]] \in Ctx
    BY Zenon DEF ProtocolTypeOK
  <1>g. ctx[sb[c]].enforcing \in BOOLEAN /\ ctx[sb[c]].dirty \in BOOLEAN /\ ctx[sb[c]].policy \in SUBSET Caps
    BY <1>f, CtxFields, Zenon
  <1>0. new \in Ctx /\ new.present
    BY <1>g, ContextType, ZenonT(30)
  <1>1. /\ UNCHANGED <<hstate, lock, dir, ctx, sb, child, sent>>
        /\ pc[c] = "setup_read"
        /\ \/ /\ bpfLock = {} /\ bpfLock' = {c}
              /\ pc' = [pc EXCEPT ![c] = "setup_write"]
              /\ tmp' = [tmp EXCEPT ![c] = new]
           \/ pc' = [pc EXCEPT ![c] = "idle"] /\ UNCHANGED <<tmp, bpfLock>>
    BY ZenonT(30) DEF SetupRead, ReadCtx, ExecAborts, Goto, handleVars, cgroupVars, bpfVars, childVars
  <1> HIDE DEF new
  <1>2. ProtocolTypeOK'
    BY <1>1, PcNames, NoCtxType, <1>0, ZenonT(30) DEF ProtocolTypeOK
  <1>3. LockInv'
    BY <1>1, ZenonT(30) DEF ProtocolTypeOK, LockInv
  <1>4. TmpInv'
    BY <1>1, <1>0 DEF ProtocolTypeOK, TmpInv
  <1>5. PhaseInv'
    BY <1>1 DEF ProtocolTypeOK, PhaseInv, CreatePcs, ExecPcs, SocketPcs, DestroyPcs
  <1>6. OwnerInv'
    BY <1>1 DEF ProtocolTypeOK, OwnerInv, CreatePcs, ExecPcs, SocketPcs, DestroyPcs
  <1>7. HandshakeInv'
    BY <1>1 DEF ProtocolTypeOK, HandshakeInv, SocketPcs
  <1>8. ContextInv'
    BY <1>1, SMTT(30) DEF ProtocolTypeOK, ContextInv
  <1>9. RecordTypeOK'
    <2>1. (pol \in [Callers -> SUBSET Caps])'
      BY ZenonT(30) DEF RecordTypeOK, SetupRead, ExecAborts
    <2> QED BY <2>1, Zenon DEF RecordTypeOK, SetupRead, handleVars, cgroupVars, bpfVars, callVars, childVars, history
  <1> QED BY <1>2, <1>3, <1>4, <1>5, <1>6, <1>7, <1>8, <1>9, ZenonT(30)

LEMMA SetupWriteStep ==
  ASSUME NEW c \in Callers, IInv, SetupWrite(c)
  PROVE  IInv'
  <1> USE DEF IInv, ProtocolInv, TypeOK
  <1>1. /\ UNCHANGED <<hstate, lock, dir, sb, child, sent>>
        /\ pc[c] = "setup_write" /\ bpfLock' = {}
        /\ tmp' = [tmp EXCEPT ![c] = NoCtx]
        /\ \/ pc' = [pc EXCEPT ![c] = "clone"] /\ ctx' = [ctx EXCEPT ![sb[c]] = tmp[c]]
           \/ pc' = [pc EXCEPT ![c] = "idle"] /\ UNCHANGED ctx
    BY Zenon DEF SetupWrite, WriteCtx, DropTmp, ExecAborts, Goto, handleVars, cgroupVars, childVars
  <1>2. ProtocolTypeOK'
    BY <1>1, PcNames, NoCtxType DEF ProtocolTypeOK
  <1>3. LockInv'
    BY <1>1 DEF ProtocolTypeOK, LockInv
  <1>4. TmpInv'
    BY <1>1 DEF ProtocolTypeOK, TmpInv
  <1>5. PhaseInv'
    BY <1>1 DEF ProtocolTypeOK, PhaseInv, CreatePcs, ExecPcs, SocketPcs, DestroyPcs
  <1>6. OwnerInv'
    BY <1>1 DEF ProtocolTypeOK, OwnerInv, CreatePcs, ExecPcs, SocketPcs, DestroyPcs
  <1>7. HandshakeInv'
    BY <1>1, SMTT(30) DEF ProtocolTypeOK, HandshakeInv, SocketPcs
  <1>8. ContextInv'
    BY <1>1, SMTT(30) DEF ProtocolTypeOK, ContextInv, OwnerInv, HandshakeInv, TmpInv, ExecPcs, SocketPcs
  <1>9. RecordTypeOK'
    <2>1. (pol \in [Callers -> SUBSET Caps])'
      BY Zenon DEF RecordTypeOK, SetupWrite, ExecAborts
    <2> QED BY <2>1, Zenon DEF RecordTypeOK, SetupWrite, handleVars, cgroupVars, bpfVars, callVars, childVars, history
  <1> QED BY <1>2, <1>3, <1>4, <1>5, <1>6, <1>7, <1>8, <1>9, ZenonT(30)

LEMMA CloneStep ==
  ASSUME NEW c \in Callers, IInv, Clone(c)
  PROVE  IInv'
  <1> USE DEF IInv, ProtocolInv, TypeOK
  <1>1. /\ UNCHANGED <<hstate, lock, dir, ctx, bpfLock, sb, tmp, sent>>
        /\ pc[c] = "clone"
        /\ \/ /\ dir[sb[c]] # "absent" /\ child' = [child EXCEPT ![c] = "blocked"]
              /\ (pc' = [pc EXCEPT ![c] = "go"] \/ pc' = [pc EXCEPT ![c] = "finish"])
           \/ pc' = [pc EXCEPT ![c] = "finish"] /\ UNCHANGED child
    BY Zenon DEF Clone, Goto, handleVars, cgroupVars, bpfVars
  <1>2. ProtocolTypeOK'
    BY <1>1, PcNames, NoCtxType DEF ProtocolTypeOK
  <1>3. LockInv'
    BY <1>1, ZenonT(30) DEF ProtocolTypeOK, LockInv
  <1>4. TmpInv'
    BY <1>1, ZenonT(30) DEF ProtocolTypeOK, TmpInv
  <1>5. PhaseInv'
    BY <1>1 DEF ProtocolTypeOK, PhaseInv, CreatePcs, ExecPcs, SocketPcs, DestroyPcs
  <1>6. OwnerInv'
    BY <1>1, SMTT(30) DEF ProtocolTypeOK, OwnerInv, CreatePcs, ExecPcs, SocketPcs, DestroyPcs
  <1>7. HandshakeInv'
    BY <1>1, SMTT(30) DEF ProtocolTypeOK, HandshakeInv, SocketPcs
  <1>8. ContextInv'
    BY <1>1, SMTT(30) DEF ProtocolTypeOK, ContextInv, HandshakeInv
  <1>9. RecordTypeOK'
    <2>1. (killed \in [Callers -> BOOLEAN])'
      BY ZenonT(30) DEF RecordTypeOK, Clone
    <2> QED BY <2>1, Zenon DEF RecordTypeOK, Clone, handleVars, cgroupVars, bpfVars, callVars, childVars, history
  <1> QED BY <1>2, <1>3, <1>4, <1>5, <1>6, <1>7, <1>8, <1>9, ZenonT(30)

LEMMA GoStep ==
  ASSUME NEW c \in Callers, IInv, Go(c)
  PROVE  IInv'
  <1> USE DEF IInv, ProtocolInv, TypeOK
  <1>1. /\ UNCHANGED <<hstate, lock, dir, ctx, bpfLock, sb, tmp, child>>
        /\ pc[c] = "go"
        /\ \/ /\ child[c] # "none" /\ sent' = [sent EXCEPT ![c] = 1]
              /\ pc' = [pc EXCEPT ![c] = "recv"]
           \/ pc' = [pc EXCEPT ![c] = "finish"] /\ UNCHANGED sent
    BY Zenon DEF Go, Goto, handleVars, cgroupVars, bpfVars
  <1>2. ProtocolTypeOK'
    BY <1>1, PcNames, NoCtxType DEF ProtocolTypeOK
  <1>3. LockInv'
    BY <1>1, ZenonT(30) DEF ProtocolTypeOK, LockInv
  <1>4. TmpInv'
    BY <1>1, ZenonT(30) DEF ProtocolTypeOK, TmpInv
  <1>5. PhaseInv'
    BY <1>1 DEF ProtocolTypeOK, PhaseInv, CreatePcs, ExecPcs, SocketPcs, DestroyPcs
  <1>6. OwnerInv'
    BY <1>1 DEF ProtocolTypeOK, OwnerInv, CreatePcs, ExecPcs, SocketPcs, DestroyPcs
  <1>7. HandshakeInv'
    BY <1>1, SMTT(30) DEF ProtocolTypeOK, HandshakeInv, SocketPcs
  <1>8. ContextInv'
    BY <1>1, SMTT(30) DEF ProtocolTypeOK, ContextInv
  <1>9. RecordTypeOK'
    BY Zenon DEF RecordTypeOK, Go, handleVars, cgroupVars, bpfVars, callVars, childVars, history
  <1> QED BY <1>2, <1>3, <1>4, <1>5, <1>6, <1>7, <1>8, <1>9, ZenonT(30)

LEMMA RecvStep ==
  ASSUME NEW c \in Callers, IInv, Recv(c)
  PROVE  IInv'
  <1> USE DEF IInv, ProtocolInv, TypeOK
  <1>1. /\ UNCHANGED <<hstate, lock, dir, ctx, bpfLock, sb, tmp, child, sent>>
        /\ pc[c] = "recv"
        /\ pc' = [pc EXCEPT ![c] = "install"] \/ pc' = [pc EXCEPT ![c] = "finish"]
    BY ZenonT(30) DEF Recv, RecvNext, Goto, handleVars, cgroupVars, bpfVars
  <1>2. ProtocolTypeOK' /\ ProtocolInv'
    BY <1>1, PcMove, Zenon
  <1>9. RecordTypeOK'
    <2>1. (killed \in [Callers -> BOOLEAN])'
      BY ZenonT(30) DEF RecordTypeOK, Recv, KillChild
    <2> QED BY <2>1, Zenon DEF RecordTypeOK, Recv, handleVars, cgroupVars, bpfVars, callVars, childVars, history
  <1> QED BY <1>2, <1>9, Zenon

LEMMA InstallStep ==
  ASSUME NEW c \in Callers, IInv, Install(c)
  PROVE  IInv'
  <1> USE DEF IInv, ProtocolInv, TypeOK
  <1> DEFINE new == PolicyCtx(sb[c], pol[c])
  <1>f. ctx[sb[c]] \in Ctx /\ pol[c] \in SUBSET Caps
    BY Zenon DEF ProtocolTypeOK, RecordTypeOK
  <1>g. ctx[sb[c]].dirty \in BOOLEAN
    BY <1>f, CtxFields, Zenon
  <1>0. new \in Ctx /\ new.present /\ new.enforcing
    BY <1>f, <1>g, ContextType, ZenonT(30) DEF PolicyCtx
  <1>1. /\ UNCHANGED <<hstate, lock, dir, ctx, sb, child, sent>>
        /\ pc[c] = "install"
        /\ \/ /\ bpfLock = {} /\ bpfLock' = {c}
              /\ pc' = [pc EXCEPT ![c] = "swap"]
              /\ tmp' = [tmp EXCEPT ![c] = new]
           \/ pc' = [pc EXCEPT ![c] = "finish"] /\ UNCHANGED <<tmp, bpfLock>>
    BY Zenon DEF Install, ReadCtx, Goto, handleVars, cgroupVars, bpfVars
  <1> HIDE DEF new
  <1>2. ProtocolTypeOK'
    BY <1>1, PcNames, NoCtxType, <1>0 DEF ProtocolTypeOK
  <1>3. LockInv'
    BY <1>1, Zenon DEF ProtocolTypeOK, LockInv
  <1>4. TmpInv'
    BY <1>1, <1>0, ZenonT(30) DEF ProtocolTypeOK, TmpInv
  <1>5. PhaseInv'
    BY <1>1, SMTT(30) DEF ProtocolTypeOK, PhaseInv, CreatePcs, ExecPcs, SocketPcs, DestroyPcs
  <1>6. OwnerInv'
    BY <1>1, SMTT(30) DEF ProtocolTypeOK, OwnerInv, CreatePcs, ExecPcs, SocketPcs, DestroyPcs
  <1>7. HandshakeInv'
    BY <1>1, SMTT(30) DEF ProtocolTypeOK, HandshakeInv, SocketPcs
  <1>8. ContextInv'
    BY <1>1, SMTT(30) DEF ProtocolTypeOK, ContextInv
  <1>9. RecordTypeOK'
    <2>1. (killed \in [Callers -> BOOLEAN])'
      BY ZenonT(30) DEF RecordTypeOK, Install, KillChild
    <2> QED BY <2>1, Zenon DEF RecordTypeOK, Install, handleVars, cgroupVars, bpfVars, callVars, childVars, history
  <1> QED BY <1>2, <1>3, <1>4, <1>5, <1>6, <1>7, <1>8, <1>9, ZenonT(30)

LEMMA SwapStep ==
  ASSUME NEW c \in Callers, IInv, Swap(c)
  PROVE  IInv'
  <1> USE DEF IInv, ProtocolInv, TypeOK
  <1>1. /\ UNCHANGED <<hstate, lock, dir, sb, child, sent>>
        /\ pc[c] = "swap" /\ bpfLock' = {}
        /\ tmp' = [tmp EXCEPT ![c] = NoCtx]
        /\ \/ pc' = [pc EXCEPT ![c] = "release"] /\ ctx' = [ctx EXCEPT ![sb[c]] = tmp[c]]
           \/ pc' = [pc EXCEPT ![c] = "finish"] /\ UNCHANGED ctx
    BY Zenon DEF Swap, WriteCtx, DropTmp, Goto, handleVars, cgroupVars
  <1>2. ProtocolTypeOK'
    BY <1>1, PcNames, NoCtxType DEF ProtocolTypeOK
  <1>3. LockInv'
    BY <1>1 DEF ProtocolTypeOK, LockInv
  <1>4. TmpInv'
    BY <1>1, SMTT(30) DEF ProtocolTypeOK, TmpInv
  <1>5. PhaseInv'
    BY <1>1, SMTT(30) DEF ProtocolTypeOK, PhaseInv, CreatePcs, ExecPcs, SocketPcs, DestroyPcs
  <1>6. OwnerInv'
    BY <1>1, SMTT(30) DEF ProtocolTypeOK, OwnerInv, CreatePcs, ExecPcs, SocketPcs, DestroyPcs
  <1>7. HandshakeInv'
    BY <1>1, SMTT(30) DEF ProtocolTypeOK, HandshakeInv, SocketPcs
  <1>8. ContextInv'
    BY <1>1, SMTT(30) DEF ProtocolTypeOK, ContextInv, TmpInv
  <1>9. RecordTypeOK'
    <2>1. (killed \in [Callers -> BOOLEAN])'
      BY ZenonT(30) DEF RecordTypeOK, Swap, KillChild
    <2> QED BY <2>1, Zenon DEF RecordTypeOK, Swap, handleVars, cgroupVars, bpfVars, callVars, childVars, history
  <1> QED BY <1>2, <1>3, <1>4, <1>5, <1>6, <1>7, <1>8, <1>9, ZenonT(30)

LEMMA ReleaseStep ==
  ASSUME NEW c \in Callers, IInv, Release(c)
  PROVE  IInv'
  <1> USE DEF IInv, ProtocolInv, TypeOK
  <1>1. /\ UNCHANGED <<hstate, lock, dir, ctx, bpfLock, sb, tmp, child>>
        /\ pc[c] = "release"
        /\ \/ /\ child[c] # "none" /\ sent' = [sent EXCEPT ![c] = 2]
              /\ pc' = [pc EXCEPT ![c] = "record"]
           \/ pc' = [pc EXCEPT ![c] = "finish"] /\ UNCHANGED sent
    BY DEF Release, Released, HandshakeInv, Goto, handleVars, cgroupVars, bpfVars
  <1>2. ProtocolTypeOK'
    BY <1>1, PcNames, NoCtxType DEF ProtocolTypeOK
  <1>3. LockInv'
    BY <1>1, ZenonT(30) DEF ProtocolTypeOK, LockInv
  <1>4. TmpInv'
    BY <1>1, Zenon DEF ProtocolTypeOK, TmpInv
  <1>5. PhaseInv'
    BY <1>1, SMTT(30) DEF ProtocolTypeOK, PhaseInv, CreatePcs, ExecPcs, SocketPcs, DestroyPcs
  <1>6. OwnerInv'
    BY <1>1, SMTT(30) DEF ProtocolTypeOK, OwnerInv, CreatePcs, ExecPcs, SocketPcs, DestroyPcs
  <1>7. HandshakeInv'
    BY <1>1, SMTT(30) DEF ProtocolTypeOK, HandshakeInv, SocketPcs
  <1>8. ContextInv'
    BY <1>1, SMTT(30) DEF ProtocolTypeOK, ContextInv
  <1>9. RecordTypeOK'
    BY Zenon DEF RecordTypeOK, Release, handleVars, cgroupVars, bpfVars, callVars, childVars, history
  <1> QED BY <1>2, <1>3, <1>4, <1>5, <1>6, <1>7, <1>8, <1>9, ZenonT(30)

LEMMA RecordStep ==
  ASSUME NEW c \in Callers, IInv, Record(c)
  PROVE  IInv'
  <1> USE DEF IInv, ProtocolInv, TypeOK
  <1>1. /\ UNCHANGED <<hstate, lock, dir, ctx, bpfLock, sb, tmp, child, sent>>
        /\ pc[c] = "record"
        /\ pc' = [pc EXCEPT ![c] = "wait"]
    BY Zenon DEF Record, Goto, cgroupVars, bpfVars, childVars
  <1>2. ProtocolTypeOK' /\ ProtocolInv'
    BY <1>1, PcMove, ZenonT(30)
  <1>9. RecordTypeOK'
    <2>1. (launched \in [Sandboxes -> BOOLEAN])'
      BY ZenonT(30) DEF ProtocolTypeOK, RecordTypeOK, Record
    <2>2. (eff \in [Sandboxes -> SUBSET Caps])'
      BY DEF ProtocolTypeOK, RecordTypeOK, Record
    <2> QED BY <2>1, <2>2, Zenon DEF RecordTypeOK, Record, handleVars, cgroupVars, bpfVars, callVars, childVars, history
  <1> QED BY <1>2, <1>9, ZenonT(30)

LEMMA WaitStep ==
  ASSUME NEW c \in Callers, IInv, Wait(c)
  PROVE  IInv'
  <1> USE DEF IInv, ProtocolInv, TypeOK
  <1>1. /\ UNCHANGED <<hstate, lock, dir, ctx, bpfLock, sb, tmp, child, sent>>
        /\ pc[c] = "wait" /\ child[c] = "none"
        /\ pc' = [pc EXCEPT ![c] = "finish"]
    BY Zenon DEF Wait, Reaped, Goto, handleVars, cgroupVars, bpfVars, childVars
  <1>2. ProtocolTypeOK' /\ ProtocolInv'
    BY <1>1, PcMove, ZenonT(30)
  <1>9. RecordTypeOK'
    BY Zenon DEF RecordTypeOK, Wait, handleVars, cgroupVars, bpfVars, callVars, childVars, history
  <1> QED BY <1>2, <1>9, ZenonT(30)

LEMMA FinishStep ==
  ASSUME NEW c \in Callers, IInv, Finish(c)
  PROVE  IInv'
  <1> USE DEF IInv, ProtocolInv, TypeOK
  <1>1. /\ UNCHANGED <<lock, dir, ctx, bpfLock, sb, tmp, child, sent>>
        /\ pc[c] = "finish" /\ lock = {}
        /\ pc' = [pc EXCEPT ![c] = "idle"]
        /\ \/ hstate[sb[c]] # "Gone" /\ hstate' = [hstate EXCEPT ![sb[c]] = "Ready"]
           \/ UNCHANGED hstate
    BY ZenonT(30) DEF Finish, InRegistry, Goto, cgroupVars, bpfVars
  <1>2. ProtocolTypeOK'
    BY <1>1, PcNames, NoCtxType, Zenon DEF ProtocolTypeOK
  <1>3. LockInv'
    BY <1>1, Zenon DEF ProtocolTypeOK, LockInv
  <1>4. TmpInv'
    BY <1>1, Zenon DEF ProtocolTypeOK, TmpInv
  <1>5. PhaseInv'
    BY <1>1, SMTT(30) DEF ProtocolTypeOK, PhaseInv, OwnerInv, LockInv, CreatePcs, ExecPcs, SocketPcs, DestroyPcs
  <1>6. OwnerInv'
    BY <1>1, ZenonT(30) DEF ProtocolTypeOK, OwnerInv, CreatePcs, ExecPcs, SocketPcs, DestroyPcs
  <1>7. HandshakeInv'
    BY <1>1, ZenonT(30) DEF ProtocolTypeOK, HandshakeInv, SocketPcs
  <1>8. ContextInv'
    BY <1>1, Zenon DEF ProtocolTypeOK, ContextInv
  <1>9. RecordTypeOK'
    BY Zenon DEF RecordTypeOK, Finish, handleVars, cgroupVars, bpfVars, callVars, childVars, history
  <1> QED BY <1>2, <1>3, <1>4, <1>5, <1>6, <1>7, <1>8, <1>9, ZenonT(30)

-----------------------------------------------------------------------------
(* The child and the payload. *)

LEMMA ChildStartStep ==
  ASSUME NEW c \in Callers, IInv, ChildStart(c)
  PROVE  IInv'
  <1> USE DEF IInv, ProtocolInv, TypeOK
  <1>1. /\ UNCHANGED <<hstate, lock, dir, ctx, bpfLock, pc, sb, tmp>>
        /\ child[c] = "blocked"
        /\ \/ child' = [child EXCEPT ![c] = "setup"] /\ UNCHANGED sent
           \/ child' = [child EXCEPT ![c] = "none"] /\ sent' = [sent EXCEPT ![c] = 0]
    BY Zenon DEF ChildStart, ChildMoves, ChildEnds, handleVars, cgroupVars, bpfVars, callVars
  <1>2. ProtocolTypeOK' /\ ProtocolInv'
    <2>1. CASE child' = [child EXCEPT ![c] = "setup"] /\ UNCHANGED sent
      BY <2>1, <1>1, ChildAdvances, ZenonT(30) DEF ProtocolTypeOK
    <2>2. CASE child' = [child EXCEPT ![c] = "none"] /\ sent' = [sent EXCEPT ![c] = 0]
      BY <2>2, <1>1, ChildGone, ZenonT(30) DEF ProtocolTypeOK
    <2> QED BY <2>1, <2>2, <1>1, Zenon
  <1>9. RecordTypeOK'
    <2>1. (reply \in [Callers -> {"none", "ready", "error"}])'
      BY Zenon DEF RecordTypeOK, ChildStart, ChildEnds
    <2>2. (killed \in [Callers -> BOOLEAN])'
      BY ZenonT(30) DEF RecordTypeOK, ChildStart, ChildEnds, ChildMoves
    <2> QED BY <2>1, <2>2, ZenonT(30) DEF RecordTypeOK, ChildStart, handleVars, cgroupVars, bpfVars, callVars, childVars, history
  <1> QED BY <1>2, <1>9, ZenonT(30)

LEMMA ChildMountsStep ==
  ASSUME NEW c \in Callers, IInv, ChildMounts(c)
  PROVE  IInv'
  <1> USE DEF IInv, ProtocolInv, TypeOK
  <1>0. sb[c] \in Sandboxes /\ ctx \in [Sandboxes -> Ctx]
    BY ZenonT(30) DEF ProtocolTypeOK
  <1>1. /\ UNCHANGED <<hstate, lock, dir, bpfLock, pc, sb, tmp>>
        /\ child[c] = "setup"
        /\ \/ child' = [child EXCEPT ![c] = "mounted"] /\ UNCHANGED sent
           \/ child' = [child EXCEPT ![c] = "none"] /\ sent' = [sent EXCEPT ![c] = 0]
    BY Zenon DEF ChildMounts, ChildMoves, ChildEnds, handleVars, cgroupVars, callVars
  <1>1a. ctx' \in [Sandboxes -> Ctx]
    BY <1>0, MarkDirtyKeeps, ZenonT(30) DEF ChildMounts
  <1>1b. \A t \in Sandboxes : ctx'[t].present = ctx[t].present /\ ctx'[t].enforcing = ctx[t].enforcing
    BY <1>0, MarkDirtyKeeps, Zenon DEF ChildMounts
  <1>2. ProtocolTypeOK' /\ ProtocolInv'
    <2>1. CASE child' = [child EXCEPT ![c] = "mounted"] /\ UNCHANGED sent
      BY <2>1, <1>1, <1>1a, <1>1b, ChildAdvances, ZenonT(30)
    <2>2. CASE child' = [child EXCEPT ![c] = "none"] /\ sent' = [sent EXCEPT ![c] = 0]
      BY <2>2, <1>1, <1>1a, <1>1b, ChildGone, ZenonT(30)
    <2> QED BY <2>1, <2>2, <1>1, Zenon
  <1>9. RecordTypeOK'
    <2>1. (reply \in [Callers -> {"none", "ready", "error"}])'
      BY ZenonT(30) DEF RecordTypeOK, ChildMounts, ChildEnds
    <2>2. (killed \in [Callers -> BOOLEAN])'
      BY ZenonT(30) DEF RecordTypeOK, ChildMounts, ChildEnds, ChildMoves
    <2> QED BY <2>1, <2>2, Zenon DEF RecordTypeOK, ChildMounts, handleVars, cgroupVars, bpfVars, callVars, childVars, history
  <1> QED BY <1>2, <1>9, ZenonT(30)

LEMMA ChildReadyStep ==
  ASSUME NEW c \in Callers, IInv, ChildReady(c)
  PROVE  IInv'
  <1> USE DEF IInv, ProtocolInv, TypeOK
  <1>1. /\ UNCHANGED <<hstate, lock, dir, ctx, bpfLock, pc, sb, tmp>>
        /\ child[c] = "mounted"
        /\ \/ child' = [child EXCEPT ![c] = "ready"] /\ UNCHANGED sent
           \/ child' = [child EXCEPT ![c] = "none"] /\ sent' = [sent EXCEPT ![c] = 0]
    BY Zenon DEF ChildReady, ChildMoves, ChildEnds, handleVars, cgroupVars, bpfVars, callVars
  <1>2. ProtocolTypeOK' /\ ProtocolInv'
    <2>1. CASE child' = [child EXCEPT ![c] = "ready"] /\ UNCHANGED sent
      BY <2>1, <1>1, ChildAdvances, ZenonT(30) DEF ProtocolTypeOK
    <2>2. CASE child' = [child EXCEPT ![c] = "none"] /\ sent' = [sent EXCEPT ![c] = 0]
      BY <2>2, <1>1, ChildGone, ZenonT(30) DEF ProtocolTypeOK
    <2> QED BY <2>1, <2>2, <1>1, Zenon
  <1>9. RecordTypeOK'
    <2>1. (reply \in [Callers -> {"none", "ready", "error"}])'
      BY Zenon DEF RecordTypeOK, ChildReady, ChildEnds
    <2>2. (killed \in [Callers -> BOOLEAN])'
      BY ZenonT(30) DEF RecordTypeOK, ChildReady, ChildEnds, ChildMoves
    <2> QED BY <2>1, <2>2, Zenon DEF RecordTypeOK, ChildReady, handleVars, cgroupVars, bpfVars, callVars, childVars, history
  <1> QED BY <1>2, <1>9, ZenonT(30)

LEMMA ChildExecStep ==
  ASSUME NEW c \in Callers, IInv, ChildExec(c)
  PROVE  IInv'
  <1> USE DEF IInv, ProtocolInv, TypeOK
  <1>0. sb[c] \in Sandboxes /\ ctx \in [Sandboxes -> Ctx]
    BY ZenonT(30) DEF ProtocolTypeOK
  <1>1. /\ UNCHANGED <<hstate, lock, dir, bpfLock, pc, sb, tmp>>
        /\ child[c] = "ready"
        /\ \/ sent[c] = 2 /\ child' = [child EXCEPT ![c] = "payload"] /\ UNCHANGED sent
           \/ child' = [child EXCEPT ![c] = "none"] /\ sent' = [sent EXCEPT ![c] = 0]
    BY Zenon DEF ChildExec, ChildMoves, ChildEnds, handleVars, cgroupVars, callVars
  <1>1a. ctx' \in [Sandboxes -> Ctx]
    BY <1>0, MarkDirtyKeeps, Zenon DEF ChildExec
  <1>1b. \A t \in Sandboxes : ctx'[t].present = ctx[t].present /\ ctx'[t].enforcing = ctx[t].enforcing
    BY <1>0, MarkDirtyKeeps, Zenon DEF ChildExec
  <1>2. ProtocolTypeOK' /\ ProtocolInv'
    <2>1. CASE child' = [child EXCEPT ![c] = "payload"] /\ UNCHANGED sent
      BY <2>1, <1>1, <1>1a, <1>1b, ChildAdvances, ZenonT(30)
    <2>2. CASE child' = [child EXCEPT ![c] = "none"] /\ sent' = [sent EXCEPT ![c] = 0]
      BY <2>2, <1>1, <1>1a, <1>1b, ChildGone, ZenonT(30)
    <2> QED BY <2>1, <2>2, <1>1, Zenon
  <1>9. RecordTypeOK'
    <2>1. (reply \in [Callers -> {"none", "ready", "error"}])'
      BY ZenonT(30) DEF RecordTypeOK, ChildExec, ChildEnds
    <2>2. (killed \in [Callers -> BOOLEAN])'
      BY ZenonT(30) DEF RecordTypeOK, ChildExec, ChildEnds, ChildMoves
    <2>3. (ran \in [Sandboxes -> BOOLEAN])'
      BY ZenonT(30) DEF RecordTypeOK, ChildExec
    <2> QED BY <2>1, <2>2, <2>3, ZenonT(30) DEF RecordTypeOK, ChildExec, handleVars, cgroupVars, bpfVars, callVars, childVars, history
  <1> QED BY <1>2, <1>9, ZenonT(30)

LEMMA PayloadOpStep ==
  ASSUME NEW c \in Callers, IInv, PayloadOp(c)
  PROVE  IInv'
  <1> USE DEF IInv, ProtocolInv, TypeOK
  <1>0. sb[c] \in Sandboxes /\ ctx \in [Sandboxes -> Ctx]
    BY ZenonT(30) DEF ProtocolTypeOK
  <1>1. /\ UNCHANGED <<hstate, lock, dir, bpfLock, pc, sb, tmp, child, sent>>
    BY ZenonT(30) DEF PayloadOp, handleVars, cgroupVars, callVars, childVars
  <1>1a. ctx' \in [Sandboxes -> Ctx]
    BY <1>0, MarkDirtyKeeps, Zenon DEF PayloadOp
  <1>1b. \A t \in Sandboxes : ctx'[t].present = ctx[t].present /\ ctx'[t].enforcing = ctx[t].enforcing
    BY <1>0, MarkDirtyKeeps, Zenon DEF PayloadOp
  <1>2. ProtocolTypeOK' /\ ProtocolInv'
    BY <1>1, <1>1a, <1>1b, OnlyDirtyMoves, ZenonT(30)
  <1>9. RecordTypeOK'
    BY ZenonT(30) DEF RecordTypeOK, PayloadOp, handleVars, cgroupVars, bpfVars, callVars, childVars, history
  <1> QED BY <1>2, <1>9, ZenonT(30)

LEMMA PayloadExitStep ==
  ASSUME NEW c \in Callers, IInv, PayloadExit(c)
  PROVE  IInv'
  <1> USE DEF IInv, ProtocolInv, TypeOK
  <1>1. /\ UNCHANGED <<hstate, lock, dir, ctx, bpfLock, pc, sb, tmp>>
        /\ child' = [child EXCEPT ![c] = "none"] /\ sent' = [sent EXCEPT ![c] = 0]
    BY Zenon DEF PayloadExit, ChildEnds, handleVars, cgroupVars, bpfVars, callVars
  <1>2. ProtocolTypeOK' /\ ProtocolInv'
    BY <1>1, ChildGone, ZenonT(30) DEF ProtocolTypeOK
  <1>9. RecordTypeOK'
    <2>1. (reply \in [Callers -> {"none", "ready", "error"}])'
      BY Zenon DEF RecordTypeOK, PayloadExit, ChildEnds
    <2>2. (killed \in [Callers -> BOOLEAN])'
      BY Zenon DEF RecordTypeOK, PayloadExit, ChildEnds, ChildMoves
    <2> QED BY <2>1, <2>2, Zenon DEF RecordTypeOK, PayloadExit, handleVars, cgroupVars, bpfVars, callVars, childVars, history
  <1> QED BY <1>2, <1>9, ZenonT(30)

LEMMA DieStep ==
  ASSUME NEW c \in Callers, IInv, Die(c)
  PROVE  IInv'
  <1> USE DEF IInv, ProtocolInv, TypeOK
  <1>1. /\ UNCHANGED <<hstate, lock, dir, ctx, bpfLock, pc, sb, tmp>>
        /\ child' = [child EXCEPT ![c] = "none"] /\ sent' = [sent EXCEPT ![c] = 0]
    BY Zenon DEF Die, ChildEnds, handleVars, cgroupVars, bpfVars, callVars
  <1>2. ProtocolTypeOK' /\ ProtocolInv'
    BY <1>1, ChildGone, ZenonT(30) DEF ProtocolTypeOK
  <1>9. RecordTypeOK'
    <2>1. (reply \in [Callers -> {"none", "ready", "error"}])'
      BY Zenon DEF RecordTypeOK, Die, ChildEnds
    <2>2. (killed \in [Callers -> BOOLEAN])'
      BY Zenon DEF RecordTypeOK, Die, ChildEnds, ChildMoves
    <2> QED BY <2>1, <2>2, Zenon DEF RecordTypeOK, Die, handleVars, cgroupVars, bpfVars, callVars, childVars, history
  <1> QED BY <1>2, <1>9, ZenonT(30)

-----------------------------------------------------------------------------
(* Turns, capabilities, destroy and the sweep keep the invariant; the lemmas
   are laid out as above. *)

LEMMA BeginTurnStep ==
  ASSUME NEW c \in Callers, NEW s \in Sandboxes, IInv, BeginTurn(c, s)
  PROVE  IInv'
  <1> USE DEF IInv, ProtocolInv, TypeOK
  <1> DEFINE new == Context(ctx[s].enforcing, FALSE, ctx[s].policy)
  <1>f. ctx[s] \in Ctx
    BY Zenon DEF ProtocolTypeOK
  <1>g. ctx[s].enforcing \in BOOLEAN /\ ctx[s].dirty \in BOOLEAN /\ ctx[s].policy \in SUBSET Caps
    BY <1>f, CtxFields, Zenon
  <1>0. new \in Ctx /\ new.present
    BY <1>g, ContextType, ZenonT(30)
  <1>1. /\ UNCHANGED <<hstate, dir, ctx, bpfLock, child, sent>>
        /\ pc[c] = "idle" /\ child[c] = "none" /\ lock = {} /\ lock' = {c}
        /\ hstate[s] \in {"Ready", "Paused"}
        /\ pc' = [pc EXCEPT ![c] = "turn_write"]
        /\ sb' = [sb EXCEPT ![c] = s]
        /\ tmp' = [tmp EXCEPT ![c] = new]
    BY Zenon DEF BeginTurn, TurnAdmits, InRegistry, Call, Goto, ReadCtx, handleVars, cgroupVars, bpfVars, childVars
  <1> HIDE DEF new
  <1>2. ProtocolTypeOK'
    BY <1>1, PcNames, NoCtxType, <1>0, Zenon DEF ProtocolTypeOK
  <1>3. LockInv'
    BY <1>1, Zenon DEF ProtocolTypeOK, LockInv
  <1>4. TmpInv'
    BY <1>1, <1>0, Zenon DEF ProtocolTypeOK, TmpInv
  <1>5. PhaseInv'
    BY <1>1 DEF ProtocolTypeOK, PhaseInv, CreatePcs, ExecPcs, SocketPcs, DestroyPcs
  <1>6. OwnerInv'
    BY <1>1 DEF ProtocolTypeOK, OwnerInv, CreatePcs, ExecPcs, SocketPcs, DestroyPcs
  <1>7. HandshakeInv'
    BY <1>1, Zenon DEF ProtocolTypeOK, HandshakeInv, SocketPcs
  <1>8. ContextInv'
    BY <1>1, Zenon DEF ProtocolTypeOK, ContextInv
  <1>9. RecordTypeOK'
    <2>1. (base \in [Callers -> Int])'
      BY DEF RecordTypeOK, BeginTurn
    <2> QED BY <2>1, Zenon DEF RecordTypeOK, BeginTurn, handleVars, cgroupVars, bpfVars, callVars, childVars, history
  <1> QED BY <1>2, <1>3, <1>4, <1>5, <1>6, <1>7, <1>8, <1>9, ZenonT(30)

LEMMA TurnWriteStep ==
  ASSUME NEW c \in Callers, IInv, TurnWrite(c)
  PROVE  IInv'
  <1> USE DEF IInv, ProtocolInv, TypeOK
  <1>1. /\ UNCHANGED <<hstate, dir, bpfLock, sb, child, sent>>
        /\ pc[c] = "turn_write" /\ lock' = {}
        /\ tmp' = [tmp EXCEPT ![c] = NoCtx]
        /\ pc' = [pc EXCEPT ![c] = "idle"]
        /\ ctx' = [ctx EXCEPT ![sb[c]] = tmp[c]] \/ UNCHANGED ctx
    BY Zenon DEF TurnWrite, WriteCtx, DropTmp, Goto, cgroupVars, childVars
  <1>2. ProtocolTypeOK'
    BY <1>1, PcNames, NoCtxType, Zenon DEF ProtocolTypeOK
  <1>3. LockInv'
    BY <1>1, Zenon DEF ProtocolTypeOK, LockInv
  <1>4. TmpInv'
    BY <1>1, Zenon DEF ProtocolTypeOK, TmpInv
  <1>5. PhaseInv'
    BY <1>1, ZenonT(30) DEF ProtocolTypeOK, PhaseInv, CreatePcs, ExecPcs, SocketPcs, DestroyPcs
  <1>6. OwnerInv'
    BY <1>1, ZenonT(30) DEF ProtocolTypeOK, OwnerInv, CreatePcs, ExecPcs, SocketPcs, DestroyPcs
  <1>7. HandshakeInv'
    BY <1>1, Zenon DEF ProtocolTypeOK, HandshakeInv, SocketPcs
  <1>8. ContextInv'
    BY <1>1, SMTT(30) DEF ProtocolTypeOK, ContextInv, PhaseInv, HandshakeInv, TmpInv, ExecPcs, SocketPcs
  <1>9. RecordTypeOK'
    <2>1. (turn \in [Sandboxes -> Int])'
      BY DEF RecordTypeOK, ProtocolTypeOK, TurnWrite
    <2>2. (base \in [Callers -> Int])'
      <3>1. base \in [Callers -> Int]
        BY Zenon DEF RecordTypeOK
      <3>2. base' = [base EXCEPT ![c] = 0]
        BY Zenon DEF TurnWrite
      <3> QED BY <3>1, <3>2
    <2>3. (ran \in [Sandboxes -> BOOLEAN])'
      BY ZenonT(30) DEF RecordTypeOK, ProtocolTypeOK, TurnWrite
    <2> QED BY <2>1, <2>2, <2>3, Zenon DEF RecordTypeOK, TurnWrite, handleVars, cgroupVars, bpfVars, callVars, childVars, history
  <1> QED BY <1>2, <1>3, <1>4, <1>5, <1>6, <1>7, <1>8, <1>9, ZenonT(30)

LEMMA ApplyCapabilityStep ==
  ASSUME NEW c \in Callers, NEW s \in Sandboxes, NEW next \in SUBSET Caps, IInv,
         ApplyCapability(c, s, next)
  PROVE  IInv'
  <1> USE DEF IInv, ProtocolInv, TypeOK
  <1> DEFINE new == PolicyCtx(s, next)
  <1>0. new \in Ctx /\ new.present /\ new.enforcing
    <2>1. ctx[s] \in Ctx
      BY Zenon DEF ProtocolTypeOK
    <2>2. ctx[s].dirty \in BOOLEAN
      BY <2>1, CtxFields, Zenon
    <2> QED BY <2>2, ContextType, ZenonT(30) DEF PolicyCtx
  <1>1. /\ UNCHANGED <<hstate, dir, ctx, child, sent>>
        /\ pc[c] = "idle" /\ child[c] = "none"
        /\ lock = {} /\ lock' = {c} /\ bpfLock = {} /\ bpfLock' = {c}
        /\ hstate[s] \in {"Ready", "Running", "Paused"}
        /\ pc' = [pc EXCEPT ![c] = "cap_write"]
        /\ sb' = [sb EXCEPT ![c] = s]
        /\ tmp' = [tmp EXCEPT ![c] = new]
    BY Zenon DEF ApplyCapability, InRegistry, Call, Goto, ReadCtx, handleVars, cgroupVars, bpfVars, childVars
  <1> HIDE DEF new
  <1>2. ProtocolTypeOK'
    BY <1>1, PcNames, <1>0, Zenon DEF ProtocolTypeOK
  <1>3. LockInv'
    BY <1>1, Zenon DEF ProtocolTypeOK, LockInv
  <1>4. TmpInv'
    BY <1>1, <1>0, Zenon DEF ProtocolTypeOK, TmpInv
  <1>5. PhaseInv'
    BY <1>1, SMTT(30) DEF ProtocolTypeOK, PhaseInv, CreatePcs, ExecPcs, SocketPcs, DestroyPcs
  <1>6. OwnerInv'
    BY <1>1 DEF ProtocolTypeOK, OwnerInv, CreatePcs, ExecPcs, SocketPcs, DestroyPcs
  <1>7. HandshakeInv'
    BY <1>1, Zenon DEF ProtocolTypeOK, HandshakeInv, SocketPcs
  <1>8. ContextInv'
    BY <1>1, Zenon DEF ProtocolTypeOK, ContextInv
  <1>9. RecordTypeOK'
    <2>1. UNCHANGED <<launched, eff, turn, store, frozen, attached, registered, pol, base, reply, killed, history>>
      BY Zenon DEF ApplyCapability, handleVars, cgroupVars, bpfVars, childVars
    <2> QED BY <2>1, Zenon DEF RecordTypeOK, history
  <1> QED BY <1>2, <1>3, <1>4, <1>5, <1>6, <1>7, <1>8, <1>9, Zenon

LEMMA CapWriteStep ==
  ASSUME NEW c \in Callers, IInv, CapWrite(c)
  PROVE  IInv'
  <1> USE DEF IInv, ProtocolInv, TypeOK
  <1>0. tmp[c].policy \in SUBSET Caps
    BY CtxFields, Zenon DEF ProtocolTypeOK
  <1>1. /\ UNCHANGED <<hstate, dir, sb, child, sent>>
        /\ pc[c] = "cap_write" /\ lock' = {} /\ bpfLock' = {}
        /\ tmp' = [tmp EXCEPT ![c] = NoCtx]
        /\ pc' = [pc EXCEPT ![c] = "idle"]
        /\ ctx' = [ctx EXCEPT ![sb[c]] = tmp[c]] \/ UNCHANGED ctx
    BY Zenon DEF CapWrite, WriteCtx, DropTmp, Goto, cgroupVars, childVars
  <1>2. ProtocolTypeOK'
    BY <1>1, PcNames, NoCtxType, Zenon DEF ProtocolTypeOK
  <1>3. LockInv'
    BY <1>1, Zenon DEF ProtocolTypeOK, LockInv
  <1>4. TmpInv'
    BY <1>1, Zenon DEF ProtocolTypeOK, TmpInv
  <1>5. PhaseInv'
    BY <1>1, SMTT(30) DEF ProtocolTypeOK, PhaseInv, CreatePcs, ExecPcs, SocketPcs, DestroyPcs
  <1>6. OwnerInv'
    BY <1>1, ZenonT(30) DEF ProtocolTypeOK, OwnerInv, CreatePcs, ExecPcs, SocketPcs, DestroyPcs
  <1>7. HandshakeInv'
    BY <1>1, Zenon DEF ProtocolTypeOK, HandshakeInv, SocketPcs
  <1>8. ContextInv'
    BY <1>1, SMTT(30) DEF ProtocolTypeOK, ContextInv, TmpInv
  <1>9. RecordTypeOK'
    <2>1. eff' = eff \/ eff' = [eff EXCEPT ![sb[c]] = tmp[c].policy]
      BY Zenon DEF CapWrite
    <2>2. UNCHANGED <<launched, turn, store, frozen, attached, registered, pol, base, reply, killed, history>>
      BY Zenon DEF CapWrite, cgroupVars, childVars
    <2>3. eff \in [Sandboxes -> SUBSET Caps]
      BY Zenon DEF RecordTypeOK
    <2>4. (eff \in [Sandboxes -> SUBSET Caps])'
      BY <1>0, <2>1, <2>3, Zenon
    <2> QED BY <2>2, <2>4, Zenon DEF RecordTypeOK, history
  <1> QED BY <1>2, <1>3, <1>4, <1>5, <1>6, <1>7, <1>8, <1>9, ZenonT(30)

LEMMA DestroyRemoveStep ==
  ASSUME NEW c \in Callers, NEW s \in Sandboxes, IInv, DestroyRemove(c, s)
  PROVE  IInv'
  <1> USE DEF IInv, ProtocolInv, TypeOK
  <1>1. /\ UNCHANGED <<lock, dir, ctx, bpfLock, tmp, child, sent>>
        /\ pc[c] = "idle" /\ child[c] = "none" /\ lock = {}
        /\ hstate[s] \in {"Ready", "Running", "Paused"}
        /\ hstate' = [hstate EXCEPT ![s] = "Gone"]
        /\ pc' = [pc EXCEPT ![c] = "kill_all"]
        /\ sb' = [sb EXCEPT ![c] = s]
    BY Zenon DEF DestroyRemove, TeardownStart, InRegistry, Call, Goto, cgroupVars, bpfVars, childVars
  <1>2. ProtocolTypeOK'
    BY <1>1, PcNames, NoCtxType, Zenon DEF ProtocolTypeOK
  <1>3. LockInv'
    BY <1>1, Zenon DEF ProtocolTypeOK, LockInv
  <1>4. TmpInv'
    BY <1>1, Zenon DEF ProtocolTypeOK, TmpInv
  <1>5. PhaseInv'
    BY <1>1, SMTT(30) DEF ProtocolTypeOK, PhaseInv, LockInv, CreatePcs, ExecPcs, SocketPcs, DestroyPcs
  <1>6. OwnerInv'
    BY <1>1, SMTT(30) DEF ProtocolTypeOK, OwnerInv, CreatePcs, ExecPcs, SocketPcs, DestroyPcs
  <1>7. HandshakeInv'
    BY <1>1, Zenon DEF ProtocolTypeOK, HandshakeInv, SocketPcs
  <1>8. ContextInv'
    BY <1>1, Zenon DEF ProtocolTypeOK, ContextInv
  <1>9. RecordTypeOK'
    <2>1. (turn \in [Sandboxes -> Int])'
      BY DEF RecordTypeOK, DestroyRemove, NoTurn
    <2> QED BY <2>1, Zenon DEF RecordTypeOK, DestroyRemove, handleVars, cgroupVars, bpfVars, callVars, childVars, history
  <1> QED BY <1>2, <1>3, <1>4, <1>5, <1>6, <1>7, <1>8, <1>9, ZenonT(30)

LEMMA KillAllStep ==
  ASSUME NEW c \in Callers, IInv, KillAll(c)
  PROVE  IInv'
  <1> USE DEF IInv, ProtocolInv, TypeOK
  <1>1. /\ UNCHANGED <<hstate, lock, dir, ctx, bpfLock, sb, tmp, child, sent>>
        /\ pc[c] = "kill_all"
        /\ pc' = [pc EXCEPT ![c] = "wait_empty"] \/ pc' = [pc EXCEPT ![c] = "idle"]
    BY Zenon DEF KillAll, DestroyFails, Goto, handleVars, bpfVars
  <1>2. ProtocolTypeOK' /\ ProtocolInv'
    BY <1>1, PcMove, Zenon
  <1>9. RecordTypeOK'
    <2>1. killed' = killed \/ killed' = [d \in Callers |-> killed[d] \/ d \in Tasks(sb[c])]
      BY Zenon DEF KillAll
    <2>2. attached' = attached \/ attached' = [attached EXCEPT ![sb[c]] = FALSE]
      BY Zenon DEF KillAll, DestroyFails
    <2>3. UNCHANGED <<launched, eff, turn, store, frozen, registered, pol, base, reply, history>>
      BY Zenon DEF KillAll, handleVars, bpfVars
    <2>4. killed \in [Callers -> BOOLEAN] /\ attached \in [Sandboxes -> BOOLEAN]
      BY Zenon DEF RecordTypeOK
    <2>5. (killed \in [Callers -> BOOLEAN])'
      BY <2>1, <2>4, Zenon
    <2>6. (attached \in [Sandboxes -> BOOLEAN])'
      BY <2>2, <2>4, Zenon
    <2> QED BY <2>3, <2>5, <2>6, Zenon DEF RecordTypeOK, history
  <1> QED BY <1>2, <1>9, ZenonT(30)

LEMMA WaitEmptyStep ==
  ASSUME NEW c \in Callers, IInv, WaitEmpty(c)
  PROVE  IInv'
  <1> USE DEF IInv, ProtocolInv, TypeOK
  <1>1. /\ UNCHANGED <<hstate, lock, dir, ctx, bpfLock, sb, tmp, child, sent>>
        /\ pc[c] = "wait_empty"
        /\ pc' = [pc EXCEPT ![c] = "rmdir"] \/ pc' = [pc EXCEPT ![c] = "idle"]
    BY Zenon DEF WaitEmpty, DestroyFails, Goto, handleVars, bpfVars, childVars
  <1>2. ProtocolTypeOK' /\ ProtocolInv'
    BY <1>1, PcMove, Zenon
  <1>9. RecordTypeOK'
    <2>1. attached' = attached \/ attached' = [attached EXCEPT ![sb[c]] = FALSE]
      BY Zenon DEF WaitEmpty, DestroyFails
    <2>2. UNCHANGED <<launched, eff, turn, store, frozen, registered, pol, base, reply, killed, history>>
      BY Zenon DEF WaitEmpty, handleVars, bpfVars, childVars
    <2>3. attached \in [Sandboxes -> BOOLEAN]
      BY Zenon DEF RecordTypeOK
    <2>4. (attached \in [Sandboxes -> BOOLEAN])'
      BY <2>1, <2>3, Zenon
    <2> QED BY <2>2, <2>4, Zenon DEF RecordTypeOK, history
  <1> QED BY <1>2, <1>9, ZenonT(30)

LEMMA RmdirStep ==
  ASSUME NEW c \in Callers, IInv, Rmdir(c)
  PROVE  IInv'
  <1> USE DEF IInv, ProtocolInv, TypeOK
  <1>1. /\ UNCHANGED <<hstate, lock, ctx, bpfLock, sb, tmp, child, sent>>
        /\ pc[c] = "rmdir"
        /\ \/ /\ pc' = [pc EXCEPT ![c] = "deregister"] /\ dir' = [dir EXCEPT ![sb[c]] = "absent"]
              /\ \A d \in Callers : child[d] # "none" => sb[d] # sb[c]
           \/ pc' = [pc EXCEPT ![c] = "idle"] /\ UNCHANGED dir
    BY Zenon DEF Rmdir, Tasks, DestroyFails, Goto, handleVars, bpfVars, childVars
  <1>2. ProtocolTypeOK'
    BY <1>1, PcNames, NoCtxType, SMTT(30) DEF ProtocolTypeOK
  <1>3. LockInv'
    BY <1>1 DEF ProtocolTypeOK, LockInv
  <1>4. TmpInv'
    BY <1>1 DEF ProtocolTypeOK, TmpInv
  <1>5. PhaseInv'
    BY <1>1, SMTT(30) DEF ProtocolTypeOK, PhaseInv, CreatePcs, ExecPcs, SocketPcs, DestroyPcs
  <1>6. OwnerInv'
    BY <1>1, SMTT(30) DEF ProtocolTypeOK, OwnerInv, CreatePcs, ExecPcs, SocketPcs, DestroyPcs
  <1>7. HandshakeInv'
    BY <1>1, ZenonT(30) DEF ProtocolTypeOK, HandshakeInv, SocketPcs
  <1>8. ContextInv'
    BY <1>1, SMTT(30) DEF ProtocolTypeOK, ContextInv
  <1>9. RecordTypeOK'
    <2>1. attached' = attached \/ attached' = [attached EXCEPT ![sb[c]] = FALSE]
      BY Zenon DEF Rmdir, DestroyFails
    <2>2. UNCHANGED <<launched, eff, turn, store, frozen, registered, pol, base, reply, killed, history>>
      BY Zenon DEF Rmdir, handleVars, bpfVars, childVars
    <2>3. attached \in [Sandboxes -> BOOLEAN]
      BY Zenon DEF RecordTypeOK
    <2>4. (attached \in [Sandboxes -> BOOLEAN])'
      BY <2>1, <2>3, Zenon
    <2> QED BY <2>2, <2>4, Zenon DEF RecordTypeOK, history
  <1> QED BY <1>2, <1>3, <1>4, <1>5, <1>6, <1>7, <1>8, <1>9, ZenonT(30)

LEMMA DeregisterStep ==
  ASSUME NEW c \in Callers, IInv, Deregister(c)
  PROVE  IInv'
  <1> USE DEF IInv, ProtocolInv, TypeOK
  <1>0. sb[c] \in Sandboxes /\ ctx \in [Sandboxes -> Ctx]
    BY ZenonT(30) DEF ProtocolTypeOK
  <1>1. /\ UNCHANGED <<hstate, lock, dir, bpfLock, sb, tmp, child, sent>>
        /\ pc[c] = "deregister"
        /\ pc' = [pc EXCEPT ![c] = "idle"]
        /\ ctx' \in [Sandboxes -> Ctx]
        /\ \A t \in Sandboxes \ {sb[c]} : ctx'[t] = ctx[t]
    BY <1>0, DeregisterKeeps, Zenon DEF Deregister, Goto, handleVars, cgroupVars, childVars
  <1>2. ProtocolTypeOK'
    BY <1>1, PcNames, NoCtxType, Zenon DEF ProtocolTypeOK
  <1>3. LockInv'
    BY <1>1, Zenon DEF ProtocolTypeOK, LockInv
  <1>4. TmpInv'
    BY <1>1, Zenon DEF ProtocolTypeOK, TmpInv
  <1>5. PhaseInv'
    BY <1>1, SMTT(30) DEF ProtocolTypeOK, PhaseInv, CreatePcs, ExecPcs, SocketPcs, DestroyPcs
  <1>6. OwnerInv'
    BY <1>1, ZenonT(30) DEF ProtocolTypeOK, OwnerInv, CreatePcs, ExecPcs, SocketPcs, DestroyPcs
  <1>7. HandshakeInv'
    BY <1>1, ZenonT(30) DEF ProtocolTypeOK, HandshakeInv, SocketPcs
  <1>8. ContextInv'
    BY <1>1, Zenon DEF ProtocolTypeOK, ContextInv
  <1>9. RecordTypeOK'
    <2>1. /\ attached' = [attached EXCEPT ![sb[c]] = FALSE]
          /\ registered' = [registered EXCEPT ![sb[c]] = FALSE]
      BY Zenon DEF Deregister, DeregisterCtx
    <2>2. UNCHANGED <<launched, eff, turn, store, frozen, pol, base, reply, killed, history>>
      BY Zenon DEF Deregister, handleVars, childVars
    <2>3. attached \in [Sandboxes -> BOOLEAN] /\ registered \in [Sandboxes -> BOOLEAN]
      BY Zenon DEF RecordTypeOK
    <2>4. (attached \in [Sandboxes -> BOOLEAN])' /\ (registered \in [Sandboxes -> BOOLEAN])'
      BY <2>1, <2>3, Zenon
    <2> QED BY <2>2, <2>4, Zenon DEF RecordTypeOK, history
  <1> QED BY <1>2, <1>3, <1>4, <1>5, <1>6, <1>7, <1>8, <1>9, ZenonT(30)

LEMMA EndTurnStep ==
  ASSUME NEW s \in Sandboxes, IInv, EndTurn(s)
  PROVE  IInv'
  <1> USE DEF IInv, ProtocolInv, TypeOK
  <1>1. /\ UNCHANGED <<hstate, lock, dir, ctx, bpfLock, pc, sb, tmp, child, sent>>
    BY Zenon DEF EndTurn, cgroupVars, bpfVars, callVars, childVars
  <1>2. ProtocolTypeOK' /\ ProtocolInv'
    BY <1>1, OnlyDirtyMoves, Zenon DEF ProtocolTypeOK
  <1>9. RecordTypeOK'
    <2>1. (outcome \in [Sandboxes -> {"clean", "dirty", "error"}])'
      BY Zenon DEF RecordTypeOK, EndTurn, TurnOutcomes
    <2>2. (turn \in [Sandboxes -> Int])'
      BY DEF RecordTypeOK, EndTurn, NoTurn
    <2>3. (acted \in [Sandboxes -> BOOLEAN])'
      BY Zenon DEF RecordTypeOK, EndTurn
    <2> QED BY <2>1, <2>2, <2>3, Zenon DEF RecordTypeOK, EndTurn, handleVars, cgroupVars, bpfVars, callVars, childVars, history
  <1> QED BY <1>2, <1>9, ZenonT(30)

LEMMA FreezeSettlesStep ==
  ASSUME NEW s \in Sandboxes, IInv, FreezeSettles(s)
  PROVE  IInv'
  <1> USE DEF IInv, ProtocolInv, TypeOK
  <1>1. /\ UNCHANGED <<hstate, lock, dir, ctx, bpfLock, pc, sb, tmp, child, sent>>
    BY Zenon DEF FreezeSettles, handleVars, bpfVars, callVars, childVars
  <1>2. ProtocolTypeOK' /\ ProtocolInv'
    BY <1>1, OnlyDirtyMoves, ZenonT(30) DEF ProtocolTypeOK
  <1>9. RecordTypeOK'
    BY Zenon DEF RecordTypeOK, FreezeSettles, handleVars, cgroupVars, bpfVars, callVars, childVars, history
  <1> QED BY <1>2, <1>9, ZenonT(30)

LEMMA RegisterPolicyStep ==
  ASSUME NEW p \in Policies, IInv, RegisterPolicy(p)
  PROVE  IInv'
  <1> USE DEF IInv, ProtocolInv, TypeOK
  <1>1. /\ UNCHANGED <<hstate, lock, dir, ctx, bpfLock, pc, sb, tmp, child, sent>>
    BY Zenon DEF RegisterPolicy, handleVars, cgroupVars, bpfVars, callVars, childVars
  <1>2. ProtocolTypeOK' /\ ProtocolInv'
    BY <1>1, OnlyDirtyMoves, Zenon DEF ProtocolTypeOK
  <1>9. RecordTypeOK'
    BY Zenon DEF RecordTypeOK, RegisterPolicy, handleVars, cgroupVars, bpfVars, callVars, childVars, history
  <1> QED BY <1>2, <1>9, ZenonT(30)

LEMMA AgeStep ==
  ASSUME NEW s \in Sandboxes, IInv, Age(s)
  PROVE  IInv'
  <1> USE DEF IInv, ProtocolInv, TypeOK
  <1>1. /\ UNCHANGED <<hstate, lock, ctx, bpfLock, pc, sb, tmp, child, sent>>
        /\ dir[s] = "young"
        /\ dir' = [dir EXCEPT ![s] = "old"]
    BY Zenon DEF Age, handleVars, bpfVars, callVars, childVars
  <1>2. ProtocolTypeOK'
    BY <1>1, PcNames, NoCtxType, Zenon DEF ProtocolTypeOK
  <1>3. LockInv'
    BY <1>1, Zenon DEF ProtocolTypeOK, LockInv
  <1>4. TmpInv'
    BY <1>1, Zenon DEF ProtocolTypeOK, TmpInv
  <1>5. PhaseInv'
    BY <1>1, Zenon DEF ProtocolTypeOK, PhaseInv, CreatePcs, ExecPcs, SocketPcs, DestroyPcs
  <1>6. OwnerInv'
    BY <1>1, ZenonT(30) DEF ProtocolTypeOK, OwnerInv, CreatePcs, ExecPcs, SocketPcs, DestroyPcs
  <1>7. HandshakeInv'
    BY <1>1, Zenon DEF ProtocolTypeOK, HandshakeInv, SocketPcs
  <1>8. ContextInv'
    BY <1>1, Zenon DEF ProtocolTypeOK, ContextInv
  <1>9. RecordTypeOK'
    BY Zenon DEF RecordTypeOK, Age, handleVars, cgroupVars, bpfVars, callVars, childVars, history
  <1> QED BY <1>2, <1>3, <1>4, <1>5, <1>6, <1>7, <1>8, <1>9, ZenonT(30)

LEMMA SweepStep ==
  ASSUME NEW s \in Sandboxes, IInv, Sweep(s)
  PROVE  IInv'
  <1> USE DEF IInv, ProtocolInv, TypeOK
  <1>1. /\ UNCHANGED <<hstate, lock, ctx, bpfLock, pc, sb, tmp, child, sent>>
        /\ dir' = [dir EXCEPT ![s] = "absent"]
        /\ \A c \in Callers : child[c] # "none" => sb[c] # s
    BY ZenonT(30) DEF Sweep, Tasks, handleVars, bpfVars, callVars, childVars
  <1>2. ProtocolTypeOK'
    BY <1>1, PcNames, NoCtxType, Zenon DEF ProtocolTypeOK
  <1>3. LockInv'
    BY <1>1, Zenon DEF ProtocolTypeOK, LockInv
  <1>4. TmpInv'
    BY <1>1, Zenon DEF ProtocolTypeOK, TmpInv
  <1>5. PhaseInv'
    BY <1>1, Zenon DEF ProtocolTypeOK, PhaseInv, CreatePcs, ExecPcs, SocketPcs, DestroyPcs
  <1>6. OwnerInv'
    BY <1>1, Zenon DEF ProtocolTypeOK, OwnerInv, CreatePcs, ExecPcs, SocketPcs, DestroyPcs
  <1>7. HandshakeInv'
    BY <1>1, Zenon DEF ProtocolTypeOK, HandshakeInv, SocketPcs
  <1>8. ContextInv'
    BY <1>1, Zenon DEF ProtocolTypeOK, ContextInv
  <1>9. RecordTypeOK'
    BY Zenon DEF RecordTypeOK, Sweep, handleVars, cgroupVars, bpfVars, callVars, childVars, history
  <1> QED BY <1>2, <1>3, <1>4, <1>5, <1>6, <1>7, <1>8, <1>9, ZenonT(30)

-----------------------------------------------------------------------------
(* The induction. *)

LEMMA InitIInv == Init => IInv
  <1> SUFFICES ASSUME Init PROVE IInv
    BY Zenon
  <1> USE DEF Init
  <1>1. ProtocolTypeOK
    BY ConstantsAssumption, PcNames, NoCtxType, SMTT(30) DEF ProtocolTypeOK
  <1>2. RecordTypeOK
    BY ConstantsAssumption, SMTT(30) DEF RecordTypeOK, NoTurn
  <1>3. LockInv /\ TmpInv
    BY Zenon DEF LockInv, TmpInv
  <1>4. PhaseInv /\ OwnerInv
    BY Zenon DEF PhaseInv, OwnerInv, CreatePcs, ExecPcs, SocketPcs, DestroyPcs
  <1>5. HandshakeInv /\ ContextInv
    BY SMTT(30) DEF HandshakeInv, ContextInv, SocketPcs
  <1> QED BY <1>1, <1>2, <1>3, <1>4, <1>5, Zenon DEF IInv, ProtocolInv, TypeOK

LEMMA StutterStep ==
  ASSUME IInv, UNCHANGED vars
  PROVE  IInv'
  <1>1. UNCHANGED <<hstate, lock, dir, ctx, bpfLock, pc, sb, tmp, child, sent>>
    BY Zenon DEF vars, handleVars, cgroupVars, bpfVars, callVars, childVars
  <1>2. ProtocolTypeOK' /\ ProtocolInv'
    BY <1>1, OnlyDirtyMoves, Zenon DEF IInv, TypeOK, ProtocolTypeOK
  <1>3. RecordTypeOK'
    BY Zenon DEF IInv, TypeOK, RecordTypeOK, vars, handleVars, cgroupVars, bpfVars, callVars, childVars, history
  <1> QED BY <1>2, <1>3, Zenon DEF IInv, TypeOK

\* Every step of the system keeps the inductive invariant: one case per action.
LEMMA NextIInv ==
  ASSUME "pause" \notin Ops, IInv, [Next]_vars
  PROVE  IInv'
  <1>1. ASSUME NEW c \in Callers, CallStep(c) PROVE IInv'
    BY <1>1, CreateApplyStep, CreateRegisterStep, CreateAttachStep, CreateInsertStep, SetupReadStep,
       SetupWriteStep, CloneStep, GoStep, RecvStep, InstallStep, SwapStep, ReleaseStep, RecordStep,
       WaitStep, FinishStep, TurnWriteStep, CapWriteStep, KillAllStep, WaitEmptyStep, RmdirStep,
       DeregisterStep, Zenon DEF CallStep
  <1>2. ASSUME NEW c \in Callers, \/ ChildStep(c) \/ PayloadOp(c) \/ PayloadExit(c) \/ Die(c)
        PROVE  IInv'
    BY <1>2, ChildStartStep, ChildMountsStep, ChildReadyStep, ChildExecStep, PayloadOpStep,
       PayloadExitStep, DieStep, Zenon DEF ChildStep
  <1>3. ASSUME NEW c \in Callers, NEW s \in Sandboxes, CallStart(c, s) PROVE IInv'
    <2>1. CASE CreateCgroup(c, s) \/ ExecBegin(c, s) \/ DestroyRemove(c, s) \/ BeginTurn(c, s)
      BY <2>1, CreateCgroupStep, ExecBeginStep, DestroyRemoveStep, BeginTurnStep, Zenon
    <2>2. ASSUME NEW cap \in Caps, Grant(c, s, cap) \/ Revoke(c, s, cap) PROVE IInv'
      <3>1. eff[s] \cup {cap} \in SUBSET Caps /\ eff[s] \ {cap} \in SUBSET Caps
        BY Zenon DEF IInv, TypeOK, RecordTypeOK
      <3>2. CASE Grant(c, s, cap)
        BY <3>1, <3>2, ApplyCapabilityStep, Zenon DEF Grant
      <3>3. CASE Revoke(c, s, cap)
        BY <3>1, <3>3, ApplyCapabilityStep, Zenon DEF Revoke
      <3> QED BY <2>2, <3>2, <3>3, Zenon
    <2> QED BY <1>3, <2>1, <2>2, Zenon DEF CallStart
  <1>4. ASSUME NEW s \in Sandboxes,
               EndTurn(s) \/ Pause(s) \/ Resume(s) \/ FreezeSettles(s) \/ Age(s) \/ Sweep(s)
        PROVE  IInv'
    <2>1. ~Pause(s) /\ ~Resume(s)
      BY Zenon DEF Pause, Resume
    <2> QED BY <1>4, <2>1, EndTurnStep, FreezeSettlesStep, AgeStep, SweepStep, Zenon
  <1>5. ASSUME NEW p \in Policies, RegisterPolicy(p) PROVE IInv'
    BY <1>5, RegisterPolicyStep, Zenon
  <1>6. CASE UNCHANGED vars
    BY <1>6, StutterStep, Zenon
  <1> QED BY <1>1, <1>2, <1>3, <1>4, <1>5, <1>6, Zenon DEF Next

\* The induction: without pause, IInv holds in every reachable state.
LEMMA Inductive ==
  ASSUME "pause" \notin Ops
  PROVE  Spec => []IInv
  <1>1. Init => IInv
    BY InitIInv, Zenon
  <1>2. IInv /\ [Next]_vars => IInv'
    BY NextIInv, Zenon
  <1> QED BY <1>1, <1>2, PTL DEF Spec

\* create, exec, destroy, begin_turn, end_turn, grant, revoke and the sweep keep
\* every variable of the manager, the kernel and the child in its type.
THEOREM TypeCorrect ==
  ASSUME "pause" \notin Ops
  PROVE  Spec => []TypeOK
  <1>1. IInv => TypeOK
    BY Zenon DEF IInv
  <1> QED BY <1>1, Inductive, PTL

\* However many callers launch, destroy, grant and sweep at once, a payload
\* never runs in a sandbox whose kernel context is missing or not enforcing.
THEOREM Confined ==
  ASSUME "pause" \notin Ops
  PROVE  Spec => []PayloadConfined
  <1>1. IInv => PayloadConfined
    BY Zenon DEF IInv, ProtocolInv, HandshakeInv, ContextInv, PayloadConfined
  <1> QED BY <1>1, Inductive, PTL

\* exec's Running guard admits one payload per sandbox, destroy or no destroy.
THEOREM SinglePayload ==
  ASSUME "pause" \notin Ops
  PROVE  Spec => []OnePayload
  <1>1. IInv => OnePayload
    <2> SUFFICES ASSUME IInv, NEW c \in Callers, NEW d \in Callers,
                        child[c] = "payload", child[d] = "payload", sb[c] = sb[d]
                 PROVE  c = d
      BY Zenon DEF OnePayload
    <2>1. sent[c] = 2 /\ sent[d] = 2
      BY Zenon DEF IInv, ProtocolInv, HandshakeInv
    <2>2. pc[c] \in {"record", "wait"} /\ pc[d] \in {"record", "wait"}
      BY <2>1, Zenon DEF IInv, ProtocolInv, HandshakeInv
    <2> QED BY <2>2, Zenon DEF IInv, ProtocolInv, OwnerInv, ExecPcs, SocketPcs
  <1> QED BY <1>1, Inductive, PTL

\* A handle that says Ready has no live payload and no exec under way, so that
\* begin_setup and begin_turn find the quiescent sandbox they require.
THEOREM Quiescent ==
  ASSUME "pause" \notin Ops
  PROVE  Spec => []ReadyMeansQuiescent
  <1>1. IInv => ReadyMeansQuiescent
    <2> SUFFICES ASSUME IInv, NEW s \in Sandboxes, hstate[s] = "Ready"
                 PROVE  /\ Payloads(s) = {}
                        /\ \A c \in Callers : sb[c] = s => pc[c] \notin ExecPcs
      BY Zenon DEF ReadyMeansQuiescent
    <2>1. \A c \in Callers : sb[c] = s => pc[c] \notin ExecPcs
      BY Zenon DEF IInv, ProtocolInv, PhaseInv
    <2>2. \A c \in Callers : child[c] = "payload" => pc[c] \in ExecPcs
      BY Zenon DEF IInv, ProtocolInv, HandshakeInv, ExecPcs, SocketPcs
    <2> QED BY <2>1, <2>2, Zenon DEF Payloads, Tasks
  <1> QED BY <1>1, Inductive, PTL

\* destroy removes the context last and only from an empty cgroup, so a task
\* always has its cgroup and its context.
THEOREM ContextLast ==
  ASSUME "pause" \notin Ops
  PROVE  Spec => []ContextOutlivesTasks
  <1>1. IInv => ContextOutlivesTasks
    BY Zenon DEF IInv, ProtocolInv, ContextInv, ContextOutlivesTasks
  <1> QED BY <1>1, Inductive, PTL
-----------------------------------------------------------------------------
(* What a step does to contexts and payloads. *)

SameContexts ==
  \A t \in Sandboxes : /\ ctx'[t].present = ctx[t].present
                       /\ ctx'[t].enforcing = ctx[t].enforcing
                       /\ ctx'[t].policy = ctx[t].policy
SamePayloads == \A t \in Sandboxes : Payloads(t)' = Payloads(t)

\* The points at which a caller writes the context of its sandbox.
Writers == {"create_register", "create_attach", "setup_write", "swap", "turn_write", "cap_write", "deregister"}

Rewrites(c) ==
  /\ pc[c] \in Writers
  /\ SamePayloads
  /\ \A t \in Sandboxes \ {sb[c]} : ctx'[t] = ctx[t]

Starts(c) ==
  /\ SameContexts
  /\ child'[c] = "payload" /\ sb'[c] = sb[c]
  /\ \A t \in Sandboxes : Payloads(t)' = IF t = sb[c] THEN Payloads(t) \cup {c} ELSE Payloads(t)

Ends(c) ==
  /\ SameContexts
  /\ \A t \in Sandboxes : Payloads(t)' = Payloads(t) \ {c}

Shape ==
  \/ SameContexts /\ SamePayloads
  \/ \E c \in Callers : Rewrites(c) \/ Starts(c) \/ Ends(c)

LEMMA StillShape ==
  ASSUME UNCHANGED <<ctx, child, sb>>
  PROVE  Shape
  BY Zenon DEF Shape, SameContexts, SamePayloads, Payloads, Tasks

\* A call begins in a thread that has no child.
LEMMA CallShape ==
  ASSUME IInv, NEW c \in Callers, NEW s \in Sandboxes, UNCHANGED <<ctx, child>>,
         child[c] = "none", sb' = sb \/ sb' = [sb EXCEPT ![c] = s]
  PROVE  Shape
  <1>1. sb \in [Callers -> Sandboxes]
    BY Zenon DEF IInv, TypeOK, ProtocolTypeOK
  <1>2. SamePayloads
    BY <1>1, Zenon DEF SamePayloads, Payloads, Tasks
  <1> QED BY <1>2, Zenon DEF Shape, SameContexts

LEMMA WriteShape ==
  ASSUME IInv, NEW c \in Callers, UNCHANGED <<child, sb>>, pc[c] \in Writers,
         \A t \in Sandboxes \ {sb[c]} : ctx'[t] = ctx[t]
  PROVE  Shape
  BY Zenon DEF Shape, Rewrites, SamePayloads, Payloads, Tasks

\* A child moves, short of its execve, or ends.
LEMMA ChildShape ==
  ASSUME IInv, NEW c \in Callers, UNCHANGED sb, SameContexts,
         NEW p \in {"none", "blocked", "setup", "mounted", "ready"}, child' = [child EXCEPT ![c] = p]
  PROVE  Shape
  <1>1. child \in [Callers -> {"none", "blocked", "setup", "mounted", "ready", "payload"}]
    BY Zenon DEF IInv, TypeOK, ProtocolTypeOK
  <1>2. \A d \in Callers : child'[d] = IF d = c THEN p ELSE child[d]
    BY <1>1, Zenon
  <1>3. \A t \in Sandboxes : Payloads(t)' = Payloads(t) \ {c}
    BY <1>2, Zenon DEF Payloads, Tasks
  <1> QED BY <1>3, Zenon DEF Shape, Ends

LEMMA StartShape ==
  ASSUME IInv, NEW c \in Callers, UNCHANGED sb, SameContexts, child' = [child EXCEPT ![c] = "payload"]
  PROVE  Shape
  <1>1. child \in [Callers -> {"none", "blocked", "setup", "mounted", "ready", "payload"}]
    BY Zenon DEF IInv, TypeOK, ProtocolTypeOK
  <1>2. \A d \in Callers : child'[d] = IF d = c THEN "payload" ELSE child[d]
    BY <1>1, Zenon
  <1>3. \A t \in Sandboxes : Payloads(t)' = IF t = sb[c] THEN Payloads(t) \cup {c} ELSE Payloads(t)
    BY <1>2 DEF Payloads, Tasks
  <1> QED BY <1>2, <1>3, Zenon DEF Shape, Starts

LEMMA CallStepShape ==
  ASSUME IInv, NEW c \in Callers, CallStep(c)
  PROVE  Shape
  <1> USE DEF bpfVars, callVars, childVars, handleVars
  <1>1. CASE \/ CreateApply(c) \/ CreateInsert(c) \/ SetupRead(c) \/ Go(c) \/ Recv(c) \/ Install(c)
             \/ Release(c) \/ Record(c) \/ Wait(c) \/ Finish(c) \/ KillAll(c) \/ WaitEmpty(c) \/ Rmdir(c)
    <2>1. UNCHANGED <<ctx, child, sb>>
      BY <1>1, Zenon DEF CreateApply, CreateInsert, SetupRead, Go, Recv, Install, Release, Record, Wait,
                  Finish, KillAll, WaitEmpty, Rmdir
    <2> QED BY <2>1, StillShape, Zenon
  <1>2. CASE \/ CreateRegister(c) \/ CreateAttach(c) \/ SetupWrite(c) \/ Swap(c) \/ TurnWrite(c)
             \/ CapWrite(c) \/ Deregister(c)
    <2>1. UNCHANGED <<child, sb>> /\ pc[c] \in Writers
      BY <1>2, Zenon DEF CreateRegister, CreateAttach, SetupWrite, Swap, TurnWrite, CapWrite, Deregister, Writers
    <2>2. ctx' = ctx \/ \E x : ctx' = [ctx EXCEPT ![sb[c]] = x]
      BY <1>2, Zenon DEF CreateRegister, CreateAttach, SetupWrite, Swap, TurnWrite, CapWrite, Deregister,
                  WriteCtx, DeregisterCtx
    <2>3. \A t \in Sandboxes \ {sb[c]} : ctx'[t] = ctx[t]
      BY <2>2, Zenon DEF IInv, TypeOK, ProtocolTypeOK
    <2> QED BY <2>1, <2>3, WriteShape, Zenon
  <1>3. CASE Clone(c)
    <2>1. UNCHANGED <<ctx, sb>> /\ (UNCHANGED child \/ child' = [child EXCEPT ![c] = "blocked"])
      BY <1>3, Zenon DEF Clone
    <2>2. SameContexts
      BY <2>1, Zenon DEF SameContexts
    <2> QED BY <2>1, <2>2, StillShape, ChildShape, Zenon
  <1> QED BY <1>1, <1>2, <1>3, Zenon DEF CallStep

LEMMA ChildStepShape ==
  ASSUME IInv, NEW c \in Callers, ChildStep(c) \/ PayloadOp(c) \/ PayloadExit(c) \/ Die(c)
  PROVE  Shape
  <1> USE DEF bpfVars, callVars, childVars
  <1>t. ctx \in [Sandboxes -> Ctx] /\ sb[c] \in Sandboxes
    BY Zenon DEF IInv, TypeOK, ProtocolTypeOK
  <1>d. MarkDirty(sb[c]) \/ UNCHANGED ctx => SameContexts
    BY <1>t, MarkDirtyKeeps, Zenon DEF SameContexts
  <1>1. CASE ChildStart(c) \/ ChildReady(c) \/ PayloadExit(c) \/ Die(c)
    <2>1. UNCHANGED <<ctx, sb>>
      BY <1>1, Zenon DEF ChildStart, ChildReady, PayloadExit, Die
    <2>2. \E p \in {"none", "blocked", "setup", "mounted", "ready"} : child' = [child EXCEPT ![c] = p]
      BY <1>1, Zenon DEF ChildStart, ChildReady, PayloadExit, Die, ChildMoves, ChildEnds
    <2> QED BY <2>1, <2>2, <1>d, ChildShape, Zenon
  <1>2. CASE ChildMounts(c)
    <2>1. UNCHANGED sb /\ (MarkDirty(sb[c]) \/ UNCHANGED ctx)
      BY <1>2, Zenon DEF ChildMounts
    <2>2. \E p \in {"none", "blocked", "setup", "mounted", "ready"} : child' = [child EXCEPT ![c] = p]
      BY <1>2, Zenon DEF ChildMounts, ChildMoves, ChildEnds
    <2> QED BY <2>1, <2>2, <1>d, ChildShape, Zenon
  <1>3. CASE ChildExec(c)
    <2>1. UNCHANGED sb /\ (MarkDirty(sb[c]) \/ UNCHANGED ctx)
      BY <1>3, Zenon DEF ChildExec
    <2>2. child' = [child EXCEPT ![c] = "payload"] \/ child' = [child EXCEPT ![c] = "none"]
      BY <1>3, Zenon DEF ChildExec, ChildMoves, ChildEnds
    <2> QED BY <2>1, <2>2, <1>d, ChildShape, StartShape, Zenon
  <1>4. CASE PayloadOp(c)
    <2>1. UNCHANGED <<sb, child>> /\ MarkDirty(sb[c])
      BY <1>4, Zenon DEF PayloadOp
    <2>2. SamePayloads
      BY <2>1, Zenon DEF SamePayloads, Payloads, Tasks
    <2> QED BY <2>1, <2>2, <1>d, Zenon DEF Shape
  <1> QED BY <1>1, <1>2, <1>3, <1>4, Zenon DEF ChildStep

\* Every step leaves contexts and payloads alone, rewrites one context, or starts
\* or ends one child.
LEMMA NextShape ==
  ASSUME IInv, [Next]_vars
  PROVE  Shape
  <1> USE DEF bpfVars, callVars, childVars
  <1>1. ASSUME NEW c \in Callers, NEW s \in Sandboxes, CallStart(c, s) PROVE Shape
    <2>1. UNCHANGED <<ctx, child>> /\ child[c] = "none" /\ (sb' = sb \/ sb' = [sb EXCEPT ![c] = s])
      BY <1>1, Zenon DEF CallStart, CreateCgroup, ExecBegin, DestroyRemove, BeginTurn, Grant, Revoke,
                  ApplyCapability, Call
    <2> QED BY <2>1, CallShape, Zenon
  <1>2. ASSUME NEW s \in Sandboxes,
               EndTurn(s) \/ Pause(s) \/ Resume(s) \/ FreezeSettles(s) \/ Age(s) \/ Sweep(s)
        PROVE  Shape
    BY <1>2, StillShape, Zenon DEF EndTurn, Pause, Resume, FreezeSettles, Age, Sweep
  <1>3. ASSUME NEW p \in Policies, RegisterPolicy(p) PROVE Shape
    BY <1>3, StillShape, Zenon DEF RegisterPolicy
  <1>4. CASE UNCHANGED vars
    BY <1>4, StillShape, Zenon DEF vars
  <1> QED BY <1>1, <1>2, <1>3, <1>4, CallStepShape, ChildStepShape, Zenon DEF Next

-----------------------------------------------------------------------------
(* The policy under a payload, and the refinement. *)

\* Whoever is about to write a context other than grant and revoke does so while
\* no payload runs under it.
LEMMA WriterAlone ==
  ASSUME IInv, NEW c \in Callers, pc[c] \in Writers \ {"cap_write"}
  PROVE  Payloads(sb[c]) = {}
  <1> SUFFICES ASSUME NEW d \in Callers, child[d] = "payload", sb[d] = sb[c] PROVE FALSE
    BY Zenon DEF Payloads, Tasks
  <1>1. pc[d] \in {"record", "wait"}
    BY Zenon DEF IInv, ProtocolInv, HandshakeInv
  <1>2. hstate[sb[c]] \in {"Running", "Gone"}
    BY <1>1, Zenon DEF IInv, ProtocolInv, PhaseInv, ExecPcs, SocketPcs
  <1>3. CASE pc[c] \in {"create_register", "create_attach"}
    BY <1>2, <1>3, Zenon DEF IInv, ProtocolInv, PhaseInv, CreatePcs
  <1>4. CASE pc[c] \in {"setup_write", "swap"}
    BY <1>1, <1>4, Zenon DEF IInv, ProtocolInv, OwnerInv, ExecPcs, SocketPcs
  <1>5. CASE pc[c] = "turn_write"
    BY <1>2, <1>5, Zenon DEF IInv, ProtocolInv, PhaseInv
  <1>6. CASE pc[c] = "deregister"
    BY <1>6, Zenon DEF IInv, ProtocolInv, ContextInv
  <1> QED BY <1>3, <1>4, <1>5, <1>6, Zenon DEF Writers

\* While a payload runs, only grant and revoke change the policy it runs under:
\* no relaunch, turn, teardown or failed call of another thread does.
THEOREM PolicyStable ==
  ASSUME "pause" \notin Ops
  PROVE  Spec => PolicyStableUnderPayload
  <1> DEFINE Stable ==
        \A s \in Sandboxes :
          Payloads(s) # {} /\ ctx'[s].policy # ctx[s].policy =>
            \E c \in Callers : pc[c] = "cap_write" /\ sb[c] = s
  <1>1. IInv /\ [Next]_vars => [Stable]_vars
    <2> SUFFICES ASSUME IInv, [Next]_vars, NEW s \in Sandboxes,
                        Payloads(s) # {}, ctx'[s].policy # ctx[s].policy
                 PROVE  \E c \in Callers : pc[c] = "cap_write" /\ sb[c] = s
      BY Zenon
    <2>1. ~SameContexts
      BY Zenon DEF SameContexts
    <2>2. PICK c \in Callers : Rewrites(c)
      BY <2>1, NextShape, Zenon DEF Shape, Starts, Ends
    <2>3. sb[c] = s
      BY <2>2, Zenon DEF Rewrites
    <2>4. pc[c] = "cap_write"
      BY <2>2, <2>3, WriterAlone, Zenon DEF Rewrites
    <2> QED BY <2>3, <2>4, Zenon
  <1> QED BY <1>1, Inductive, PTL DEF Spec, PolicyStableUnderPayload

\* The state of the gate and the payloads behind it, as the mapping computes them.
LEMMA GateStep ==
  ASSUME IInv, IInv', PayloadConfined', OnePayload, OnePayload', [Next]_vars
  PROVE  [Gate!GNext]_(Gate!gvars)
  <1> DEFINE shut(s) == ctx[s].present /\ ctx[s].enforcing
             gate == [s \in Sandboxes |-> IF shut(s) THEN "closed" ELSE "open"]
             running == [s \in Sandboxes |-> Payloads(s)]
  <1>p. \A t \in Sandboxes : \A d \in Payloads(t)' : ctx'[t].present /\ ctx'[t].enforcing
    BY Zenon DEF PayloadConfined, Payloads, Tasks
  <1>o. /\ \A t \in Sandboxes : \A d, e \in Payloads(t) : d = e
        /\ \A t \in Sandboxes : \A d, e \in Payloads(t)' : d = e
    BY Zenon DEF OnePayload, Payloads, Tasks
  <1>s. \A c \in Callers : sb[c] \in Sandboxes
    BY Zenon DEF IInv, TypeOK, ProtocolTypeOK
  <1>n. SameContexts => gate' = gate
    BY Zenon DEF SameContexts
  <1>m. SamePayloads => running' = running
    BY Zenon DEF SamePayloads
  <1>1. CASE SameContexts /\ SamePayloads
    BY <1>1, <1>n, <1>m, Zenon DEF Gate!gvars
  <1>2. ASSUME NEW c \in Callers, Rewrites(c) PROVE [Gate!GNext]_(Gate!gvars)
    <2>0. PICK s \in Sandboxes : s = sb[c]
      BY <1>s, Zenon
    <2>1. running' = running
      BY <1>2, <1>m, <2>0, Zenon DEF Rewrites
    <2>a. \A t \in Sandboxes \ {s} : ctx'[t] = ctx[t]
      BY <1>2, <2>0, Zenon DEF Rewrites
    <2>b. \A t \in Sandboxes \ {s} : gate'[t] = gate[t]
      BY <2>a, Zenon
    <2>2. gate' = [gate EXCEPT ![s] = IF shut(s)' THEN "closed" ELSE "open"]
      BY <2>b, Zenon
    <2>3. CASE shut(s)'
      BY <2>1, <2>2, <2>3, <2>0, Zenon DEF Gate!GNext, Gate!Close
    <2>4. CASE ~shut(s)'
      <3>1. running[s] = {}
        BY <1>2, <1>p, <2>0, <2>4, Zenon DEF Rewrites, SamePayloads
      <3> QED BY <2>1, <2>2, <2>4, <3>1, <2>0, Zenon DEF Gate!GNext, Gate!Open
    <2> QED BY <2>3, <2>4, Zenon
  <1>3. ASSUME NEW c \in Callers, Starts(c) PROVE [Gate!GNext]_(Gate!gvars)
    <2>0. PICK s \in Sandboxes : s = sb[c]
      BY <1>s, ZenonT(30)
    <2>1. gate' = gate
      BY <1>3, <1>n, <2>0, Zenon DEF Starts
    <2>2. \A t \in Sandboxes : Payloads(t)' = IF t = s THEN Payloads(t) \cup {c} ELSE Payloads(t)
      BY <1>3, <2>0, Zenon DEF Starts
    <2>3. Payloads(s)' = {c} /\ (Payloads(s) = {} \/ Payloads(s) = {c})
      BY <2>2, <1>o, <2>0
    <2>4. shut(s)
      BY <1>3, <1>p, <2>0, <2>3, Zenon DEF Starts, SameContexts
    <2>5. CASE Payloads(s) = {c}
      <3>1. SamePayloads
        BY <2>2, <2>5, Zenon DEF SamePayloads
      <3> QED BY <3>1, <2>1, <1>m, Zenon DEF Gate!gvars
    <2>6. CASE Payloads(s) = {}
      <3>1. running' = [running EXCEPT ![s] = {c}]
        BY <2>2, <2>3, Zenon
      <3>2. gate[s] = "closed" /\ running[s] = {}
        BY <2>4, <2>6, <2>0, Zenon
      <3> QED BY <3>1, <3>2, <2>1, <2>0, Zenon DEF Gate!GNext, Gate!Start
    <2> QED BY <2>3, <2>5, <2>6, Zenon
  <1>4. ASSUME NEW c \in Callers, Ends(c) PROVE [Gate!GNext]_(Gate!gvars)
    <2>0. PICK s \in Sandboxes : s = sb[c]
      BY <1>s, ZenonT(30)
    <2>1. gate' = gate
      BY <1>4, <1>n, <2>0, Zenon DEF Ends
    <2>2. \A t \in Sandboxes : Payloads(t)' = Payloads(t) \ {c}
      BY <1>4, <2>0, Zenon DEF Ends
    <2>3. \A t \in Sandboxes \ {s} : c \notin Payloads(t)
      BY <2>0, Zenon DEF Payloads, Tasks
    <2>4. CASE c \in Payloads(s)
      <3>1. Payloads(s)' = {}
        BY <2>2, <2>4, <1>o, <2>0, ZenonT(30)
      <3>a. \A t \in Sandboxes \ {s} : Payloads(t)' = Payloads(t)
        BY <2>2, <2>3, ZenonT(30)
      <3>2. running' = [running EXCEPT ![s] = {}]
        BY <3>1, <3>a, Zenon
      <3> QED BY <3>2, <2>1, <2>0, Zenon DEF Gate!GNext, Gate!Stop
    <2>5. CASE c \notin Payloads(s)
      <3>1. SamePayloads
        BY <2>2, <2>3, <2>5, Zenon DEF SamePayloads
      <3> QED BY <3>1, <2>1, <1>m, ZenonT(30) DEF Gate!gvars
    <2> QED BY <2>4, <2>5, Zenon
  <1> QED BY <1>1, <1>2, <1>3, <1>4, NextShape, Zenon DEF Shape

\* The launch protocol of exec, with its failures and its races against destroy,
\* turns, grants and other launches, implements the gate of Confinement, for any
\* number of callers and sandboxes.
THEOREM ImplementsConfinement ==
  ASSUME "pause" \notin Ops
  PROVE  Spec => RefinesConfinement
  <1>1. Init => Gate!GInit
    BY DEF Init, Gate!GInit, NoCtx, Payloads, Tasks
  <1>2. /\ IInv /\ IInv' /\ PayloadConfined' /\ OnePayload /\ OnePayload' /\ [Next]_vars
        => [Gate!GNext]_(Gate!gvars)
    BY GateStep, Zenon
  <1> QED BY <1>1, <1>2, Inductive, Confined, SinglePayload, PTL DEF Spec, RefinesConfinement, Gate!GSpec
=============================================================================
