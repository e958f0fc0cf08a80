----------------------------- MODULE TurnProofs -----------------------------
(***************************************************************************)
(* Turns, and the policy in the handle, for every set of callers,          *)
(* sandboxes and policies, when no client pauses a sandbox or changes its  *)
(* capabilities: end_turn calls no turn clean in which a payload acted,    *)
(* and the handle of an idle sandbox has the policy that the kernel has.   *)
(***************************************************************************)
EXTENDS SandboxManagerProofs

-----------------------------------------------------------------------------
(* The invariant, beside that of SandboxManagerProofs *)

\* A payload that has acted since begin_turn has left its mark in the context, ...
TurnAt(s) ==
  /\ ran[s] => hstate[s] \notin {"Unborn", "Creating"}
  /\ ran[s] /\ InRegistry(s) /\ ctx[s].present => ctx[s].dirty

\* ... and in every copy of it that is about to be written back.
TurnCall(c) ==
  /\ pc[c] # "cap_write"
  /\ pc[c] \in {"setup_write", "swap"} /\ InRegistry(sb[c]) /\ ran[sb[c]] => tmp[c].dirty

\* As long as nobody destroys its sandbox, a child that has reported ready waits
\* for the second byte: it is neither killed nor gone when the launcher sends it.
ReadyCall(c) ==
  /\ child[c] = "none" => ~killed[c]
  /\ pc[c] \notin SocketPcs \cup {"finish"} => reply[c] = "none"
  /\ pc[c] = "go" => reply[c] = "none" /\ child[c] \in {"blocked", "none"}
  /\ pc[c] \in {"install", "swap", "release"} => reply[c] = "ready"
  /\ pc[c] \in {"go", "recv", "install", "swap", "release"} =>
       /\ reply[c] = "ready" => child[c] \in {"ready", "none"}
       /\ InRegistry(sb[c]) => ~killed[c] /\ (reply[c] = "ready" => child[c] # "none")

\* The kernel has the policy of the handle, or that of the launch which is about
\* to record it there.
HandleAt(s) ==
  /\ launched[s] => hstate[s] \notin {"Unborn", "Creating"}
  /\ InRegistry(s) /\ launched[s] =>
       \/ ctx[s].policy = eff[s]
       \/ \E c \in Callers : sb[c] = s /\ pc[c] \in {"release", "record"}
HandleCall(c) ==
  /\ pc[c] = "swap" => tmp[c].policy = pol[c]
  /\ pc[c] \in {"release", "record"} /\ InRegistry(sb[c]) => ctx[sb[c]].policy = pol[c]
  /\ pc[c] \in {"setup_write", "turn_write"} /\ InRegistry(sb[c]) =>
       tmp[c].policy = ctx[sb[c]].policy

QuietInv ==
  /\ \A s \in Sandboxes : TurnAt(s) /\ HandleAt(s)
  /\ \A c \in Callers : TurnCall(c) /\ ReadyCall(c) /\ HandleCall(c)

\* What a step of one caller leaves alone.
Others(c) ==
  \A d \in Callers \ {c} :
    /\ pc'[d] = pc[d] /\ sb'[d] = sb[d] /\ tmp'[d] = tmp[d] /\ pol'[d] = pol[d]
    /\ child'[d] = child[d] /\ reply'[d] = reply[d] /\ killed'[d] = killed[d]

\* A sandbox that stays in the registry keeps what the handle and the kernel say
\* of its policy, and its mark; none comes back.
Registry ==
  \A t \in Sandboxes :
    /\ InRegistry(t)' => InRegistry(t)
    /\ hstate[t] \notin {"Unborn", "Creating"} => hstate'[t] \notin {"Unborn", "Creating"}
    /\ launched'[t] => launched[t]
    /\ ran'[t] => ran[t]
Contexts ==
  \A t \in Sandboxes : InRegistry(t)' =>
    /\ launched'[t] => eff'[t] = eff[t]
    /\ ctx'[t].policy = ctx[t].policy
    /\ ran'[t] /\ ctx'[t].present => ctx'[t].dirty

\* What the invariant says of another caller's call stays true.
Undisturbed(d) ==
  pc[d] \in {"setup_write", "turn_write", "go", "recv", "install", "swap", "release", "record"} =>
    /\ InRegistry(sb[d])' => InRegistry(sb[d])
    /\ pc[d] \in {"setup_write", "swap"} /\ ran'[sb[d]] => ran[sb[d]]
    /\ pc[d] # "swap" /\ InRegistry(sb[d])' => ctx'[sb[d]].policy = ctx[sb[d]].policy

LEMMA QuietFrom ==
  ASSUME IInv, QuietInv, NEW c \in Callers, Others(c),
         \A s \in Sandboxes : TurnAt(s)' /\ HandleAt(s)',
         TurnCall(c)', ReadyCall(c)', HandleCall(c)',
         \A d \in Callers \ {c} : Undisturbed(d)
  PROVE  QuietInv'
  <1>1. ASSUME NEW d \in Callers \ {c} PROVE TurnCall(d)' /\ ReadyCall(d)' /\ HandleCall(d)'
    <2>1. TurnCall(d) /\ ReadyCall(d) /\ HandleCall(d)
      BY Zenon DEF QuietInv
    <2>2. /\ pc'[d] = pc[d] /\ sb'[d] = sb[d] /\ tmp'[d] = tmp[d] /\ pol'[d] = pol[d]
          /\ child'[d] = child[d] /\ reply'[d] = reply[d] /\ killed'[d] = killed[d]
      BY Zenon DEF Others
    <2>3. pc[d] \in {"setup_write", "turn_write", "go", "recv", "install", "swap", "release", "record"} =>
            /\ InRegistry(sb[d])' => InRegistry(sb[d])
            /\ pc[d] \in {"setup_write", "swap"} /\ ran'[sb[d]] => ran[sb[d]]
            /\ pc[d] # "swap" /\ InRegistry(sb[d])' => ctx'[sb[d]].policy = ctx[sb[d]].policy
      BY Zenon DEF Undisturbed
    <2>4. InRegistry(sb[d])' <=> hstate'[sb[d]] \in {"Ready", "Running", "Paused"}
      BY <2>2, Zenon DEF InRegistry
    <2>5. TurnCall(d)'
      BY <2>1, <2>2, <2>3, <2>4, Zenon DEF TurnCall
    <2>6. ReadyCall(d)'
      BY <2>1, <2>2, <2>3, <2>4, Zenon DEF ReadyCall
    <2>7. HandleCall(d)'
      BY <2>1, <2>2, <2>3, <2>4, ZenonT(30) DEF HandleCall
    <2> QED BY <2>5, <2>6, <2>7, Zenon
  <1> QED BY <1>1, Zenon DEF QuietInv

\* A caller moves and takes nothing away from what its launch has yet to record.
LEMMA QuietStays ==
  ASSUME IInv, QuietInv, NEW c \in Callers, Others(c), Registry, Contexts,
         TurnCall(c)', ReadyCall(c)', HandleCall(c)',
         pc[c] \in {"release", "record"} /\ InRegistry(sb[c]) =>
           pc'[c] \in {"release", "record"} /\ sb'[c] = sb[c]
  PROVE  QuietInv'
  <1>0. \A d \in Callers : sb[d] \in Sandboxes
    BY Zenon DEF IInv, TypeOK, ProtocolTypeOK
  <1>1. ASSUME NEW s \in Sandboxes PROVE TurnAt(s)'
    BY Zenon DEF QuietInv, TurnAt, Registry, Contexts
  <1>2. ASSUME NEW s \in Sandboxes PROVE HandleAt(s)'
    <2>1. HandleAt(s)
      BY Zenon DEF QuietInv
    <2>2. CASE InRegistry(s)' /\ launched'[s]
      <3>1. InRegistry(s) /\ launched[s] /\ ctx'[s].policy = ctx[s].policy /\ eff'[s] = eff[s]
        BY <2>2, Zenon DEF Registry, Contexts
      <3>2. CASE ctx[s].policy = eff[s]
        BY <2>1, <2>2, <3>1, <3>2, Zenon DEF HandleAt, Registry
      <3>3. ASSUME NEW d \in Callers, sb[d] = s, pc[d] \in {"release", "record"} PROVE HandleAt(s)'
        <4>1. sb'[d] = s /\ pc'[d] \in {"release", "record"}
          BY <3>1, <3>3, Zenon DEF Others
        <4> QED BY <2>1, <3>1, <4>1, Zenon DEF HandleAt, Registry
      <3> QED BY <2>1, <3>1, <3>2, <3>3, Zenon DEF HandleAt
    <2>3. CASE ~(InRegistry(s)' /\ launched'[s])
      BY <2>1, <2>3, Zenon DEF HandleAt, Registry
    <2> QED BY <2>2, <2>3, Zenon
  <1>3. ASSUME NEW d \in Callers \ {c} PROVE Undisturbed(d)
    <2>1. PICK s \in Sandboxes : s = sb[d]
      BY <1>0, Zenon
    <2>2. s = sb'[d]
      BY <2>1, Zenon DEF Others
    <2>3. /\ InRegistry(s)' => InRegistry(s)
          /\ ran'[s] => ran[s]
          /\ InRegistry(s)' => ctx'[s].policy = ctx[s].policy
      BY Zenon DEF Registry, Contexts
    <2>4. (InRegistry(sb[d]) <=> InRegistry(s)) /\ (InRegistry(sb[d])' <=> InRegistry(s)')
      BY <2>1, <2>2, Zenon DEF InRegistry
    <2> QED BY <2>1, <2>2, <2>3, <2>4, Zenon DEF Undisturbed
  <1> QED BY <1>1, <1>2, <1>3, QuietFrom, Zenon

\* A child moves: the calls and the handles are as they were.
LEMMA QuietChild ==
  ASSUME IInv, QuietInv, NEW c \in Callers, Others(c),
         UNCHANGED <<hstate, launched, eff, pc, sb, tmp, pol>>,
         \A t \in Sandboxes : ctx'[t].policy = ctx[t].policy,
         \A t \in Sandboxes : TurnAt(t)',
         \A d \in Callers : pc[d] \in {"setup_write", "swap"} /\ ran'[sb[d]] => ran[sb[d]],
         ReadyCall(c)'
  PROVE  QuietInv'
  <1>0. \A d \in Callers : sb[d] \in Sandboxes
    BY Zenon DEF IInv, TypeOK, ProtocolTypeOK
  <1>1. ASSUME NEW s \in Sandboxes PROVE HandleAt(s)'
    <2>1. HandleAt(s) /\ ctx'[s].policy = ctx[s].policy
      BY Zenon DEF QuietInv
    <2> QED BY <2>1, Zenon DEF HandleAt, InRegistry
  <1>2. TurnCall(c)' /\ HandleCall(c)'
    <2>1. TurnCall(c) /\ HandleCall(c) /\ ctx'[sb[c]].policy = ctx[sb[c]].policy
      BY <1>0, Zenon DEF QuietInv
    <2> QED BY <2>1, Zenon DEF TurnCall, HandleCall, InRegistry
  <1>3. ASSUME NEW d \in Callers \ {c} PROVE Undisturbed(d)
    BY <1>0, Zenon DEF Undisturbed, InRegistry
  <1> QED BY <1>1, <1>2, <1>3, QuietFrom, Zenon

\* The hook that marks a context dirty leaves a mark where there is a context.
LEMMA MarkDirtyMarks ==
  ASSUME NEW s \in Sandboxes, ctx \in [Sandboxes -> Ctx], MarkDirty(s)
  PROVE  /\ \A t \in Sandboxes : ctx[t].dirty => ctx'[t].dirty
         /\ ctx[s].present => ctx'[s].dirty
  BY DEF MarkDirty, Context

\* A call that has no child yet, or none any more, moves on.
LEMMA ReadyAway ==
  ASSUME QuietInv, NEW c \in Callers, pc[c] \notin SocketPcs \cup {"finish"},
         pc'[c] \notin {"go", "recv", "install", "swap", "release"},
         child'[c] = child[c], reply'[c] = reply[c], killed'[c] = killed[c]
  PROVE  ReadyCall(c)'
  <1>1. /\ child[c] = "none" => ~killed[c]
        /\ pc[c] \notin SocketPcs \cup {"finish"} => reply[c] = "none"
    BY Zenon DEF QuietInv, ReadyCall
  <1> QED BY <1>1, Zenon DEF ReadyCall

LEMMA CreateCgroupQuiet ==
  ASSUME NEW c \in Callers, NEW s \in Sandboxes, IInv, QuietInv, CreateCgroup(c, s)
  PROVE  QuietInv'
  <1>0. ProtocolTypeOK /\ RecordTypeOK /\ ProtocolInv
    BY Zenon DEF IInv, TypeOK
  <1>1. /\ UNCHANGED <<launched, eff, ctx, tmp, pol, child, reply, killed, ran>>
        /\ pc[c] = "idle" /\ child[c] = "none" /\ hstate[s] = "Unborn"
        /\ pc' = [pc EXCEPT ![c] = "create_apply"]
        /\ sb' = [sb EXCEPT ![c] = s]
        /\ hstate' = [hstate EXCEPT ![s] = "Creating"]
    BY <1>0, Zenon DEF CreateCgroup, Call, Goto, handleVars, cgroupVars, bpfVars, callVars, childVars, history
  <1>2. Others(c)
    BY <1>0, <1>1, ZenonT(30) DEF ProtocolTypeOK, RecordTypeOK, Others
  <1>3. Registry
    BY <1>0, <1>1, Zenon DEF ProtocolTypeOK, RecordTypeOK, Registry, InRegistry
  <1>4. Contexts
    BY <1>0, <1>1, <1>3, Zenon DEF ProtocolTypeOK, RecordTypeOK, Registry, Contexts, QuietInv, TurnAt
  <1>5. TurnCall(c)'
    BY <1>0, <1>1, Zenon DEF ProtocolTypeOK, TurnCall
  <1>6. HandleCall(c)'
    BY <1>0, <1>1, Zenon DEF ProtocolTypeOK, HandleCall
  <1>7. ReadyCall(c)'
    BY <1>0, <1>1, Zenon DEF ProtocolTypeOK, RecordTypeOK, QuietInv, ReadyCall, CreatePcs, ExecPcs, SocketPcs, DestroyPcs
  <1>8. pc[c] \in {"release", "record"} /\ InRegistry(sb[c]) =>
          pc'[c] \in {"release", "record"} /\ sb'[c] = sb[c]
    BY <1>0, <1>1, Zenon DEF ProtocolTypeOK
  <1> QED BY <1>2, <1>3, <1>4, <1>5, <1>6, <1>7, <1>8, QuietStays, Zenon

LEMMA CreateApplyQuiet ==
  ASSUME NEW c \in Callers, IInv, QuietInv, CreateApply(c)
  PROVE  QuietInv'
  <1>0. ProtocolTypeOK /\ RecordTypeOK /\ ProtocolInv
    BY Zenon DEF IInv, TypeOK
  <1>1. /\ UNCHANGED <<launched, eff, ctx, sb, tmp, pol, child, reply, killed, ran>>
        /\ pc[c] = "create_apply"
        /\ \/ pc' = [pc EXCEPT ![c] = "create_register"] /\ UNCHANGED hstate
           \/ pc' = [pc EXCEPT ![c] = "idle"] /\ hstate' = [hstate EXCEPT ![sb[c]] = "Gone"]
    BY <1>0, Zenon DEF CreateApply, CreateFails, Goto, handleVars, cgroupVars, bpfVars, callVars, childVars, history
  <1>2. Others(c)
    BY <1>0, <1>1 DEF ProtocolTypeOK, RecordTypeOK, Others
  <1>3. Registry
    BY <1>0, <1>1 DEF ProtocolTypeOK, RecordTypeOK, Registry, InRegistry
  <1>4. Contexts
    BY <1>0, <1>1, <1>3, Zenon DEF ProtocolTypeOK, RecordTypeOK, Registry, Contexts, QuietInv, TurnAt
  <1>5. TurnCall(c)'
    BY <1>0, <1>1, ZenonT(30) DEF ProtocolTypeOK, TurnCall
  <1>6. HandleCall(c)'
    BY <1>0, <1>1, ZenonT(30) DEF ProtocolTypeOK, HandleCall
  <1>7. ReadyCall(c)'
    <2>1. pc[c] = "create_apply" /\ pc'[c] \in {"create_register", "create_attach", "create_insert", "idle"}
      BY <1>0, <1>1, Zenon DEF ProtocolTypeOK
    <2>2. child'[c] = child[c] /\ reply'[c] = reply[c] /\ killed'[c] = killed[c]
      BY <1>1, Zenon
    <2> QED BY <2>1, <2>2, ReadyAway, Zenon DEF SocketPcs
  <1>8. pc[c] \in {"release", "record"} /\ InRegistry(sb[c]) =>
          pc'[c] \in {"release", "record"} /\ sb'[c] = sb[c]
    BY <1>0, <1>1, ZenonT(30) DEF ProtocolTypeOK
  <1> QED BY <1>2, <1>3, <1>4, <1>5, <1>6, <1>7, <1>8, QuietStays, Zenon

LEMMA CreateRegisterQuiet ==
  ASSUME NEW c \in Callers, IInv, QuietInv, CreateRegister(c)
  PROVE  QuietInv'
  <1>0. ProtocolTypeOK /\ RecordTypeOK /\ ProtocolInv
    BY ZenonT(30) DEF IInv, TypeOK
  <1>1. /\ UNCHANGED <<launched, eff, sb, tmp, pol, child, reply, killed, ran>>
        /\ pc[c] = "create_register"
        /\ \A t \in Sandboxes \ {sb[c]} : ctx'[t] = ctx[t]
        /\ \/ pc' = [pc EXCEPT ![c] = "create_attach"] /\ UNCHANGED hstate
           \/ pc' = [pc EXCEPT ![c] = "idle"] /\ hstate' = [hstate EXCEPT ![sb[c]] = "Gone"]
    BY <1>0, Zenon DEF ProtocolTypeOK, CreateRegister, CreateFails, Goto, handleVars, cgroupVars, bpfVars, callVars, childVars, history
  <1>2. Others(c)
    BY <1>0, <1>1 DEF ProtocolTypeOK, RecordTypeOK, Others
  <1>3. Registry
    BY <1>0, <1>1 DEF ProtocolTypeOK, RecordTypeOK, Registry, InRegistry
  <1>4. Contexts
    BY <1>0, <1>1, <1>3, Zenon DEF ProtocolTypeOK, RecordTypeOK, Registry, Contexts, QuietInv, TurnAt, InRegistry, ProtocolInv, PhaseInv, CreatePcs, ExecPcs, SocketPcs, DestroyPcs
  <1>5. TurnCall(c)'
    BY <1>0, <1>1 DEF ProtocolTypeOK, TurnCall
  <1>6. HandleCall(c)'
    BY <1>0, <1>1, ZenonT(30) DEF ProtocolTypeOK, HandleCall
  <1>7. ReadyCall(c)'
    <2>1. pc[c] = "create_register" /\ pc'[c] \in {"create_register", "create_attach", "create_insert", "idle"}
      BY <1>0, <1>1, Zenon DEF ProtocolTypeOK
    <2>2. child'[c] = child[c] /\ reply'[c] = reply[c] /\ killed'[c] = killed[c]
      BY <1>1, Zenon
    <2> QED BY <2>1, <2>2, ReadyAway, Zenon DEF SocketPcs
  <1>8. pc[c] \in {"release", "record"} /\ InRegistry(sb[c]) =>
          pc'[c] \in {"release", "record"} /\ sb'[c] = sb[c]
    BY <1>0, <1>1, ZenonT(30) DEF ProtocolTypeOK
  <1> QED BY <1>2, <1>3, <1>4, <1>5, <1>6, <1>7, <1>8, QuietStays, ZenonT(30)

LEMMA CreateAttachQuiet ==
  ASSUME NEW c \in Callers, IInv, QuietInv, CreateAttach(c)
  PROVE  QuietInv'
  <1>0. ProtocolTypeOK /\ RecordTypeOK /\ ProtocolInv
    BY ZenonT(30) DEF IInv, TypeOK
  <1>1. /\ UNCHANGED <<launched, eff, sb, tmp, pol, child, reply, killed, ran>>
        /\ pc[c] = "create_attach"
        /\ \A t \in Sandboxes \ {sb[c]} : ctx'[t] = ctx[t]
        /\ \/ pc' = [pc EXCEPT ![c] = "create_insert"] /\ UNCHANGED hstate
           \/ pc' = [pc EXCEPT ![c] = "idle"] /\ hstate' = [hstate EXCEPT ![sb[c]] = "Gone"]
    BY <1>0, Zenon DEF ProtocolTypeOK, CreateAttach, CreateFails, DeregisterCtx, Goto, handleVars, cgroupVars, bpfVars, callVars, childVars, history
  <1>2. Others(c)
    BY <1>0, <1>1 DEF ProtocolTypeOK, RecordTypeOK, Others
  <1>3. Registry
    BY <1>0, <1>1 DEF ProtocolTypeOK, RecordTypeOK, Registry, InRegistry
  <1>4. Contexts
    BY <1>0, <1>1, <1>3, Zenon DEF ProtocolTypeOK, RecordTypeOK, Registry, Contexts, QuietInv, TurnAt, InRegistry, ProtocolInv, PhaseInv, CreatePcs, ExecPcs, SocketPcs, DestroyPcs
  <1>5. TurnCall(c)'
    BY <1>0, <1>1 DEF ProtocolTypeOK, TurnCall
  <1>6. HandleCall(c)'
    BY <1>0, <1>1, ZenonT(30) DEF ProtocolTypeOK, HandleCall
  <1>7. ReadyCall(c)'
    <2>1. pc[c] = "create_attach" /\ pc'[c] \in {"create_register", "create_attach", "create_insert", "idle"}
      BY <1>0, <1>1, Zenon DEF ProtocolTypeOK
    <2>2. child'[c] = child[c] /\ reply'[c] = reply[c] /\ killed'[c] = killed[c]
      BY <1>1, Zenon
    <2> QED BY <2>1, <2>2, ReadyAway, Zenon DEF SocketPcs
  <1>8. pc[c] \in {"release", "record"} /\ InRegistry(sb[c]) =>
          pc'[c] \in {"release", "record"} /\ sb'[c] = sb[c]
    BY <1>0, <1>1, ZenonT(30) DEF ProtocolTypeOK
  <1> QED BY <1>2, <1>3, <1>4, <1>5, <1>6, <1>7, <1>8, QuietStays, ZenonT(30)

LEMMA ExecBeginQuiet ==
  ASSUME NEW c \in Callers, NEW s \in Sandboxes, IInv, QuietInv, ExecBegin(c, s)
  PROVE  QuietInv'
  <1>0. ProtocolTypeOK /\ RecordTypeOK /\ ProtocolInv
    BY ZenonT(30) DEF IInv, TypeOK
  <1>1. /\ UNCHANGED <<launched, eff, ctx, tmp, child, reply, killed, ran>>
        /\ InRegistry(s)
        /\ pc[c] = "idle" /\ child[c] = "none"
        /\ hstate' = [hstate EXCEPT ![s] = "Running"]
        /\ \/ pc' = [pc EXCEPT ![c] = "setup_read"] /\ sb' = [sb EXCEPT ![c] = s] /\ pol' = [pol EXCEPT ![c] = store]
           \/ UNCHANGED <<pc, sb, pol>>
    BY <1>0, Zenon DEF ExecBegin, ExecAdmits, Call, Goto, handleVars, cgroupVars, bpfVars, callVars, childVars, history
  <1>2. Others(c)
    BY <1>0, <1>1 DEF ProtocolTypeOK, RecordTypeOK, Others
  <1>3. Registry
    BY <1>0, <1>1, ZenonT(30) DEF ProtocolTypeOK, RecordTypeOK, Registry, InRegistry
  <1>4. Contexts
    BY <1>0, <1>1, <1>3, Zenon DEF ProtocolTypeOK, RecordTypeOK, Registry, Contexts, QuietInv, TurnAt
  <1>5. TurnCall(c)'
    BY <1>0, <1>1, ZenonT(30) DEF ProtocolTypeOK, TurnCall
  <1>6. HandleCall(c)'
    BY <1>0, <1>1, Zenon DEF ProtocolTypeOK, HandleCall
  <1>7. ReadyCall(c)'
    BY <1>0, <1>1 DEF ProtocolTypeOK, RecordTypeOK, QuietInv, ReadyCall, CreatePcs, ExecPcs, SocketPcs, DestroyPcs
  <1>8. pc[c] \in {"release", "record"} /\ InRegistry(sb[c]) =>
          pc'[c] \in {"release", "record"} /\ sb'[c] = sb[c]
    BY <1>0, <1>1, Zenon DEF ProtocolTypeOK
  <1> QED BY <1>2, <1>3, <1>4, <1>5, <1>6, <1>7, <1>8, QuietStays, ZenonT(30)

LEMMA SetupReadQuiet ==
  ASSUME NEW c \in Callers, IInv, QuietInv, SetupRead(c)
  PROVE  QuietInv'
  <1>0. ProtocolTypeOK /\ RecordTypeOK /\ ProtocolInv
    BY ZenonT(30) DEF IInv, TypeOK
  <1>1. /\ UNCHANGED <<hstate, launched, eff, ctx, sb, child, reply, killed, ran>>
        /\ pc[c] = "setup_read"
        /\ \A d \in Callers \ {c} : pc'[d] = pc[d] /\ tmp'[d] = tmp[d] /\ pol'[d] = pol[d]
        /\ \/ /\ pc'[c] = "setup_write" /\ ctx[sb[c]].present
              /\ tmp'[c] = Context(FALSE, ctx[sb[c]].dirty, ctx[sb[c]].policy)
           \/ pc'[c] = "idle"
    <2>1. /\ UNCHANGED <<hstate, launched, eff, ctx, sb, child, reply, killed, ran>>
          /\ pc[c] = "setup_read"
      BY Zenon DEF SetupRead, handleVars, cgroupVars, bpfVars, childVars, history
    <2>2. CASE /\ ctx[sb[c]].present /\ UNCHANGED pol
               /\ pc' = [pc EXCEPT ![c] = "setup_write"]
               /\ tmp' = [tmp EXCEPT ![c] = Context(FALSE, ctx[sb[c]].dirty, ctx[sb[c]].policy)]
      BY <1>0, <2>1, <2>2, Zenon DEF ProtocolTypeOK
    <2>3. CASE pc' = [pc EXCEPT ![c] = "idle"] /\ pol' = [pol EXCEPT ![c] = {}] /\ UNCHANGED tmp
      BY <1>0, <2>1, <2>3, ZenonT(30) DEF ProtocolTypeOK, RecordTypeOK
    <2> QED BY <2>2, <2>3, Zenon DEF SetupRead, ExecAborts, ReadCtx, Goto
  <1>2. Others(c)
    BY <1>1, Zenon DEF Others
  <1>3. Registry
    BY <1>0, <1>1, Zenon DEF ProtocolTypeOK, RecordTypeOK, Registry, InRegistry
  <1>4. Contexts
    BY <1>0, <1>1, <1>3, Zenon DEF ProtocolTypeOK, RecordTypeOK, Registry, Contexts, QuietInv, TurnAt
  <1>5. TurnCall(c)'
    BY <1>0, <1>1 DEF ProtocolTypeOK, TurnCall, InRegistry, Context, QuietInv, TurnAt
  <1>6. HandleCall(c)'
    BY <1>0, <1>1 DEF ProtocolTypeOK, HandleCall, InRegistry, Context
  <1>7. ReadyCall(c)'
    <2>1. ReadyCall(c)
      BY Zenon DEF QuietInv
    <2> QED BY <1>1, <2>1, Zenon DEF ReadyCall, SocketPcs
  <1>8. pc[c] \in {"release", "record"} /\ InRegistry(sb[c]) =>
          pc'[c] \in {"release", "record"} /\ sb'[c] = sb[c]
    BY <1>0, <1>1, Zenon DEF ProtocolTypeOK
  <1> QED BY <1>2, <1>3, <1>4, <1>5, <1>6, <1>7, <1>8, QuietStays, ZenonT(30)

LEMMA SetupWriteQuiet ==
  ASSUME NEW c \in Callers, IInv, QuietInv, SetupWrite(c)
  PROVE  QuietInv'
  <1>0. ProtocolTypeOK /\ RecordTypeOK /\ ProtocolInv
    BY ZenonT(30) DEF IInv, TypeOK
  <1>1. /\ UNCHANGED <<hstate, launched, eff, sb, child, reply, killed, ran>>
        /\ pc[c] = "setup_write"
        /\ tmp' = [tmp EXCEPT ![c] = NoCtx]
        /\ \/ pc' = [pc EXCEPT ![c] = "clone"] /\ UNCHANGED pol /\ ctx' = [ctx EXCEPT ![sb[c]] = tmp[c]]
           \/ pc' = [pc EXCEPT ![c] = "idle"] /\ pol' = [pol EXCEPT ![c] = {}] /\ UNCHANGED ctx
    BY <1>0, Zenon DEF SetupWrite, ExecAborts, WriteCtx, DropTmp, Goto, handleVars, cgroupVars, bpfVars, callVars, childVars, history
  <1>2. Others(c)
    BY <1>0, <1>1 DEF ProtocolTypeOK, RecordTypeOK, Others
  <1>3. Registry
    BY <1>0, <1>1, Zenon DEF ProtocolTypeOK, RecordTypeOK, Registry, InRegistry
  <1>4. Contexts
    <2> SUFFICES ASSUME NEW t \in Sandboxes, InRegistry(t)'
                 PROVE  /\ ctx'[t].policy = ctx[t].policy
                        /\ ran'[t] /\ ctx'[t].present => ctx'[t].dirty
      BY <1>1, Zenon DEF Contexts
    <2>1. InRegistry(t) /\ TurnAt(t) /\ TurnCall(c) /\ HandleCall(c)
      BY <1>3, Zenon DEF Registry, QuietInv
    <2>2. CASE ctx'[t] = ctx[t]
      BY <1>1, <2>1, <2>2, Zenon DEF TurnAt
    <2>3. CASE t = sb[c] /\ ctx'[t] = tmp[c]
      BY <1>1, <2>1, <2>3, Zenon DEF TurnCall, HandleCall
    <2> QED BY <1>0, <1>1, <2>2, <2>3, Zenon DEF ProtocolTypeOK
  <1>5. TurnCall(c)'
    BY <1>0, <1>1, ZenonT(30) DEF ProtocolTypeOK, TurnCall
  <1>6. HandleCall(c)'
    BY <1>0, <1>1, Zenon DEF ProtocolTypeOK, HandleCall
  <1>7. ReadyCall(c)'
    BY <1>0, <1>1 DEF ProtocolTypeOK, RecordTypeOK, QuietInv, ReadyCall, CreatePcs, ExecPcs, SocketPcs, DestroyPcs
  <1>8. pc[c] \in {"release", "record"} /\ InRegistry(sb[c]) =>
          pc'[c] \in {"release", "record"} /\ sb'[c] = sb[c]
    BY <1>0, <1>1, Zenon DEF ProtocolTypeOK
  <1> QED BY <1>2, <1>3, <1>4, <1>5, <1>6, <1>7, <1>8, QuietStays, ZenonT(30)

LEMMA CloneQuiet ==
  ASSUME NEW c \in Callers, IInv, QuietInv, Clone(c)
  PROVE  QuietInv'
  <1>0. ProtocolTypeOK /\ RecordTypeOK /\ ProtocolInv
    BY ZenonT(30) DEF IInv, TypeOK
  <1>1. /\ UNCHANGED <<hstate, launched, eff, ctx, sb, tmp, pol, reply, ran>>
        /\ pc[c] = "clone"
        /\ \/ pc' = [pc EXCEPT ![c] = "go"] /\ child' = [child EXCEPT ![c] = "blocked"] /\ UNCHANGED killed
           \/ pc' = [pc EXCEPT ![c] = "finish"] /\ child' = [child EXCEPT ![c] = "blocked"] /\ killed' = [killed EXCEPT ![c] = TRUE]
           \/ pc' = [pc EXCEPT ![c] = "finish"] /\ UNCHANGED <<child, killed>>
    BY <1>0, Zenon DEF Clone, Goto, handleVars, cgroupVars, bpfVars, callVars, childVars, history
  <1>2. Others(c)
    BY <1>0, <1>1 DEF ProtocolTypeOK, RecordTypeOK, Others
  <1>3. Registry
    BY <1>0, <1>1, Zenon DEF ProtocolTypeOK, RecordTypeOK, Registry, InRegistry
  <1>4. Contexts
    BY <1>0, <1>1, <1>3, Zenon DEF ProtocolTypeOK, RecordTypeOK, Registry, Contexts, QuietInv, TurnAt
  <1>5. TurnCall(c)'
    BY <1>0, <1>1 DEF ProtocolTypeOK, TurnCall
  <1>6. HandleCall(c)'
    BY <1>0, <1>1, ZenonT(30) DEF ProtocolTypeOK, HandleCall
  <1>7. ReadyCall(c)'
    BY <1>0, <1>1 DEF ProtocolTypeOK, RecordTypeOK, QuietInv, ReadyCall, CreatePcs, ExecPcs, SocketPcs, DestroyPcs, ProtocolInv, HandshakeInv
  <1>8. pc[c] \in {"release", "record"} /\ InRegistry(sb[c]) =>
          pc'[c] \in {"release", "record"} /\ sb'[c] = sb[c]
    BY <1>0, <1>1, Zenon DEF ProtocolTypeOK
  <1> QED BY <1>2, <1>3, <1>4, <1>5, <1>6, <1>7, <1>8, QuietStays, ZenonT(30)

LEMMA GoQuiet ==
  ASSUME NEW c \in Callers, IInv, QuietInv, Go(c)
  PROVE  QuietInv'
  <1>0. ProtocolTypeOK /\ RecordTypeOK /\ ProtocolInv
    BY ZenonT(30) DEF IInv, TypeOK
  <1>1. /\ UNCHANGED <<hstate, launched, eff, ctx, sb, tmp, pol, child, reply, killed, ran>>
        /\ pc[c] = "go"
        /\ pc' = [pc EXCEPT ![c] = "recv"] \/ pc' = [pc EXCEPT ![c] = "finish"]
    BY <1>0, Zenon DEF Go, Goto, handleVars, cgroupVars, bpfVars, callVars, childVars, history
  <1>2. Others(c)
    BY <1>0, <1>1 DEF ProtocolTypeOK, RecordTypeOK, Others
  <1>3. Registry
    BY <1>0, <1>1, Zenon DEF ProtocolTypeOK, RecordTypeOK, Registry, InRegistry
  <1>4. Contexts
    BY <1>0, <1>1, <1>3, Zenon DEF ProtocolTypeOK, RecordTypeOK, Registry, Contexts, QuietInv, TurnAt
  <1>5. TurnCall(c)'
    BY <1>0, <1>1, ZenonT(30) DEF ProtocolTypeOK, TurnCall
  <1>6. HandleCall(c)'
    BY <1>0, <1>1, Zenon DEF ProtocolTypeOK, HandleCall
  <1>7. ReadyCall(c)'
    BY <1>0, <1>1 DEF ProtocolTypeOK, RecordTypeOK, QuietInv, ReadyCall, CreatePcs, ExecPcs, SocketPcs, DestroyPcs, InRegistry
  <1>8. pc[c] \in {"release", "record"} /\ InRegistry(sb[c]) =>
          pc'[c] \in {"release", "record"} /\ sb'[c] = sb[c]
    BY <1>0, <1>1, Zenon DEF ProtocolTypeOK
  <1> QED BY <1>2, <1>3, <1>4, <1>5, <1>6, <1>7, <1>8, QuietStays, ZenonT(30)

LEMMA RecvQuiet ==
  ASSUME NEW c \in Callers, IInv, QuietInv, Recv(c)
  PROVE  QuietInv'
  <1>0. ProtocolTypeOK /\ RecordTypeOK /\ ProtocolInv
    BY ZenonT(30) DEF IInv, TypeOK
  <1>1. /\ UNCHANGED <<hstate, launched, eff, ctx, sb, tmp, pol, child, reply, ran>>
        /\ pc[c] = "recv"
        /\ \/ pc' = [pc EXCEPT ![c] = "install"] /\ reply[c] = "ready"
           \/ pc' = [pc EXCEPT ![c] = "finish"]
        /\ \/ UNCHANGED killed
           \/ reply[c] = "error" /\ killed' = [killed EXCEPT ![c] = child[c] # "none"]
    BY <1>0, Zenon DEF Recv, RecvNext, KillChild, Goto, handleVars, cgroupVars, bpfVars, callVars, childVars, history
  <1>2. Others(c)
    BY <1>0, <1>1 DEF ProtocolTypeOK, RecordTypeOK, Others
  <1>3. Registry
    BY <1>0, <1>1, Zenon DEF ProtocolTypeOK, RecordTypeOK, Registry, InRegistry
  <1>4. Contexts
    BY <1>0, <1>1, <1>3, Zenon DEF ProtocolTypeOK, RecordTypeOK, Registry, Contexts, QuietInv, TurnAt
  <1>5. TurnCall(c)'
    BY <1>0, <1>1, ZenonT(30) DEF ProtocolTypeOK, TurnCall
  <1>6. HandleCall(c)'
    BY <1>0, <1>1, Zenon DEF ProtocolTypeOK, HandleCall
  <1>7. ReadyCall(c)'
    BY <1>0, <1>1 DEF ProtocolTypeOK, RecordTypeOK, QuietInv, ReadyCall, CreatePcs, ExecPcs, SocketPcs, DestroyPcs, InRegistry
  <1>8. pc[c] \in {"release", "record"} /\ InRegistry(sb[c]) =>
          pc'[c] \in {"release", "record"} /\ sb'[c] = sb[c]
    BY <1>0, <1>1, Zenon DEF ProtocolTypeOK
  <1> QED BY <1>2, <1>3, <1>4, <1>5, <1>6, <1>7, <1>8, QuietStays, ZenonT(30)

LEMMA InstallQuiet ==
  ASSUME NEW c \in Callers, IInv, QuietInv, Install(c)
  PROVE  QuietInv'
  <1>0. ProtocolTypeOK /\ RecordTypeOK /\ ProtocolInv
    BY ZenonT(30) DEF IInv, TypeOK
  <1>1. /\ UNCHANGED <<hstate, launched, eff, ctx, sb, pol, child, reply, ran>>
        /\ pc[c] = "install"
        /\ \A d \in Callers \ {c} : pc'[d] = pc[d] /\ tmp'[d] = tmp[d] /\ killed'[d] = killed[d]
        /\ \/ /\ pc'[c] = "swap" /\ ctx[sb[c]].present /\ killed'[c] = killed[c]
              /\ tmp'[c] = Context(TRUE, ctx[sb[c]].dirty, pol[c])
           \/ pc'[c] = "finish" /\ (killed'[c] => child[c] # "none")
    <2>1. /\ UNCHANGED <<hstate, launched, eff, ctx, sb, pol, child, reply, ran>>
          /\ pc[c] = "install"
      BY Zenon DEF Install, handleVars, cgroupVars, bpfVars, history
    <2>2. CASE /\ ctx[sb[c]].present /\ UNCHANGED killed
               /\ pc' = [pc EXCEPT ![c] = "swap"]
               /\ tmp' = [tmp EXCEPT ![c] = Context(TRUE, ctx[sb[c]].dirty, pol[c])]
      BY <1>0, <2>1, <2>2, Zenon DEF ProtocolTypeOK
    <2>3. CASE pc' = [pc EXCEPT ![c] = "finish"] /\ killed' = [killed EXCEPT ![c] = child[c] # "none"] /\ UNCHANGED tmp
      <3>1. pc'[c] = "finish" /\ \A d \in Callers \ {c} : pc'[d] = pc[d]
        BY <1>0, <2>3, Zenon DEF ProtocolTypeOK
      <3>2. killed'[c] <=> child[c] # "none"
        BY <1>0, <2>3, Zenon DEF RecordTypeOK
      <3>3. \A d \in Callers \ {c} : killed'[d] = killed[d]
        BY <1>0, <2>3, Zenon DEF RecordTypeOK
      <3> QED BY <2>1, <2>3, <3>1, <3>2, <3>3, Zenon
    <2> QED BY <2>2, <2>3, Zenon DEF Install, PolicyCtx, ReadCtx, KillChild, Goto
  <1>2. Others(c)
    BY <1>1, Zenon DEF Others
  <1>3. Registry
    BY <1>0, <1>1, Zenon DEF ProtocolTypeOK, RecordTypeOK, Registry, InRegistry
  <1>4. Contexts
    BY <1>0, <1>1, <1>3, Zenon DEF ProtocolTypeOK, RecordTypeOK, Registry, Contexts, QuietInv, TurnAt
  <1>5. TurnCall(c)'
    BY <1>0, <1>1 DEF ProtocolTypeOK, TurnCall, InRegistry, Context, QuietInv, TurnAt
  <1>6. HandleCall(c)'
    <2>1. CASE pc'[c] = "swap" /\ tmp'[c] = Context(TRUE, ctx[sb[c]].dirty, pol[c])
      <3>1. \A x : Context(TRUE, x, pol[c]).policy = pol[c]
        BY Zenon DEF Context
      <3>2. tmp'[c].policy = pol'[c]
        BY <1>1, <2>1, <3>1, Zenon
      <3> QED BY <2>1, <3>2, Zenon DEF HandleCall
    <2>2. CASE pc'[c] = "finish"
      BY <2>2, Zenon DEF HandleCall
    <2> QED BY <1>1, <2>1, <2>2, Zenon
  <1>7. ReadyCall(c)'
    <2>1. ReadyCall(c) /\ (InRegistry(sb[c])' <=> InRegistry(sb[c]))
      BY <1>1, Zenon DEF QuietInv, InRegistry
    <2>2. CASE pc'[c] = "swap" /\ killed'[c] = killed[c]
      BY <1>1, <2>1, <2>2, Zenon DEF ReadyCall, SocketPcs
    <2>3. CASE pc'[c] = "finish" /\ (killed'[c] => child[c] # "none")
      BY <1>1, <2>1, <2>3, Zenon DEF ReadyCall
    <2> QED BY <1>1, <2>2, <2>3, Zenon
  <1>8. pc[c] \in {"release", "record"} /\ InRegistry(sb[c]) =>
          pc'[c] \in {"release", "record"} /\ sb'[c] = sb[c]
    BY <1>0, <1>1, ZenonT(30) DEF ProtocolTypeOK
  <1> QED BY <1>2, <1>3, <1>4, <1>5, <1>6, <1>7, <1>8, QuietStays, ZenonT(30)

LEMMA ReleaseQuiet ==
  ASSUME NEW c \in Callers, IInv, QuietInv, Release(c)
  PROVE  QuietInv'
  <1>0. ProtocolTypeOK /\ RecordTypeOK /\ ProtocolInv
    BY ZenonT(30) DEF IInv, TypeOK
  <1>1. /\ UNCHANGED <<hstate, launched, eff, ctx, sb, tmp, pol, child, reply, killed, ran>>
        /\ pc[c] = "release"
        /\ \/ child[c] # "none" /\ pc' = [pc EXCEPT ![c] = "record"]
           \/ child[c] = "none" /\ pc' = [pc EXCEPT ![c] = "finish"]
    BY <1>0, Zenon DEF Release, Goto, handleVars, cgroupVars, bpfVars, callVars, childVars, history
  <1>2. Others(c)
    BY <1>0, <1>1 DEF ProtocolTypeOK, RecordTypeOK, Others
  <1>3. Registry
    BY <1>0, <1>1, Zenon DEF ProtocolTypeOK, RecordTypeOK, Registry, InRegistry
  <1>4. Contexts
    BY <1>0, <1>1, <1>3, Zenon DEF ProtocolTypeOK, RecordTypeOK, Registry, Contexts, QuietInv, TurnAt
  <1>5. TurnCall(c)'
    BY <1>0, <1>1, ZenonT(30) DEF ProtocolTypeOK, TurnCall
  <1>6. HandleCall(c)'
    BY <1>0, <1>1, ZenonT(30) DEF ProtocolTypeOK, HandleCall, InRegistry, QuietInv
  <1>7. ReadyCall(c)'
    BY <1>0, <1>1 DEF ProtocolTypeOK, RecordTypeOK, QuietInv, ReadyCall, CreatePcs, ExecPcs, SocketPcs, DestroyPcs
  <1>8. pc[c] \in {"release", "record"} /\ InRegistry(sb[c]) =>
          pc'[c] \in {"release", "record"} /\ sb'[c] = sb[c]
    BY <1>0, <1>1, Zenon DEF ProtocolTypeOK, QuietInv, ReadyCall
  <1> QED BY <1>2, <1>3, <1>4, <1>5, <1>6, <1>7, <1>8, QuietStays, ZenonT(30)

LEMMA WaitQuiet ==
  ASSUME NEW c \in Callers, IInv, QuietInv, Wait(c)
  PROVE  QuietInv'
  <1>0. ProtocolTypeOK /\ RecordTypeOK /\ ProtocolInv
    BY ZenonT(30) DEF IInv, TypeOK
  <1>1. /\ UNCHANGED <<hstate, launched, eff, ctx, sb, tmp, pol, child, reply, killed, ran>>
        /\ pc[c] = "wait"
        /\ pc' = [pc EXCEPT ![c] = "finish"]
    BY <1>0, Zenon DEF Wait, Goto, handleVars, cgroupVars, bpfVars, callVars, childVars, history
  <1>2. Others(c)
    BY <1>0, <1>1, ZenonT(30) DEF ProtocolTypeOK, RecordTypeOK, Others
  <1>3. Registry
    BY <1>0, <1>1, Zenon DEF ProtocolTypeOK, RecordTypeOK, Registry, InRegistry
  <1>4. Contexts
    BY <1>0, <1>1, <1>3, Zenon DEF ProtocolTypeOK, RecordTypeOK, Registry, Contexts, QuietInv, TurnAt
  <1>5. TurnCall(c)'
    BY <1>0, <1>1, Zenon DEF ProtocolTypeOK, TurnCall
  <1>6. HandleCall(c)'
    BY <1>0, <1>1, Zenon DEF ProtocolTypeOK, HandleCall
  <1>7. ReadyCall(c)'
    BY <1>0, <1>1, ZenonT(30) DEF ProtocolTypeOK, RecordTypeOK, QuietInv, ReadyCall, CreatePcs, ExecPcs, SocketPcs, DestroyPcs
  <1>8. pc[c] \in {"release", "record"} /\ InRegistry(sb[c]) =>
          pc'[c] \in {"release", "record"} /\ sb'[c] = sb[c]
    BY <1>0, <1>1, Zenon DEF ProtocolTypeOK
  <1> QED BY <1>2, <1>3, <1>4, <1>5, <1>6, <1>7, <1>8, QuietStays, ZenonT(30)

LEMMA FinishQuiet ==
  ASSUME NEW c \in Callers, IInv, QuietInv, Finish(c)
  PROVE  QuietInv'
  <1>0. ProtocolTypeOK /\ RecordTypeOK /\ ProtocolInv
    BY ZenonT(30) DEF IInv, TypeOK
  <1>1. /\ UNCHANGED <<launched, eff, ctx, sb, tmp, child, killed, ran>>
        /\ pc[c] = "finish"
        /\ pc' = [pc EXCEPT ![c] = "idle"]
        /\ pol' = [pol EXCEPT ![c] = {}]
        /\ reply' = [reply EXCEPT ![c] = "none"]
        /\ \/ InRegistry(sb[c]) /\ hstate' = [hstate EXCEPT ![sb[c]] = "Ready"]
           \/ UNCHANGED hstate
    BY <1>0, Zenon DEF Finish, Goto, handleVars, cgroupVars, bpfVars, callVars, childVars, history
  <1>2. Others(c)
    BY <1>0, <1>1 DEF ProtocolTypeOK, RecordTypeOK, Others
  <1>3. Registry
    BY <1>0, <1>1 DEF ProtocolTypeOK, RecordTypeOK, Registry, InRegistry
  <1>4. Contexts
    BY <1>0, <1>1, <1>3, Zenon DEF ProtocolTypeOK, RecordTypeOK, Registry, Contexts, QuietInv, TurnAt
  <1>5. TurnCall(c)'
    BY <1>0, <1>1, Zenon DEF ProtocolTypeOK, TurnCall
  <1>6. HandleCall(c)'
    BY <1>0, <1>1, Zenon DEF ProtocolTypeOK, HandleCall
  <1>7. ReadyCall(c)'
    BY <1>0, <1>1, ZenonT(30) DEF ProtocolTypeOK, RecordTypeOK, QuietInv, ReadyCall, CreatePcs, ExecPcs, SocketPcs, DestroyPcs
  <1>8. pc[c] \in {"release", "record"} /\ InRegistry(sb[c]) =>
          pc'[c] \in {"release", "record"} /\ sb'[c] = sb[c]
    BY <1>0, <1>1, Zenon DEF ProtocolTypeOK
  <1> QED BY <1>2, <1>3, <1>4, <1>5, <1>6, <1>7, <1>8, QuietStays, ZenonT(30)

LEMMA BeginTurnQuiet ==
  ASSUME NEW c \in Callers, NEW s \in Sandboxes, IInv, QuietInv, BeginTurn(c, s)
  PROVE  QuietInv'
  <1>0. ProtocolTypeOK /\ RecordTypeOK /\ ProtocolInv
    BY ZenonT(30) DEF IInv, TypeOK
  <1>1. /\ UNCHANGED <<hstate, launched, eff, ctx, pol, child, reply, killed, ran>>
        /\ pc[c] = "idle" /\ child[c] = "none"
        /\ pc' = [pc EXCEPT ![c] = "turn_write"]
        /\ sb' = [sb EXCEPT ![c] = s]
        /\ tmp' = [tmp EXCEPT ![c] = Context(ctx[s].enforcing, FALSE, ctx[s].policy)]
    BY <1>0, Zenon DEF BeginTurn, Call, ReadCtx, Goto, handleVars, cgroupVars, bpfVars, callVars, childVars, history
  <1>2. Others(c)
    BY <1>0, <1>1 DEF ProtocolTypeOK, RecordTypeOK, Others
  <1>3. Registry
    BY <1>0, <1>1, Zenon DEF ProtocolTypeOK, RecordTypeOK, Registry, InRegistry
  <1>4. Contexts
    BY <1>0, <1>1, <1>3, Zenon DEF ProtocolTypeOK, RecordTypeOK, Registry, Contexts, QuietInv, TurnAt
  <1>5. TurnCall(c)'
    BY <1>0, <1>1, Zenon DEF ProtocolTypeOK, TurnCall
  <1>6. HandleCall(c)'
    BY <1>0, <1>1, Zenon DEF ProtocolTypeOK, HandleCall, Context
  <1>7. ReadyCall(c)'
    BY <1>0, <1>1, ZenonT(30) DEF ProtocolTypeOK, RecordTypeOK, QuietInv, ReadyCall, CreatePcs, ExecPcs, SocketPcs, DestroyPcs
  <1>8. pc[c] \in {"release", "record"} /\ InRegistry(sb[c]) =>
          pc'[c] \in {"release", "record"} /\ sb'[c] = sb[c]
    BY <1>0, <1>1, Zenon DEF ProtocolTypeOK
  <1> QED BY <1>2, <1>3, <1>4, <1>5, <1>6, <1>7, <1>8, QuietStays, ZenonT(30)

LEMMA TurnWriteQuiet ==
  ASSUME NEW c \in Callers, IInv, QuietInv, TurnWrite(c)
  PROVE  QuietInv'
  <1>0. ProtocolTypeOK /\ RecordTypeOK /\ ProtocolInv
    BY ZenonT(30) DEF IInv, TypeOK
  <1>1. /\ UNCHANGED <<hstate, launched, eff, sb, pol, child, reply, killed>>
        /\ pc[c] = "turn_write"
        /\ pc' = [pc EXCEPT ![c] = "idle"]
        /\ tmp' = [tmp EXCEPT ![c] = NoCtx]
        /\ \A t \in Sandboxes \ {sb[c]} : ctx'[t] = ctx[t] /\ ran'[t] = ran[t]
        /\ \/ ctx'[sb[c]] = tmp[c] /\ ~ran'[sb[c]]
           \/ ctx'[sb[c]] = ctx[sb[c]] /\ ran'[sb[c]] = ran[sb[c]]
    BY <1>0 DEF ProtocolTypeOK, RecordTypeOK, TurnWrite, WriteCtx, DropTmp, Goto, handleVars, cgroupVars, bpfVars, callVars, childVars, history
  <1>2. Others(c)
    BY <1>0, <1>1 DEF ProtocolTypeOK, RecordTypeOK, Others
  <1>3. Registry
    BY <1>0, <1>1, ZenonT(30) DEF ProtocolTypeOK, RecordTypeOK, Registry, InRegistry
  <1>4. Contexts
    <2> SUFFICES ASSUME NEW t \in Sandboxes, InRegistry(t)'
                 PROVE  /\ ctx'[t].policy = ctx[t].policy
                        /\ ran'[t] /\ ctx'[t].present => ctx'[t].dirty
      BY <1>1, Zenon DEF Contexts
    <2>1. InRegistry(t) /\ TurnAt(t) /\ HandleCall(c)
      BY <1>3, Zenon DEF Registry, QuietInv
    <2>2. CASE ctx'[t] = ctx[t] /\ ran'[t] = ran[t]
      BY <2>1, <2>2, Zenon DEF TurnAt
    <2>3. CASE t = sb[c] /\ ctx'[t] = tmp[c] /\ ~ran'[t]
      BY <1>1, <2>1, <2>3, Zenon DEF HandleCall
    <2> QED BY <1>1, <2>2, <2>3, Zenon
  <1>5. TurnCall(c)'
    BY <1>0, <1>1, Zenon DEF ProtocolTypeOK, TurnCall
  <1>6. HandleCall(c)'
    BY <1>0, <1>1, Zenon DEF ProtocolTypeOK, HandleCall
  <1>7. ReadyCall(c)'
    <2>1. pc[c] = "turn_write" /\ pc'[c] \in {"create_register", "create_attach", "create_insert", "idle"}
      BY <1>0, <1>1, Zenon DEF ProtocolTypeOK
    <2>2. child'[c] = child[c] /\ reply'[c] = reply[c] /\ killed'[c] = killed[c]
      BY <1>1, Zenon
    <2> QED BY <2>1, <2>2, ReadyAway, Zenon DEF SocketPcs
  <1>8. pc[c] \in {"release", "record"} /\ InRegistry(sb[c]) =>
          pc'[c] \in {"release", "record"} /\ sb'[c] = sb[c]
    BY <1>0, <1>1, Zenon DEF ProtocolTypeOK
  <1> QED BY <1>2, <1>3, <1>4, <1>5, <1>6, <1>7, <1>8, QuietStays, ZenonT(30)

LEMMA DestroyRemoveQuiet ==
  ASSUME NEW c \in Callers, NEW s \in Sandboxes, IInv, QuietInv, DestroyRemove(c, s)
  PROVE  QuietInv'
  <1>0. ProtocolTypeOK /\ RecordTypeOK /\ ProtocolInv
    BY ZenonT(30) DEF IInv, TypeOK
  <1>1. /\ UNCHANGED <<ctx, tmp, pol, child, reply, killed, ran>>
        /\ pc[c] = "idle" /\ child[c] = "none"
        /\ pc' = [pc EXCEPT ![c] = "kill_all"]
        /\ sb' = [sb EXCEPT ![c] = s]
        /\ hstate' = [hstate EXCEPT ![s] = "Gone"]
        /\ launched' = [launched EXCEPT ![s] = FALSE]
        /\ eff' = [eff EXCEPT ![s] = {}]
    BY <1>0, Zenon DEF DestroyRemove, TeardownStart, Call, Goto, handleVars, cgroupVars, bpfVars, callVars, childVars, history
  <1>2. Others(c)
    BY <1>0, <1>1, ZenonT(30) DEF ProtocolTypeOK, RecordTypeOK, Others
  <1>3. Registry
    BY <1>0, <1>1 DEF ProtocolTypeOK, RecordTypeOK, Registry, InRegistry
  <1>4. Contexts
    BY <1>0, <1>1, <1>3 DEF ProtocolTypeOK, RecordTypeOK, Registry, Contexts, QuietInv, TurnAt, InRegistry
  <1>5. TurnCall(c)'
    BY <1>0, <1>1, Zenon DEF ProtocolTypeOK, TurnCall
  <1>6. HandleCall(c)'
    BY <1>0, <1>1, Zenon DEF ProtocolTypeOK, HandleCall
  <1>7. ReadyCall(c)'
    BY <1>0, <1>1, Zenon DEF ProtocolTypeOK, RecordTypeOK, QuietInv, ReadyCall, CreatePcs, ExecPcs, SocketPcs, DestroyPcs
  <1>8. pc[c] \in {"release", "record"} /\ InRegistry(sb[c]) =>
          pc'[c] \in {"release", "record"} /\ sb'[c] = sb[c]
    BY <1>0, <1>1, Zenon DEF ProtocolTypeOK
  <1> QED BY <1>2, <1>3, <1>4, <1>5, <1>6, <1>7, <1>8, QuietStays, ZenonT(30)

LEMMA WaitEmptyQuiet ==
  ASSUME NEW c \in Callers, IInv, QuietInv, WaitEmpty(c)
  PROVE  QuietInv'
  <1>0. ProtocolTypeOK /\ RecordTypeOK /\ ProtocolInv
    BY ZenonT(30) DEF IInv, TypeOK
  <1>1. /\ UNCHANGED <<hstate, launched, eff, ctx, sb, tmp, pol, child, reply, killed, ran>>
        /\ pc[c] = "wait_empty"
        /\ pc' = [pc EXCEPT ![c] = "rmdir"] \/ pc' = [pc EXCEPT ![c] = "idle"]
    BY <1>0, Zenon DEF WaitEmpty, DestroyFails, Goto, handleVars, cgroupVars, bpfVars, callVars, childVars, history
  <1>2. Others(c)
    BY <1>0, <1>1 DEF ProtocolTypeOK, RecordTypeOK, Others
  <1>3. Registry
    BY <1>0, <1>1, Zenon DEF ProtocolTypeOK, RecordTypeOK, Registry, InRegistry
  <1>4. Contexts
    BY <1>0, <1>1, <1>3, Zenon DEF ProtocolTypeOK, RecordTypeOK, Registry, Contexts, QuietInv, TurnAt
  <1>5. TurnCall(c)'
    BY <1>0, <1>1, ZenonT(30) DEF ProtocolTypeOK, TurnCall
  <1>6. HandleCall(c)'
    BY <1>0, <1>1, Zenon DEF ProtocolTypeOK, HandleCall
  <1>7. ReadyCall(c)'
    BY <1>0, <1>1 DEF ProtocolTypeOK, RecordTypeOK, QuietInv, ReadyCall, CreatePcs, ExecPcs, SocketPcs, DestroyPcs
  <1>8. pc[c] \in {"release", "record"} /\ InRegistry(sb[c]) =>
          pc'[c] \in {"release", "record"} /\ sb'[c] = sb[c]
    BY <1>0, <1>1, Zenon DEF ProtocolTypeOK
  <1> QED BY <1>2, <1>3, <1>4, <1>5, <1>6, <1>7, <1>8, QuietStays, ZenonT(30)

LEMMA RmdirQuiet ==
  ASSUME NEW c \in Callers, IInv, QuietInv, Rmdir(c)
  PROVE  QuietInv'
  <1>0. ProtocolTypeOK /\ RecordTypeOK /\ ProtocolInv
    BY ZenonT(30) DEF IInv, TypeOK
  <1>1. /\ UNCHANGED <<hstate, launched, eff, ctx, sb, tmp, pol, child, reply, killed, ran>>
        /\ pc[c] = "rmdir"
        /\ pc' = [pc EXCEPT ![c] = "deregister"] \/ pc' = [pc EXCEPT ![c] = "idle"]
    BY <1>0, Zenon DEF Rmdir, DestroyFails, Goto, handleVars, cgroupVars, bpfVars, callVars, childVars, history
  <1>2. Others(c)
    BY <1>0, <1>1 DEF ProtocolTypeOK, RecordTypeOK, Others
  <1>3. Registry
    BY <1>0, <1>1, Zenon DEF ProtocolTypeOK, RecordTypeOK, Registry, InRegistry
  <1>4. Contexts
    BY <1>0, <1>1, <1>3, Zenon DEF ProtocolTypeOK, RecordTypeOK, Registry, Contexts, QuietInv, TurnAt
  <1>5. TurnCall(c)'
    BY <1>0, <1>1, ZenonT(30) DEF ProtocolTypeOK, TurnCall
  <1>6. HandleCall(c)'
    BY <1>0, <1>1, Zenon DEF ProtocolTypeOK, HandleCall
  <1>7. ReadyCall(c)'
    BY <1>0, <1>1 DEF ProtocolTypeOK, RecordTypeOK, QuietInv, ReadyCall, CreatePcs, ExecPcs, SocketPcs, DestroyPcs
  <1>8. pc[c] \in {"release", "record"} /\ InRegistry(sb[c]) =>
          pc'[c] \in {"release", "record"} /\ sb'[c] = sb[c]
    BY <1>0, <1>1, Zenon DEF ProtocolTypeOK
  <1> QED BY <1>2, <1>3, <1>4, <1>5, <1>6, <1>7, <1>8, QuietStays, ZenonT(30)

LEMMA DeregisterQuiet ==
  ASSUME NEW c \in Callers, IInv, QuietInv, Deregister(c)
  PROVE  QuietInv'
  <1>0. ProtocolTypeOK /\ RecordTypeOK /\ ProtocolInv
    BY ZenonT(30) DEF IInv, TypeOK
  <1>1. /\ UNCHANGED <<hstate, launched, eff, sb, tmp, pol, child, reply, killed, ran>>
        /\ pc[c] = "deregister"
        /\ pc' = [pc EXCEPT ![c] = "idle"]
        /\ \A t \in Sandboxes \ {sb[c]} : ctx'[t] = ctx[t]
    BY <1>0, Zenon DEF ProtocolTypeOK, Deregister, DeregisterCtx, Goto, handleVars, cgroupVars, bpfVars, callVars, childVars, history
  <1>2. Others(c)
    BY <1>0, <1>1 DEF ProtocolTypeOK, RecordTypeOK, Others
  <1>3. Registry
    BY <1>0, <1>1, Zenon DEF ProtocolTypeOK, RecordTypeOK, Registry, InRegistry
  <1>4. Contexts
    BY <1>0, <1>1, <1>3, ZenonT(30) DEF ProtocolTypeOK, RecordTypeOK, Registry, Contexts, QuietInv, TurnAt, InRegistry, ProtocolInv, PhaseInv, CreatePcs, ExecPcs, SocketPcs, DestroyPcs
  <1>5. TurnCall(c)'
    BY <1>0, <1>1, Zenon DEF ProtocolTypeOK, TurnCall
  <1>6. HandleCall(c)'
    BY <1>0, <1>1, Zenon DEF ProtocolTypeOK, HandleCall
  <1>7. ReadyCall(c)'
    BY <1>0, <1>1 DEF ProtocolTypeOK, RecordTypeOK, QuietInv, ReadyCall, CreatePcs, ExecPcs, SocketPcs, DestroyPcs
  <1>8. pc[c] \in {"release", "record"} /\ InRegistry(sb[c]) =>
          pc'[c] \in {"release", "record"} /\ sb'[c] = sb[c]
    BY <1>0, <1>1, Zenon DEF ProtocolTypeOK
  <1> QED BY <1>2, <1>3, <1>4, <1>5, <1>6, <1>7, <1>8, QuietStays, ZenonT(30)

LEMMA CreateInsertQuiet ==
  ASSUME NEW c \in Callers, IInv, QuietInv, CreateInsert(c)
  PROVE  QuietInv'
  <1>0. ProtocolTypeOK /\ RecordTypeOK /\ ProtocolInv
    BY ZenonT(30) DEF IInv, TypeOK
  <1>1. /\ UNCHANGED <<launched, eff, ctx, sb, tmp, pol, child, reply, killed, ran>>
        /\ pc[c] = "create_insert"
        /\ pc' = [pc EXCEPT ![c] = "idle"]
        /\ hstate' = [hstate EXCEPT ![sb[c]] = "Ready"]
    BY Zenon DEF CreateInsert, Goto, cgroupVars, bpfVars, childVars, history
  <1>2. Others(c)
    BY <1>0, <1>1, Zenon DEF ProtocolTypeOK, Others
  <1>3. hstate[sb[c]] = "Creating" /\ ~launched[sb[c]] /\ ~ran[sb[c]] /\ sb[c] \in Sandboxes
    <2>1. sb[c] \in Sandboxes /\ hstate[sb[c]] = "Creating"
      BY <1>0, <1>1, Zenon DEF ProtocolTypeOK, ProtocolInv, PhaseInv, CreatePcs
    <2>2. TurnAt(sb[c]) /\ HandleAt(sb[c])
      BY <2>1, Zenon DEF QuietInv
    <2> QED BY <2>1, <2>2, Zenon DEF TurnAt, HandleAt
  <1>4. ASSUME NEW t \in Sandboxes PROVE TurnAt(t)'
    BY <1>0, <1>1, <1>3, Zenon DEF ProtocolTypeOK, QuietInv, TurnAt, InRegistry
  <1>5. ASSUME NEW t \in Sandboxes PROVE HandleAt(t)'
    <2>1. HandleAt(t)
      BY Zenon DEF QuietInv
    <2>2. CASE t = sb[c]
      BY <1>0, <1>1, <1>3, <2>2, Zenon DEF ProtocolTypeOK, HandleAt
    <2>3. CASE t # sb[c]
      <3>1. hstate'[t] = hstate[t]
        BY <1>0, <1>1, <2>3, Zenon DEF ProtocolTypeOK
      <3>2. \A d \in Callers : pc[d] \in {"release", "record"} => pc'[d] = pc[d]
        BY <1>0, <1>1, Zenon DEF ProtocolTypeOK
      <3> QED BY <1>1, <2>1, <3>1, <3>2, Zenon DEF HandleAt, InRegistry
    <2> QED BY <2>2, <2>3, Zenon
  <1>6. TurnCall(c)' /\ HandleCall(c)' /\ ReadyCall(c)'
    <2>1. pc'[c] = "idle" /\ reply[c] = "none" /\ ReadyCall(c)
      BY <1>0, <1>1, Zenon DEF ProtocolTypeOK, QuietInv, ReadyCall, SocketPcs
    <2> QED BY <1>1, <2>1, Zenon DEF TurnCall, HandleCall, ReadyCall
  <1>7. ASSUME NEW d \in Callers \ {c} PROVE Undisturbed(d)
    <2>1. CASE sb[d] # sb[c]
      BY <1>0, <1>1, <2>1, Zenon DEF ProtocolTypeOK, Undisturbed, InRegistry
    <2>2. CASE sb[d] = sb[c]
      <3>1. hstate[sb[d]] = "Creating"
        BY <1>3, <2>2, Zenon
      <3>2. pc[d] \notin ExecPcs /\ pc[d] # "turn_write"
        BY <1>0, <3>1, Zenon DEF ProtocolInv, PhaseInv
      <3> QED BY <3>2, Zenon DEF Undisturbed, ExecPcs, SocketPcs
    <2> QED BY <2>1, <2>2, Zenon
  <1> QED BY <1>2, <1>4, <1>5, <1>6, <1>7, QuietFrom, Zenon

LEMMA SwapQuiet ==
  ASSUME NEW c \in Callers, IInv, QuietInv, Swap(c)
  PROVE  QuietInv'
  <1>0. ProtocolTypeOK /\ RecordTypeOK /\ ProtocolInv
    BY ZenonT(30) DEF IInv, TypeOK
  <1>s. sb[c] \in Sandboxes
    BY <1>0, Zenon DEF ProtocolTypeOK
  <1>1. /\ UNCHANGED <<hstate, launched, eff, sb, pol, child, reply, ran>>
        /\ pc[c] = "swap"
        /\ \A d \in Callers \ {c} : tmp'[d] = tmp[d] /\ killed'[d] = killed[d] /\ pc'[d] = pc[d]
        /\ \A t \in Sandboxes \ {sb[c]} : ctx'[t] = ctx[t]
        /\ \/ pc'[c] = "release" /\ UNCHANGED killed /\ ctx'[sb[c]] = tmp[c]
           \/ pc'[c] = "finish" /\ killed'[c] = (child[c] # "none") /\ UNCHANGED ctx
    BY <1>0 DEF ProtocolTypeOK, RecordTypeOK, Swap, WriteCtx, DropTmp, KillChild, Goto,
       handleVars, cgroupVars, history
  <1>2. Others(c)
    BY <1>1, Zenon DEF Others
  <1>3. TurnCall(c) /\ HandleCall(c) /\ ReadyCall(c)
    BY Zenon DEF QuietInv
  <1>4. ASSUME NEW t \in Sandboxes PROVE TurnAt(t)'
    <2>1. TurnAt(t)
      BY Zenon DEF QuietInv
    <2> QED BY <1>1, <1>3, <2>1, Zenon DEF TurnAt, TurnCall, InRegistry
  <1>5. ASSUME NEW t \in Sandboxes PROVE HandleAt(t)'
    <2>1. HandleAt(t)
      BY ZenonT(30) DEF QuietInv
    <2>2. CASE t = sb[c] /\ pc'[c] = "release"
      BY <1>1, <2>1, <2>2, Zenon DEF HandleAt
    <2>3. CASE t # sb[c] \/ pc'[c] # "release"
      <3>1. ctx'[t] = ctx[t]
        BY <1>1, <2>3, Zenon
      <3>2. \A d \in Callers : pc[d] \in {"release", "record"} => pc'[d] = pc[d]
        BY <1>1, Zenon
      <3> QED BY <1>1, <2>1, <3>1, <3>2, Zenon DEF HandleAt, InRegistry
    <2> QED BY <2>2, <2>3, Zenon
  <1>6. TurnCall(c)'
    BY <1>1, Zenon DEF TurnCall
  <1>7. HandleCall(c)'
    BY <1>1, <1>3, Zenon DEF HandleCall
  <1>8. ReadyCall(c)'
    BY <1>1, <1>3, Zenon DEF ReadyCall, InRegistry, SocketPcs
  <1>9. ASSUME NEW d \in Callers \ {c} PROVE Undisturbed(d)
    <2>1. CASE sb[d] # sb[c]
      BY <1>0, <1>1, <2>1, Zenon DEF ProtocolTypeOK, Undisturbed, InRegistry
    <2>2. CASE sb[d] = sb[c]
      <3>1. pc[d] \notin ExecPcs
        BY <1>0, <1>1, <2>2, Zenon DEF ProtocolInv, OwnerInv, ExecPcs, SocketPcs
      <3>2. pc[d] # "turn_write"
        BY <1>0, <1>1, <2>2, ZenonT(30) DEF ProtocolInv, PhaseInv, ExecPcs, SocketPcs
      <3> QED BY <3>1, <3>2, Zenon DEF Undisturbed, ExecPcs, SocketPcs
    <2> QED BY <2>1, <2>2, ZenonT(30)
  <1> QED BY <1>2, <1>4, <1>5, <1>6, <1>7, <1>8, <1>9, QuietFrom, ZenonT(30)

LEMMA RecordQuiet ==
  ASSUME NEW c \in Callers, IInv, QuietInv, Record(c)
  PROVE  QuietInv'
  <1>0. ProtocolTypeOK /\ RecordTypeOK /\ ProtocolInv
    BY ZenonT(30) DEF IInv, TypeOK
  <1>s. sb[c] \in Sandboxes
    BY <1>0, ZenonT(30) DEF ProtocolTypeOK
  <1>1. /\ UNCHANGED <<hstate, ctx, sb, tmp, pol, child, reply, killed, ran>>
        /\ pc[c] = "record" /\ pc'[c] = "wait"
        /\ \A d \in Callers \ {c} : pc'[d] = pc[d]
        /\ \A t \in Sandboxes \ {sb[c]} : launched'[t] = launched[t] /\ eff'[t] = eff[t]
        /\ \/ InRegistry(sb[c]) /\ eff'[sb[c]] = pol[c]
           \/ ~InRegistry(sb[c]) /\ launched' = launched
    BY <1>0 DEF ProtocolTypeOK, RecordTypeOK, Record, Records, Goto, cgroupVars, bpfVars, childVars, history
  <1>2. Others(c)
    BY <1>1, Zenon DEF Others
  <1>3. TurnCall(c) /\ HandleCall(c) /\ ReadyCall(c)
    BY ZenonT(30) DEF QuietInv
  <1>4. ASSUME NEW t \in Sandboxes PROVE TurnAt(t)'
    BY <1>1, Zenon DEF QuietInv, TurnAt, InRegistry
  <1>5. ASSUME NEW t \in Sandboxes PROVE HandleAt(t)'
    <2>1. HandleAt(t)
      BY ZenonT(30) DEF QuietInv
    <2>2. CASE t = sb[c]
      BY <1>1, <1>3, <2>1, <2>2, Zenon DEF HandleAt, HandleCall, InRegistry
    <2>3. CASE t # sb[c]
      <3>1. \A d \in Callers : sb[d] = t => pc'[d] = pc[d]
        BY <1>1, <2>3, Zenon
      <3> QED BY <1>1, <2>1, <2>3, <3>1, Zenon DEF HandleAt, InRegistry
    <2> QED BY <2>2, <2>3, ZenonT(30)
  <1>6. TurnCall(c)' /\ HandleCall(c)' /\ ReadyCall(c)'
    BY <1>1, <1>3, Zenon DEF TurnCall, HandleCall, ReadyCall, SocketPcs
  <1>7. ASSUME NEW d \in Callers \ {c} PROVE Undisturbed(d)
    BY <1>1, Zenon DEF Undisturbed, InRegistry
  <1> QED BY <1>2, <1>4, <1>5, <1>6, <1>7, QuietFrom, ZenonT(30)

LEMMA KillAllQuiet ==
  ASSUME NEW c \in Callers, IInv, QuietInv, KillAll(c)
  PROVE  QuietInv'
  <1>0. ProtocolTypeOK /\ RecordTypeOK /\ ProtocolInv
    BY ZenonT(30) DEF IInv, TypeOK
  <1>1. /\ UNCHANGED <<hstate, launched, eff, ctx, sb, tmp, pol, child, reply, ran>>
        /\ pc[c] = "kill_all" /\ pc'[c] \in {"wait_empty", "idle"}
        /\ \A d \in Callers \ {c} : pc'[d] = pc[d]
        /\ \A d \in Callers : killed'[d] => killed[d] \/ (child[d] # "none" /\ sb[d] = sb[c])
    BY <1>0 DEF ProtocolTypeOK, RecordTypeOK, KillAll, DestroyFails, Tasks, Goto,
       handleVars, bpfVars, history
  <1>2. ~InRegistry(sb[c])
    BY <1>0, <1>1, Zenon DEF ProtocolInv, PhaseInv, DestroyPcs, InRegistry
  <1>3. ASSUME NEW t \in Sandboxes PROVE TurnAt(t)' /\ HandleAt(t)'
    <2>1. TurnAt(t) /\ HandleAt(t)
      BY Zenon DEF QuietInv
    <2>2. \A d \in Callers : pc[d] \in {"release", "record"} => pc'[d] = pc[d]
      BY <1>1, Zenon
    <2>3. TurnAt(t)'
      BY <1>1, <2>1, Zenon DEF TurnAt, InRegistry
    <2>4. HandleAt(t)'
      BY <1>1, <2>1, <2>2, Zenon DEF HandleAt, InRegistry
    <2> QED BY <2>3, <2>4, Zenon
  <1>4. ASSUME NEW d \in Callers PROVE TurnCall(d)' /\ HandleCall(d)' /\ ReadyCall(d)'
    <2>1. TurnCall(d) /\ HandleCall(d) /\ ReadyCall(d)
      BY Zenon DEF QuietInv
    <2>2. pc'[d] = pc[d] \/ (d = c /\ pc'[d] \in {"wait_empty", "idle"} /\ reply[d] = "none")
      BY <1>1, <2>1, Zenon DEF ReadyCall, SocketPcs
    <2>3. killed'[d] /\ InRegistry(sb[d]) => killed[d]
      BY <1>1, <1>2, Zenon
    <2>4. TurnCall(d)' /\ HandleCall(d)'
      BY <1>1, <2>1, <2>2, Zenon DEF TurnCall, HandleCall, InRegistry
    <2>5. ReadyCall(d)'
      BY <1>1, <2>1, <2>2, <2>3, Zenon DEF ReadyCall, InRegistry, SocketPcs
    <2> QED BY <2>4, <2>5, Zenon
  <1> QED BY <1>3, <1>4, Zenon DEF QuietInv

LEMMA ChildStartQuiet ==
  ASSUME NEW c \in Callers, IInv, QuietInv, ChildStart(c)
  PROVE  QuietInv'
  <1>0. ProtocolTypeOK /\ RecordTypeOK /\ ProtocolInv
    BY ZenonT(30) DEF IInv, TypeOK
  <1>s. sb[c] \in Sandboxes /\ ReadyCall(c)
    BY <1>0, Zenon DEF ProtocolTypeOK, QuietInv
  <1>1. /\ UNCHANGED <<hstate, launched, eff, pc, sb, tmp, pol>>
        /\ \A d \in Callers \ {c} : child'[d] = child[d] /\ reply'[d] = reply[d] /\ killed'[d] = killed[d]
        /\ UNCHANGED <<ctx, ran, reply>>
        /\ child[c] = "blocked"
        /\ \/ child'[c] = "setup" /\ killed'[c] = killed[c] /\ sent[c] >= 1
           \/ ~ParentOpen(c) /\ child'[c] = "none" /\ ~killed'[c]
    BY <1>0 DEF ChildStart, ChildMoves, ChildEnds, ProtocolTypeOK, RecordTypeOK, handleVars, cgroupVars, bpfVars, callVars, childVars, history
  <1>2. Others(c)
    BY <1>1, Zenon DEF Others
  <1>3. \A t \in Sandboxes : ctx'[t].policy = ctx[t].policy
    BY <1>1, Zenon
  <1>4. ASSUME NEW t \in Sandboxes PROVE TurnAt(t)'
    BY <1>1, Zenon DEF QuietInv, TurnAt, InRegistry
  <1>5. \A d \in Callers : pc[d] \in {"setup_write", "swap"} /\ ran'[sb[d]] => ran[sb[d]]
    BY <1>1, Zenon
  <1>6. ReadyCall(c)'
    <2>1. /\ pc'[c] = pc[c] /\ reply'[c] = reply[c]
          /\ InRegistry(sb[c])' <=> InRegistry(sb[c])
          /\ reply[c] = "ready" => pc[c] \notin {"go", "recv", "install", "swap", "release"}
      BY <1>1, <1>s, Zenon DEF ReadyCall, InRegistry
    <2>2. pc[c] \notin {"install", "swap", "release"}
      BY <1>s, <2>1, Zenon DEF ReadyCall
    <2>3. CASE child'[c] = "setup" /\ killed'[c] = killed[c] /\ sent[c] >= 1
      <3>1. pc[c] # "go"
        BY <1>0, <2>3 DEF ProtocolInv, HandshakeInv
      <3> QED BY <1>s, <2>1, <2>2, <2>3, <3>1, Zenon DEF ReadyCall
    <2>4. CASE ~ParentOpen(c) /\ child'[c] = "none" /\ ~killed'[c]
      <3>1. pc[c] \notin SocketPcs
        BY <2>4, Zenon DEF ParentOpen
      <3> QED BY <1>s, <2>1, <2>4, <3>1, Zenon DEF ReadyCall, SocketPcs
    <2> QED BY <1>1, <2>3, <2>4, Zenon
  <1> QED BY <1>1, <1>2, <1>3, <1>4, <1>5, <1>6, QuietChild, Zenon

LEMMA ChildMountsQuiet ==
  ASSUME NEW c \in Callers, IInv, QuietInv, ChildMounts(c)
  PROVE  QuietInv'
  <1>0. ProtocolTypeOK /\ RecordTypeOK /\ ProtocolInv
    BY ZenonT(30) DEF IInv, TypeOK
  <1>s. sb[c] \in Sandboxes /\ ReadyCall(c)
    BY <1>0, ZenonT(30) DEF ProtocolTypeOK, QuietInv
  <1>1. /\ UNCHANGED <<hstate, launched, eff, pc, sb, tmp, pol>>
        /\ \A d \in Callers \ {c} : child'[d] = child[d] /\ reply'[d] = reply[d] /\ killed'[d] = killed[d]
        /\ UNCHANGED ran
        /\ child[c] = "setup"
        /\ \/ child'[c] = "mounted" /\ killed'[c] = killed[c] /\ reply' = reply
           \/ child'[c] = "none" /\ ~killed'[c] /\ (reply'[c] = "error" \/ ~ParentOpen(c)) /\ (ParentOpen(c) \/ reply' = reply)
    <2>1. /\ UNCHANGED <<hstate, launched, eff, pc, sb, tmp, pol, ran>>
          /\ child[c] = "setup"
      BY Zenon DEF ChildMounts, handleVars, callVars, history
    <2>2. CASE child' = [child EXCEPT ![c] = "mounted"] /\ UNCHANGED <<killed, reply>>
      BY <1>0, <2>1, <2>2, Zenon DEF ProtocolTypeOK
    <2>3. CASE /\ child' = [child EXCEPT ![c] = "none"] /\ killed' = [killed EXCEPT ![c] = FALSE]
               /\ reply' = IF ParentOpen(c) THEN [reply EXCEPT ![c] = "error"] ELSE reply
      <3>1. child'[c] = "none" /\ killed'[c] = FALSE /\ (ParentOpen(c) \/ reply' = reply)
        BY <1>0, <2>3 DEF ProtocolTypeOK, RecordTypeOK
      <3>2. reply'[c] = "error" \/ ~ParentOpen(c)
        BY <1>0, <2>3, Zenon DEF RecordTypeOK
      <3>3. \A d \in Callers \ {c} : child'[d] = child[d] /\ reply'[d] = reply[d] /\ killed'[d] = killed[d]
        BY <1>0, <2>3 DEF ProtocolTypeOK, RecordTypeOK
      <3> QED BY <2>1, <3>1, <3>2, <3>3, Zenon
    <2> QED BY <2>2, <2>3, Zenon DEF ChildMounts, ChildMoves, ChildEnds
  <1>2. Others(c)
    BY <1>1, Zenon DEF Others
  <1>d. ctx' = ctx \/ MarkDirty(sb[c])
    BY Zenon DEF ChildMounts
  <1>3. \A t \in Sandboxes : ctx'[t].policy = ctx[t].policy /\ ctx'[t].present = ctx[t].present
    BY <1>0, <1>s, <1>d, MarkDirtyKeeps, Zenon DEF ProtocolTypeOK
  <1>m. \A t \in Sandboxes : ctx[t].dirty => ctx'[t].dirty
    BY <1>0, <1>s, <1>d, MarkDirtyMarks, Zenon DEF ProtocolTypeOK
  <1>4. ASSUME NEW t \in Sandboxes PROVE TurnAt(t)'
    BY <1>1, <1>3, <1>m, Zenon DEF QuietInv, TurnAt, InRegistry
  <1>5. \A d \in Callers : pc[d] \in {"setup_write", "swap"} /\ ran'[sb[d]] => ran[sb[d]]
    BY <1>1, Zenon
  <1>6. ReadyCall(c)'
    <2>1. /\ pc'[c] = pc[c] /\ sb'[c] = sb[c] /\ (InRegistry(sb[c])' <=> InRegistry(sb[c]))
          /\ child'[c] \in {"none", "mounted"}
      BY <1>1, Zenon DEF InRegistry
    <2>2. CASE child'[c] = "mounted"
      BY <1>1, <1>s, <2>1, <2>2, Zenon DEF ReadyCall, ParentOpen, SocketPcs
    <2>3. CASE child'[c] = "none" /\ ~ParentOpen(c)
      BY <1>1, <1>s, <2>1, <2>3, Zenon DEF ReadyCall, ParentOpen, SocketPcs
    <2>4. CASE child'[c] = "none" /\ ParentOpen(c)
      <3>1. pc[c] \notin {"go", "install", "swap", "release"}
        BY <1>0, <1>1, <1>s, Zenon DEF ReadyCall, ProtocolInv, HandshakeInv
      <3> QED BY <1>0, <1>1, <1>s, <2>1, <2>4, <3>1, Zenon DEF ReadyCall, ParentOpen, SocketPcs
    <2> QED BY <2>1, <2>2, <2>3, <2>4, Zenon
  <1> QED BY <1>1, <1>2, <1>3, <1>4, <1>5, <1>6, QuietChild, Zenon

LEMMA ChildReadyQuiet ==
  ASSUME NEW c \in Callers, IInv, QuietInv, ChildReady(c)
  PROVE  QuietInv'
  <1>0. ProtocolTypeOK /\ RecordTypeOK /\ ProtocolInv
    BY ZenonT(30) DEF IInv, TypeOK
  <1>s. sb[c] \in Sandboxes /\ ReadyCall(c)
    BY <1>0, ZenonT(30) DEF ProtocolTypeOK, QuietInv
  <1>1. /\ UNCHANGED <<hstate, launched, eff, pc, sb, tmp, pol>>
        /\ \A d \in Callers \ {c} : child'[d] = child[d] /\ reply'[d] = reply[d] /\ killed'[d] = killed[d]
        /\ UNCHANGED <<ctx, ran>>
        /\ child[c] = "mounted"
        /\ \/ child'[c] = "ready" /\ killed'[c] = killed[c] /\ reply'[c] = "ready" /\ ParentOpen(c)
           \/ child'[c] = "none" /\ ~killed'[c] /\ (reply'[c] = "error" \/ ~ParentOpen(c)) /\ (ParentOpen(c) \/ reply' = reply)
    <2>1. /\ UNCHANGED <<hstate, launched, eff, pc, sb, tmp, pol, ctx, ran>>
          /\ child[c] = "mounted"
      BY Zenon DEF ChildReady, handleVars, bpfVars, callVars, history
    <2>2. CASE /\ ParentOpen(c) /\ child' = [child EXCEPT ![c] = "ready"] /\ UNCHANGED killed
               /\ reply' = [reply EXCEPT ![c] = "ready"]
      BY <1>0, <2>1, <2>2, ZenonT(30) DEF ProtocolTypeOK, RecordTypeOK
    <2>3. CASE /\ child' = [child EXCEPT ![c] = "none"] /\ killed' = [killed EXCEPT ![c] = FALSE]
               /\ reply' = IF ParentOpen(c) THEN [reply EXCEPT ![c] = "error"] ELSE reply
      <3>1. child'[c] = "none" /\ killed'[c] = FALSE /\ (ParentOpen(c) \/ reply' = reply)
        BY <1>0, <2>3 DEF ProtocolTypeOK, RecordTypeOK
      <3>2. reply'[c] = "error" \/ ~ParentOpen(c)
        BY <1>0, <2>3, Zenon DEF RecordTypeOK
      <3>3. \A d \in Callers \ {c} : child'[d] = child[d] /\ reply'[d] = reply[d] /\ killed'[d] = killed[d]
        BY <1>0, <2>3 DEF ProtocolTypeOK, RecordTypeOK
      <3> QED BY <2>1, <3>1, <3>2, <3>3, Zenon
    <2> QED BY <2>2, <2>3, Zenon DEF ChildReady, ChildMoves, ChildEnds
  <1>2. Others(c)
    BY <1>1, Zenon DEF Others
  <1>3. \A t \in Sandboxes : ctx'[t].policy = ctx[t].policy
    BY <1>1, Zenon
  <1>4. ASSUME NEW t \in Sandboxes PROVE TurnAt(t)'
    BY <1>1, Zenon DEF QuietInv, TurnAt, InRegistry
  <1>5. \A d \in Callers : pc[d] \in {"setup_write", "swap"} /\ ran'[sb[d]] => ran[sb[d]]
    BY <1>1, Zenon
  <1>6. ReadyCall(c)'
    <2>1. /\ pc'[c] = pc[c] /\ sb'[c] = sb[c] /\ (InRegistry(sb[c])' <=> InRegistry(sb[c]))
          /\ child'[c] \in {"none", "ready"}
      BY <1>1, Zenon DEF InRegistry
    <2>2. CASE child'[c] = "ready"
      BY <1>1, <1>s, <2>1, <2>2, Zenon DEF ReadyCall, ParentOpen, SocketPcs
    <2>3. CASE child'[c] = "none" /\ ~ParentOpen(c)
      BY <1>1, <1>s, <2>1, <2>3, Zenon DEF ReadyCall, ParentOpen, SocketPcs
    <2>4. CASE child'[c] = "none" /\ ParentOpen(c)
      <3>1. pc[c] \notin {"go", "install", "swap", "release"}
        BY <1>0, <1>1, <1>s, Zenon DEF ReadyCall, ProtocolInv, HandshakeInv
      <3> QED BY <1>0, <1>1, <1>s, <2>1, <2>4, <3>1, Zenon DEF ReadyCall, ParentOpen, SocketPcs
    <2> QED BY <2>1, <2>2, <2>3, <2>4, Zenon
  <1> QED BY <1>1, <1>2, <1>3, <1>4, <1>5, <1>6, QuietChild, Zenon

LEMMA ChildExecQuiet ==
  ASSUME NEW c \in Callers, IInv, QuietInv, ChildExec(c)
  PROVE  QuietInv'
  <1>0. ProtocolTypeOK /\ RecordTypeOK /\ ProtocolInv
    BY ZenonT(30) DEF IInv, TypeOK
  <1>s. sb[c] \in Sandboxes /\ ReadyCall(c)
    BY <1>0, ZenonT(30) DEF ProtocolTypeOK, QuietInv
  <1>1. /\ UNCHANGED <<hstate, launched, eff, pc, sb, tmp, pol>>
        /\ \A d \in Callers \ {c} : child'[d] = child[d] /\ reply'[d] = reply[d] /\ killed'[d] = killed[d]
        /\ child[c] = "ready"
        /\ \A t \in Sandboxes \ {sb[c]} : ran'[t] = ran[t]
        /\ \/ /\ sent[c] = 2 /\ child'[c] = "payload" /\ killed'[c] = killed[c] /\ reply' = reply
              /\ (ctx[sb[c]].enforcing => MarkDirty(sb[c]))
           \/ /\ sent[c] = 2 \/ ~ParentOpen(c)
              /\ child'[c] = "none" /\ ~killed'[c] /\ UNCHANGED <<ctx, ran>>
              /\ (reply'[c] = "error" \/ ~ParentOpen(c)) /\ (ParentOpen(c) \/ reply' = reply)
    <2>1. /\ UNCHANGED <<hstate, launched, eff, pc, sb, tmp, pol>>
          /\ child[c] = "ready"
      BY Zenon DEF ChildExec, handleVars, callVars
    <2>2. CASE /\ sent[c] = 2 /\ child' = [child EXCEPT ![c] = "payload"] /\ UNCHANGED <<killed, reply>>
               /\ ctx[sb[c]].enforcing => MarkDirty(sb[c])
               /\ ran' = [ran EXCEPT ![sb[c]] = TRUE]
      BY <1>0, <2>1, <2>2, Zenon DEF ProtocolTypeOK, RecordTypeOK
    <2>3. CASE /\ sent[c] = 2 \/ ~ParentOpen(c)
               /\ UNCHANGED <<ctx, ran>>
               /\ child' = [child EXCEPT ![c] = "none"] /\ killed' = [killed EXCEPT ![c] = FALSE]
               /\ reply' = IF ParentOpen(c) THEN [reply EXCEPT ![c] = "error"] ELSE reply
      <3>1. child'[c] = "none" /\ killed'[c] = FALSE /\ (ParentOpen(c) \/ reply' = reply)
        BY <1>0, <2>3, ZenonT(30) DEF ProtocolTypeOK, RecordTypeOK
      <3>2. reply'[c] = "error" \/ ~ParentOpen(c)
        BY <1>0, <2>3, Zenon DEF RecordTypeOK
      <3>3. \A d \in Callers \ {c} : child'[d] = child[d] /\ reply'[d] = reply[d] /\ killed'[d] = killed[d]
        BY <1>0, <2>3 DEF ProtocolTypeOK, RecordTypeOK
      <3> QED BY <2>1, <2>3, <3>1, <3>2, <3>3, Zenon
    <2> QED BY <2>2, <2>3, Zenon DEF ChildExec, ChildMoves, ChildEnds
  <1>2. Others(c)
    BY <1>1, Zenon DEF Others
  <1>d. ctx' = ctx \/ MarkDirty(sb[c])
    BY Zenon DEF ChildExec
  <1>3. \A t \in Sandboxes : ctx'[t].policy = ctx[t].policy /\ ctx'[t].present = ctx[t].present
    BY <1>0, <1>s, <1>d, MarkDirtyKeeps, ZenonT(30) DEF ProtocolTypeOK
  <1>m. \A t \in Sandboxes : ctx[t].dirty => ctx'[t].dirty
    BY <1>0, <1>s, <1>d, MarkDirtyMarks, ZenonT(30) DEF ProtocolTypeOK
  <1>4. ASSUME NEW t \in Sandboxes PROVE TurnAt(t)'
    <2>1. TurnAt(t)
      BY ZenonT(30) DEF QuietInv
    <2>2. CASE t # sb[c] \/ ran' = ran
      BY <1>1, <1>3, <1>m, <2>1, <2>2, Zenon DEF TurnAt, InRegistry
    <2>3. CASE t = sb[c] /\ sent[c] = 2 /\ MarkDirty(sb[c])
      <3>1. ctx[t].present => ctx'[t].dirty
        BY <1>0, <1>s, <2>3, MarkDirtyMarks, Zenon DEF ProtocolTypeOK
      <3>2. hstate[t] \notin {"Unborn", "Creating"}
        BY <1>0, <1>1, <2>3, Zenon DEF ProtocolInv, PhaseInv
      <3> QED BY <1>1, <1>3, <3>1, <3>2, Zenon DEF TurnAt
    <2>4. sent[c] = 2 => ctx[sb[c]].enforcing
      BY <1>0, <1>1, Zenon DEF ProtocolInv, ContextInv
    <2> QED BY <1>1, <2>2, <2>3, <2>4, Zenon
  <1>5. ASSUME NEW d \in Callers, pc[d] \in {"setup_write", "swap"}, ran'[sb[d]] PROVE ran[sb[d]]
    <2>1. CASE sb[d] # sb[c]
      BY <1>0, <1>1, <1>5, <2>1, Zenon DEF ProtocolTypeOK
    <2>2. CASE sb[d] = sb[c] /\ ~ran[sb[c]]
      <3>1. sent[c] = 2 /\ d # c
        BY <1>0, <1>1, <1>5, <2>2, Zenon DEF ProtocolInv, HandshakeInv
      <3>2. pc[c] \in {"record", "wait"}
        BY <1>0, <3>1, Zenon DEF ProtocolInv, HandshakeInv
      <3> QED BY <1>0, <1>5, <2>2, <3>1, <3>2, Zenon DEF ProtocolInv, OwnerInv, ExecPcs, SocketPcs
    <2> QED BY <2>1, <2>2, Zenon
  <1>6. ReadyCall(c)'
    BY <1>0, <1>1, <1>s, Zenon DEF ProtocolInv, HandshakeInv, ReadyCall, InRegistry, ParentOpen, SocketPcs
  <1> QED BY <1>1, <1>2, <1>3, <1>4, <1>5, <1>6, QuietChild, Zenon

LEMMA PayloadOpQuiet ==
  ASSUME NEW c \in Callers, IInv, QuietInv, PayloadOp(c)
  PROVE  QuietInv'
  <1>0. ProtocolTypeOK /\ RecordTypeOK /\ ProtocolInv
    BY ZenonT(30) DEF IInv, TypeOK
  <1>s. sb[c] \in Sandboxes /\ ReadyCall(c)
    BY <1>0, ZenonT(30) DEF ProtocolTypeOK, QuietInv
  <1>1. /\ UNCHANGED <<hstate, launched, eff, pc, sb, tmp, pol>>
        /\ UNCHANGED <<child, reply, killed>>
        /\ child[c] = "payload"
        /\ \A t \in Sandboxes \ {sb[c]} : ran'[t] = ran[t]
        /\ MarkDirty(sb[c])
    BY <1>0, Zenon DEF PayloadOp, ProtocolTypeOK, RecordTypeOK, handleVars, cgroupVars, bpfVars, callVars, childVars, history
  <1>2. Others(c)
    BY <1>1, Zenon DEF Others
  <1>d. ctx' = ctx \/ MarkDirty(sb[c])
    BY Zenon DEF PayloadOp
  <1>3. \A t \in Sandboxes : ctx'[t].policy = ctx[t].policy /\ ctx'[t].present = ctx[t].present
    BY <1>0, <1>s, <1>d, MarkDirtyKeeps, ZenonT(30) DEF ProtocolTypeOK
  <1>m. \A t \in Sandboxes : ctx[t].dirty => ctx'[t].dirty
    BY <1>0, <1>s, <1>d, MarkDirtyMarks, ZenonT(30) DEF ProtocolTypeOK
  <1>4. ASSUME NEW t \in Sandboxes PROVE TurnAt(t)'
    <2>1. TurnAt(t)
      BY ZenonT(30) DEF QuietInv
    <2>2. CASE t # sb[c]
      BY <1>1, <1>3, <1>m, <2>1, <2>2, Zenon DEF TurnAt, InRegistry
    <2>3. CASE t = sb[c]
      <3>1. ctx[t].present => ctx'[t].dirty
        BY <1>0, <1>s, <1>1, <2>3, MarkDirtyMarks, Zenon DEF ProtocolTypeOK
      <3>2. hstate[t] \notin {"Unborn", "Creating"}
        BY <1>0, <1>1, <2>3, Zenon DEF ProtocolInv, PhaseInv
      <3> QED BY <1>1, <1>3, <3>1, <3>2, Zenon DEF TurnAt
    <2> QED BY <2>2, <2>3, Zenon
  <1>5. ASSUME NEW d \in Callers, pc[d] \in {"setup_write", "swap"}, ran'[sb[d]] PROVE ran[sb[d]]
    <2>1. CASE sb[d] # sb[c]
      BY <1>0, <1>1, <1>5, <2>1, Zenon DEF ProtocolTypeOK
    <2>2. CASE sb[d] = sb[c] /\ ~ran[sb[c]]
      <3>1. sent[c] = 2 /\ d # c
        BY <1>0, <1>1, <1>5, <2>2, Zenon DEF ProtocolInv, HandshakeInv
      <3>2. pc[c] \in {"record", "wait"}
        BY <1>0, <3>1, ZenonT(30) DEF ProtocolInv, HandshakeInv
      <3> QED BY <1>0, <1>5, <2>2, <3>1, <3>2, ZenonT(30) DEF ProtocolInv, OwnerInv, ExecPcs, SocketPcs
    <2> QED BY <2>1, <2>2, ZenonT(30)
  <1>6. ReadyCall(c)'
    BY <1>0, <1>1, <1>s, Zenon DEF ProtocolInv, HandshakeInv, ReadyCall, InRegistry, ParentOpen, SocketPcs
  <1> QED BY <1>1, <1>2, <1>3, <1>4, <1>5, <1>6, QuietChild, Zenon

LEMMA PayloadExitQuiet ==
  ASSUME NEW c \in Callers, IInv, QuietInv, PayloadExit(c)
  PROVE  QuietInv'
  <1>0. ProtocolTypeOK /\ RecordTypeOK /\ ProtocolInv
    BY ZenonT(30) DEF IInv, TypeOK
  <1>s. sb[c] \in Sandboxes /\ ReadyCall(c)
    BY <1>0, ZenonT(30) DEF ProtocolTypeOK, QuietInv
  <1>1. /\ UNCHANGED <<hstate, launched, eff, pc, sb, tmp, pol>>
        /\ \A d \in Callers \ {c} : child'[d] = child[d] /\ reply'[d] = reply[d] /\ killed'[d] = killed[d]
        /\ UNCHANGED <<ctx, ran>>
        /\ child[c] = "payload"
        /\ child'[c] = "none" /\ ~killed'[c]
        /\ reply'[c] = "none" \/ ~ParentOpen(c)
        /\ ParentOpen(c) \/ reply' = reply
    BY <1>0 DEF PayloadExit, ChildEnds, ProtocolTypeOK, RecordTypeOK, handleVars, cgroupVars, bpfVars, callVars, childVars, history
  <1>2. Others(c)
    BY <1>1, Zenon DEF Others
  <1>3. \A t \in Sandboxes : ctx'[t].policy = ctx[t].policy
    BY <1>1, Zenon
  <1>4. ASSUME NEW t \in Sandboxes PROVE TurnAt(t)'
    BY <1>1, Zenon DEF QuietInv, TurnAt, InRegistry
  <1>5. \A d \in Callers : pc[d] \in {"setup_write", "swap"} /\ ran'[sb[d]] => ran[sb[d]]
    BY <1>1, Zenon
  <1>6. ReadyCall(c)'
    BY <1>0, <1>1, <1>s, Zenon DEF ProtocolInv, HandshakeInv, ReadyCall, InRegistry, ParentOpen, SocketPcs
  <1> QED BY <1>1, <1>2, <1>3, <1>4, <1>5, <1>6, QuietChild, Zenon

LEMMA DieQuiet ==
  ASSUME NEW c \in Callers, IInv, QuietInv, Die(c)
  PROVE  QuietInv'
  <1>0. ProtocolTypeOK /\ RecordTypeOK /\ ProtocolInv
    BY ZenonT(30) DEF IInv, TypeOK
  <1>s. sb[c] \in Sandboxes /\ ReadyCall(c)
    BY <1>0, ZenonT(30) DEF ProtocolTypeOK, QuietInv
  <1>1. /\ UNCHANGED <<hstate, launched, eff, pc, sb, tmp, pol>>
        /\ \A d \in Callers \ {c} : child'[d] = child[d] /\ reply'[d] = reply[d] /\ killed'[d] = killed[d]
        /\ UNCHANGED <<ctx, ran>>
        /\ killed[c]
        /\ child'[c] = "none" /\ ~killed'[c]
        /\ reply'[c] = reply[c]
    BY <1>0 DEF Die, ChildEnds, ProtocolTypeOK, RecordTypeOK, handleVars, cgroupVars, bpfVars, callVars, childVars, history
  <1>2. Others(c)
    BY <1>1, Zenon DEF Others
  <1>3. \A t \in Sandboxes : ctx'[t].policy = ctx[t].policy
    BY <1>1, Zenon
  <1>4. ASSUME NEW t \in Sandboxes PROVE TurnAt(t)'
    BY <1>1, Zenon DEF QuietInv, TurnAt, InRegistry
  <1>5. \A d \in Callers : pc[d] \in {"setup_write", "swap"} /\ ran'[sb[d]] => ran[sb[d]]
    BY <1>1, Zenon
  <1>6. ReadyCall(c)'
    BY <1>0, <1>1, <1>s, Zenon DEF ProtocolInv, HandshakeInv, ReadyCall, InRegistry, ParentOpen, SocketPcs
  <1> QED BY <1>1, <1>2, <1>3, <1>4, <1>5, <1>6, QuietChild, Zenon

\* A step that moves no caller and touches neither handles, contexts nor children.
LEMMA QuietSame ==
  ASSUME QuietInv,
         UNCHANGED <<hstate, launched, eff, ctx, pc, sb, tmp, pol, child, reply, killed, ran>>
  PROVE  QuietInv'
  <1>1. ASSUME NEW s \in Sandboxes PROVE TurnAt(s)' /\ HandleAt(s)'
    <2>1. TurnAt(s) /\ HandleAt(s)
      BY Zenon DEF QuietInv
    <2> QED BY <2>1, Zenon DEF TurnAt, HandleAt, InRegistry
  <1>2. ASSUME NEW c \in Callers PROVE TurnCall(c)' /\ ReadyCall(c)' /\ HandleCall(c)'
    <2>1. TurnCall(c) /\ ReadyCall(c) /\ HandleCall(c)
      BY Zenon DEF QuietInv
    <2> QED BY <2>1, ZenonT(30) DEF TurnCall, ReadyCall, HandleCall, InRegistry
  <1> QED BY <1>1, <1>2, Zenon DEF QuietInv

LEMMA QuietInit == Init => QuietInv
  <1> SUFFICES ASSUME Init PROVE QuietInv
    BY Zenon
  <1>1. ASSUME NEW s \in Sandboxes PROVE TurnAt(s) /\ HandleAt(s)
    BY Zenon DEF Init, TurnAt, HandleAt, InRegistry
  <1>2. ASSUME NEW c \in Callers PROVE TurnCall(c) /\ ReadyCall(c) /\ HandleCall(c)
    BY Zenon DEF Init, TurnCall, ReadyCall, HandleCall, SocketPcs
  <1> QED BY <1>1, <1>2, Zenon DEF QuietInv

\* Every step keeps the invariant: one case per action.
LEMMA QuietNext ==
  ASSUME "pause" \notin Ops, "capability" \notin Ops, IInv, QuietInv, [Next]_vars
  PROVE  QuietInv'
  <1>1. ASSUME NEW c \in Callers, CallStep(c) PROVE QuietInv'
    <2>1. ~CapWrite(c)
      BY Zenon DEF CapWrite, QuietInv, TurnCall
    <2> QED BY <1>1, <2>1, CreateApplyQuiet, CreateRegisterQuiet, CreateAttachQuiet,
          CreateInsertQuiet, SetupReadQuiet, SetupWriteQuiet, CloneQuiet, GoQuiet, RecvQuiet,
          InstallQuiet, SwapQuiet, ReleaseQuiet, RecordQuiet, WaitQuiet, FinishQuiet, TurnWriteQuiet,
          KillAllQuiet, WaitEmptyQuiet, RmdirQuiet, DeregisterQuiet, Zenon DEF CallStep
  <1>2. ASSUME NEW c \in Callers, \/ ChildStep(c) \/ PayloadOp(c) \/ PayloadExit(c) \/ Die(c)
        PROVE  QuietInv'
    BY <1>2, ChildStartQuiet, ChildMountsQuiet, ChildReadyQuiet, ChildExecQuiet, PayloadOpQuiet,
       PayloadExitQuiet, DieQuiet, Zenon DEF ChildStep
  <1>3. ASSUME NEW c \in Callers, NEW s \in Sandboxes, CallStart(c, s) PROVE QuietInv'
    <2>1. \A cap \in Caps : ~Grant(c, s, cap) /\ ~Revoke(c, s, cap)
      BY Zenon DEF Grant, Revoke, ApplyCapability
    <2> QED BY <1>3, <2>1, CreateCgroupQuiet, ExecBeginQuiet, DestroyRemoveQuiet, BeginTurnQuiet,
          Zenon DEF CallStart
  <1>4. ASSUME NEW s \in Sandboxes,
               EndTurn(s) \/ Pause(s) \/ Resume(s) \/ FreezeSettles(s) \/ Age(s) \/ Sweep(s)
        PROVE  QuietInv'
    <2>1. ~Pause(s) /\ ~Resume(s)
      BY Zenon DEF Pause, Resume
    <2>2. UNCHANGED <<hstate, launched, eff, ctx, pc, sb, tmp, pol, child, reply, killed, ran>>
      BY <1>4, <2>1, Zenon DEF EndTurn, FreezeSettles, Age, Sweep, handleVars, bpfVars, callVars,
         childVars, history
    <2> QED BY <2>2, QuietSame, Zenon
  <1>5. ASSUME NEW p \in Policies, RegisterPolicy(p) PROVE QuietInv'
    <2>1. UNCHANGED <<hstate, launched, eff, ctx, pc, sb, tmp, pol, child, reply, killed, ran>>
      BY <1>5, Zenon DEF RegisterPolicy, handleVars, bpfVars, callVars, childVars, history
    <2> QED BY <2>1, QuietSame, Zenon
  <1>6. CASE UNCHANGED vars
    <2>1. UNCHANGED <<hstate, launched, eff, ctx, pc, sb, tmp, pol, child, reply, killed, ran>>
      BY <1>6, Zenon DEF vars, handleVars, bpfVars, callVars, childVars, history
    <2> QED BY <2>1, QuietSame, Zenon
  <1> QED BY <1>1, <1>2, <1>3, <1>4, <1>5, <1>6, Zenon DEF Next

LEMMA QuietInductive ==
  ASSUME "pause" \notin Ops, "capability" \notin Ops
  PROVE  Spec => []QuietInv
  <1>1. Init => QuietInv
    BY QuietInit, Zenon
  <1>2. IInv /\ QuietInv /\ [Next]_vars => QuietInv'
    BY QuietNext, Zenon
  <1> QED BY <1>1, <1>2, Inductive, PTL DEF Spec

\* end_turn alone reports on a turn.
LEMMA ReportsKept ==
  ASSUME [Next]_vars, \A s \in Sandboxes : ~EndTurn(s)
  PROVE  UNCHANGED <<outcome, acted>>
  <1>1. ASSUME NEW c \in Callers, CallStep(c) PROVE UNCHANGED <<outcome, acted>>
    <2>1. CASE CreateApply(c) \/ CreateRegister(c) \/ CreateAttach(c) \/ CreateInsert(c)
      BY <2>1, Zenon DEF CreateApply, CreateRegister, CreateAttach, CreateInsert, history
    <2>2. CASE SetupRead(c) \/ SetupWrite(c) \/ Clone(c) \/ Go(c) \/ Recv(c) \/ Install(c)
      BY <2>2, Zenon DEF SetupRead, SetupWrite, Clone, Go, Recv, Install, history
    <2>3. CASE Swap(c) \/ Release(c) \/ Record(c) \/ Wait(c) \/ Finish(c)
      BY <2>3, Zenon DEF Swap, Release, Record, Wait, Finish, history
    <2>4. CASE \/ TurnWrite(c) \/ CapWrite(c) \/ KillAll(c) \/ WaitEmpty(c) \/ Rmdir(c)
               \/ Deregister(c)
      BY <2>4, Zenon DEF TurnWrite, CapWrite, KillAll, WaitEmpty, Rmdir, Deregister, history
    <2> QED BY <1>1, <2>1, <2>2, <2>3, <2>4, Zenon DEF CallStep
  <1>2. ASSUME NEW c \in Callers, \/ ChildStep(c) \/ PayloadOp(c) \/ PayloadExit(c) \/ Die(c)
        PROVE  UNCHANGED <<outcome, acted>>
    BY <1>2, Zenon DEF ChildStep, ChildStart, ChildMounts, ChildReady, ChildExec, PayloadOp, PayloadExit,
       Die, history
  <1>3. ASSUME NEW c \in Callers, NEW s \in Sandboxes, CallStart(c, s)
        PROVE  UNCHANGED <<outcome, acted>>
    BY <1>3, Zenon DEF CallStart, CreateCgroup, ExecBegin, DestroyRemove, BeginTurn, Grant, Revoke,
       ApplyCapability, history
  <1>4. ASSUME NEW s \in Sandboxes, Pause(s) \/ Resume(s) \/ FreezeSettles(s) \/ Age(s) \/ Sweep(s)
        PROVE  UNCHANGED <<outcome, acted>>
    BY <1>4, Zenon DEF Pause, Resume, FreezeSettles, Age, Sweep, history
  <1>5. ASSUME NEW p \in Policies, RegisterPolicy(p) PROVE UNCHANGED <<outcome, acted>>
    BY <1>5, Zenon DEF RegisterPolicy, history
  <1>6. CASE UNCHANGED vars
    BY <1>6, Zenon DEF vars, history
  <1> QED BY <1>1, <1>2, <1>3, <1>4, <1>5, <1>6, Zenon DEF Next

\* end_turn is "Fail-closed in every uncertain case": as long as no client changes
\* capabilities or pauses, it calls no turn clean in which a payload acted, whichever
\* begin_turn, launch, destroy or failure came in between.
THEOREM CleanTurns ==
  ASSUME "pause" \notin Ops, "capability" \notin Ops
  PROVE  Spec => []CleanTurnIsClean
  <1>1. Init => CleanTurnIsClean
    BY Zenon DEF Init, CleanTurnIsClean
  <1>2. IInv /\ QuietInv /\ CleanTurnIsClean /\ [Next]_vars => CleanTurnIsClean'
    <2> SUFFICES ASSUME IInv, QuietInv, CleanTurnIsClean, [Next]_vars PROVE CleanTurnIsClean'
      BY Zenon
    <2>1. ASSUME NEW s \in Sandboxes, EndTurn(s) PROVE CleanTurnIsClean'
      <3>1. PICK o \in TurnOutcomes(s) : outcome' = [outcome EXCEPT ![s] = o]
        BY <2>1, Zenon DEF EndTurn
      <3>2. outcome \in [Sandboxes -> {"clean", "dirty", "error"}] /\ acted \in [Sandboxes -> BOOLEAN]
        BY Zenon DEF IInv, TypeOK, RecordTypeOK
      <3>3. ran[s] => o # "clean"
        BY <2>1, Zenon DEF TurnOutcomes, QuietInv, TurnAt, EndTurn
      <3>4. outcome'[s] = o /\ (acted'[s] <=> ran[s])
        BY <2>1, <3>1, <3>2, Zenon DEF EndTurn
      <3>5. \A t \in Sandboxes \ {s} : outcome'[t] = outcome[t] /\ acted'[t] = acted[t]
        BY <2>1, <3>1, <3>2, Zenon DEF EndTurn
      <3> QED BY <3>3, <3>4, <3>5, Zenon DEF CleanTurnIsClean
    <2>2. CASE \A s \in Sandboxes : ~EndTurn(s)
      BY <2>2, ReportsKept, Zenon DEF CleanTurnIsClean
    <2> QED BY <2>1, <2>2, Zenon
  <1> QED BY <1>1, <1>2, Inductive, QuietInductive, PTL DEF Spec

\* effective_policy is "what L5 currently enforces": as long as no client changes
\* capabilities or pauses, a launch that is raced by turns, destroys and other
\* launches records in the handle the policy it left in the kernel.
THEOREM HandleTrue ==
  ASSUME "pause" \notin Ops, "capability" \notin Ops
  PROVE  Spec => []HandleMatchesKernel
  <1>1. IInv /\ QuietInv => HandleMatchesKernel
    <2> SUFFICES ASSUME IInv, QuietInv, NEW s \in Sandboxes, hstate[s] = "Ready", launched[s]
                 PROVE  ctx[s].policy = eff[s]
      BY Zenon DEF HandleMatchesKernel
    <2>1. \A c \in Callers : sb[c] = s => pc[c] \notin {"release", "record"}
      BY Zenon DEF IInv, ProtocolInv, PhaseInv, ExecPcs, SocketPcs
    <2>2. HandleAt(s) /\ InRegistry(s)
      BY Zenon DEF QuietInv, InRegistry
    <2> QED BY <2>1, <2>2, Zenon DEF HandleAt
  <1> QED BY <1>1, Inductive, QuietInductive, PTL

=============================================================================
