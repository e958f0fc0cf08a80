----------------------------- MODULE PolicyMaps -----------------------------
(***************************************************************************)
(* BpfManager (aivisor-bpf maps.rs): how an L5 policy gets into the kernel *)
(* maps, is replaced and taken down, one map operation at a time, while    *)
(* the LSM hooks (exec.bpf.c, fs.bpf.c, net.bpf.c) read those maps.        *)
(*                                                                         *)
(* A policy has fs rules (a path and the accesses it allows), exec rules   *)
(* (a file) and net rules (an address and its ports).  fs and exec rules   *)
(* live in index ranges that sandbox_ctx points at, net rules under        *)
(* (cgroup id, address).  The mutex BpfManager.inner serialises the        *)
(* updates, so one operation is under way at a time; hooks take no lock.   *)
(***************************************************************************)
EXTENDS RuleRanges, Functions

CONSTANTS
  Cgids,       \* registered cgroup ids
  Objects,     \* paths and files that rules name and hooks are asked about
  Addrs,       \* destinations that net rules name
  Ports,
  Plans,       \* the policies callers install
  MaxEntries,  \* max_entries of each rule map
  MaxRules,    \* MAX_RULES_PER_SANDBOX
  Questions,   \* what the hooks are asked: <<table, object, access>> triples
  HookSpan,    \* how many updates may start while one hook invocation runs
  Faults,      \* map operations that may fail: "write", "swap", "delete"
  MaxFaults    \* how many of them fail in one behaviour

Tables == {"fs", "exec"}
Accesses == {"read", "write"}
Rule == [obj : Objects, mask : SUBSET Accesses]
NetRules == [Addrs -> SUBSET Ports]    \* {}: no entry
Plan == [fs : Seq(Rule), exec : Seq(Rule), net : NetRules]
DenyAll == [fs |-> <<>>, exec |-> <<>>, net |-> [a \in Addrs |-> {}]]

ASSUME MapsAssumption ==
  /\ MaxEntries \in Nat \ {0} /\ MaxRules \in Nat
  /\ "op" \notin Cgids /\ IsFiniteSet(Addrs)
  /\ Plans \subseteq Plan
  /\ Questions \subseteq (Tables \X Objects \X Accesses)
  /\ Faults \subseteq {"write", "swap", "delete"}
  /\ MaxFaults \in Nat

Slots == 0 .. (MaxEntries - 1)
NoRange == [t \in Tables |-> RuleRange(0, 0)]

VARIABLES
  \* BpfManagerInner
  alloc,      \* fs_alloc and exec_alloc
  book,       \* registered: the ranges and net keys to take down again
  op,         \* the operation holding the mutex
  \* the kernel maps
  slots,      \* fs_rules and exec_rules: index -> the rules stored there (at most one)
  net,        \* net_rules
  ctx,        \* sandboxes: presence, FLAG_ENFORCING and the two ranges
  hook,       \* a hook invocation in progress
  inForce,    \* history: the policy of the last swap
  failed      \* history: the map operations that have failed, in order

vars == <<alloc, book, op, slots, net, ctx, hook, inForce, failed>>
kernel == <<slots, net, ctx>>
history == <<inForce, failed>>

\* One pending map operation: an index of a rule map, or a net key.
SlotOp(t, i, rules) == [map |-> t, at |-> i, rules |-> rules]
NetOp(a, ports) == [map |-> "net", at |-> a, rules |-> ports]

Idle == [phase |-> "idle"]

Init ==
  /\ alloc = [t \in Tables |-> NewAllocator(MaxEntries)]
  /\ book = [c \in Cgids |-> [in |-> FALSE, range |-> NoRange, keys |-> {}]]
  /\ op = Idle
  /\ slots = [t \in Tables |-> [i \in Slots |-> {}]]
  /\ net = [c \in Cgids |-> [a \in Addrs |-> {}]]
  /\ ctx = [c \in Cgids |-> [present |-> FALSE, enforcing |-> FALSE, range |-> NoRange]]
  /\ hook = [on |-> FALSE]
  /\ inForce = [c \in Cgids |-> DenyAll]
  /\ failed = <<>>

\* A map operation of some kind returns an error.
Fails(kind) ==
  /\ kind \in Faults
  /\ Len(failed) < MaxFaults
  /\ failed' = Append(failed, kind)

-----------------------------------------------------------------------------
(* register_sandbox and begin_setup *)

Register(c) ==
  /\ op = Idle
  /\ ~book[c].in
  /\ ctx' = [ctx EXCEPT ![c] = [present |-> TRUE, enforcing |-> FALSE, range |-> NoRange]]
  /\ book' = [book EXCEPT ![c] = [in |-> TRUE, range |-> NoRange, keys |-> {}]]
  /\ inForce' = [inForce EXCEPT ![c] = DenyAll]
  /\ UNCHANGED <<alloc, op, slots, net, hook, failed>>

BeginSetup(c) ==
  /\ op = Idle
  /\ book[c].in
  /\ ctx' = [ctx EXCEPT ![c].enforcing = FALSE]
  /\ UNCHANGED <<alloc, book, op, slots, net, hook, history>>

-----------------------------------------------------------------------------
(* update_policy *)

Count(p, t) == Len(p[t])
Keys(p) == {a \in Addrs : p.net[a] # {}}
OneByOne(S) == CHOOSE s \in Bijection(1 .. Cardinality(S), S) : TRUE

\* The map writes of a plan, in order: fs rules, exec rules, net rules.
Writes(p, range) ==
  LET rules(t) == [i \in 1 .. Count(p, t) |-> SlotOp(t, range[t].base + i - 1, {p[t][i]})]
      keys == OneByOne(Keys(p))
  IN  rules("fs") \o rules("exec") \o [i \in DOMAIN keys |-> NetOp(keys[i], p.net[keys[i]])]

\* Deleting a range and a set of net keys.
Deletes(range, keys) ==
  LET rules(t) == [i \in 1 .. range[t].len |-> SlotOp(t, range[t].base + i - 1, {})]
      gone == OneByOne(keys)
  IN  rules("fs") \o rules("exec") \o [i \in DOMAIN gone |-> NetOp(gone[i], {})]

\* A map operation on behalf of cgroup c.
Apply(c, o) ==
  IF o.map = "net"
    THEN net' = [net EXCEPT ![c][o.at] = o.rules] /\ UNCHANGED slots
    ELSE slots' = [slots EXCEPT ![o.map][o.at] = o.rules] /\ UNCHANGED net

\* At most HookSpan updates start while a hook invocation runs.
HookAllows == hook.on => hook.spans < HookSpan
CountSpan(c) ==
  hook' = IF hook.on THEN [hook EXCEPT !.spans = @ + 1, !.quiet = @ /\ hook.cg # c] ELSE hook

\* Validation (a plan of more than MaxRules rules is refused), then both
\* allocations; if the second fails the first is released, and nothing changed.
Validates_AnyCount(p) == TRUE
Validates(p) == \A t \in Tables : Count(p, t) <= MaxRules

UpdateBegin(c, p) ==
  /\ op = Idle
  /\ HookAllows
  /\ Validates(p)
  /\ book[c].in
  /\ \A t \in Tables : ~AllocFails(alloc[t], Count(p, t))
  /\ LET range == [t \in Tables |-> RuleRange(AllocBase(alloc[t], Count(p, t)), Count(p, t))]
     IN  op' = [phase |-> "write", cg |-> c, plan |-> p, range |-> range, todo |-> Writes(p, range)]
  /\ alloc' = [t \in Tables |-> AllocRest(alloc[t], Count(p, t))]
  /\ CountSpan(c)
  /\ UNCHANGED <<book, kernel, history>>

UpdateWrite ==
  /\ op.phase = "write" /\ op.todo # <<>>
  /\ Apply(op.cg, Head(op.todo))
  /\ op' = [op EXCEPT !.todo = Tail(@)]
  /\ UNCHANGED <<alloc, book, ctx, hook, history>>

\* A failed write unwinds: every net key of the plan and the new ranges are
\* deleted, and the ranges go back to the allocators.  (The deletes succeed here:
\* no context points at what they delete.)
UpdateUnwind ==
  /\ Fails("write")
  /\ op.phase = "write" /\ op.todo # <<>>
  /\ net' = [net EXCEPT ![op.cg] = [a \in Addrs |-> IF a \in Keys(op.plan) THEN {} ELSE @[a]]]
  /\ slots' = [t \in Tables |-> [i \in Slots |-> IF i \in Indices(op.range[t]) THEN {} ELSE slots[t][i]]]
  /\ alloc' = [t \in Tables |-> Release(alloc[t], op.range[t].base, op.range[t].len)]
  /\ op' = Idle
  /\ UNCHANGED <<book, ctx, hook, inForce>>

\* read_ctx and the swap of the whole sandbox_ctx, then the bookkeeping.  What
\* is left to delete is the old ranges, and the old keys the plan does not have.
StaleKeys_All(old, p) == old.keys
StaleKeys(old, p) == old.keys \ Keys(p)

UpdateSwap ==
  LET c == op.cg
      old == book[c]
  IN
  /\ op.phase = "write" /\ op.todo = <<>>
  /\ ctx' = [ctx EXCEPT ![c] = [present |-> TRUE, enforcing |-> TRUE, range |-> op.range]]
  /\ book' = [book EXCEPT ![c] = [in |-> TRUE, range |-> op.range, keys |-> Keys(op.plan)]]
  /\ op' = [phase |-> "delete", cg |-> c, drop |-> FALSE, range |-> old.range,
            todo |-> Deletes(old.range, StaleKeys(old, op.plan))]
  /\ inForce' = [inForce EXCEPT ![c] = op.plan]
  /\ hook' = IF hook.on /\ hook.cg = c THEN [hook EXCEPT !.legal = @ \cup {op.plan}] ELSE hook
  /\ UNCHANGED <<alloc, slots, net, failed>>

\* read_ctx or the swap fails: update_policy returns, and that is all.
UpdateAbandoned ==
  /\ Fails("swap")
  /\ op.phase = "write" /\ op.todo = <<>>
  /\ op' = Idle
  /\ UNCHANGED <<alloc, book, kernel, hook, inForce>>

-----------------------------------------------------------------------------
(* deregister_sandbox, called when the cgroup is confirmed empty *)

Deregister(c) ==
  /\ op = Idle
  /\ HookAllows
  /\ book[c].in
  /\ hook.on => hook.cg # c
  /\ book' = [book EXCEPT ![c].in = FALSE]
  /\ op' = [phase |-> "delete", cg |-> c, drop |-> TRUE, range |-> book[c].range,
            todo |-> Deletes(book[c].range, book[c].keys)]
  /\ CountSpan(c)
  /\ UNCHANGED <<alloc, kernel, history>>

\* The deletions of update_policy and deregister_sandbox; a failure is swallowed.
DeleteStep ==
  /\ op.phase = "delete" /\ op.todo # <<>>
  /\ \/ Apply(op.cg, Head(op.todo)) /\ UNCHANGED failed
     \/ Fails("delete") /\ UNCHANGED <<slots, net>>
  /\ op' = [op EXCEPT !.todo = Tail(@)]
  /\ UNCHANGED <<alloc, book, ctx, hook, inForce>>

\* The ranges go back to the allocators; deregister_sandbox then deletes the
\* context, last of all.
Reclaimed_NewRange(c) == [t \in Tables |-> Release(alloc[t], ctx[c].range[t].base, ctx[c].range[t].len)]
Reclaimed_Leaks(c) == alloc
Reclaimed(c) == [t \in Tables |-> Release(alloc[t], op.range[t].base, op.range[t].len)]

DeleteDone ==
  LET c == op.cg IN
  /\ op.phase = "delete" /\ op.todo = <<>>
  /\ alloc' = Reclaimed(c)
  /\ \/ /\ ctx' = IF op.drop
                   THEN [ctx EXCEPT ![c] = [present |-> FALSE, enforcing |-> FALSE, range |-> NoRange]]
                   ELSE ctx
        /\ UNCHANGED failed
     \/ op.drop /\ Fails("delete") /\ UNCHANGED ctx
  /\ op' = Idle
  /\ UNCHANGED <<book, slots, net, hook, inForce>>

-----------------------------------------------------------------------------
(* The hooks: aivisor_bprm_check_security and aivisor_file_open *)

\* The lookup of the context.  The pointer it returns stays valid, and keeps its
\* ranges, for the rest of the run.  A task of c exists only while c is
\* registered; without an enforcing context the hook returns at once.
HookBegin(c, q) ==
  /\ ~hook.on
  /\ book[c].in
  /\ ctx[c].present /\ ctx[c].enforcing
  /\ hook' = [on |-> TRUE, cg |-> c, table |-> q[1], obj |-> q[2], access |-> q[3],
              range |-> ctx[c].range[q[1]], i |-> 0, says |-> "undecided",
              spans |-> 0, quiet |-> op = Idle \/ op.cg # c, legal |-> {inForce[c]}]
  /\ UNCHANGED <<alloc, book, op, kernel, history>>

\* The verdict on the rule found at an index: exec allows the file a rule names,
\* fs denies an access that the first rule for the path lacks.
RuleVerdict(t, rule, obj, access) ==
  IF rule.obj # obj THEN "undecided"
  ELSE IF t = "exec" \/ access \in rule.mask THEN "allow" ELSE "deny"

\* The verdict when no rule names the object.
Default(t) == IF t = "exec" THEN "deny" ELSE "allow"

Examined(h) == h.i < h.range.len /\ h.i < MaxRules

HookRead ==
  /\ hook.on /\ hook.says = "undecided"
  /\ IF Examined(hook)
       THEN LET found == slots[hook.table][hook.range.base + hook.i]
                says == {RuleVerdict(hook.table, r, hook.obj, hook.access) : r \in found}
            IN  hook' = [hook EXCEPT !.i = @ + 1,
                                     !.says = IF found = {} THEN @ ELSE CHOOSE v \in says : TRUE]
       ELSE hook' = [hook EXCEPT !.says = Default(hook.table)]
  /\ UNCHANGED <<alloc, book, op, kernel, history>>

HookEnd ==
  /\ hook.on /\ hook.says # "undecided"
  /\ hook' = [on |-> FALSE]
  /\ UNCHANGED <<alloc, book, op, kernel, history>>

-----------------------------------------------------------------------------
Update == UpdateWrite \/ UpdateUnwind \/ UpdateSwap \/ UpdateAbandoned \/ DeleteStep \/ DeleteDone

Next ==
  \/ \E c \in Cgids :
       \/ Register(c) \/ BeginSetup(c) \/ Deregister(c)
       \/ \E p \in Plans : UpdateBegin(c, p)
       \/ \E q \in Questions : HookBegin(c, q)
  \/ Update
  \/ HookRead \/ HookEnd

Spec == Init /\ [][Next]_vars
-----------------------------------------------------------------------------
\* What the context of an enforcing sandbox points at is exactly the policy of
\* its last completed update, whatever updates of it or of other sandboxes are
\* under way, fail half-way or are abandoned.
InstalledRulesIntact ==
  \A c \in Cgids, t \in Tables :
    book[c].in /\ ctx[c].enforcing =>
      LET r == ctx[c].range[t] IN
      /\ r.len = Len(inForce[c][t])
      /\ \A i \in 1 .. r.len : slots[t][r.base + i - 1] = {inForce[c][t][i]}

\* The ranges in use: of the registered sandboxes, and of the operation under way.
Holders == {c \in Cgids : book[c].in} \cup {"op"}
Held(h, t) ==
  IF h # "op" THEN Indices(book[h].range[t]) ELSE IF op = Idle THEN {} ELSE Indices(op.range[t])

AllAccountedFor ==
  \A t \in Tables : FreeIndices(alloc[t]) \cup UNION {Held(h, t) : h \in Holders} = Slots

\* "unwind any partial map writes on failure": between operations every index is
\* free or belongs to a registered sandbox.
NoDeadSpace == op = Idle => AllAccountedFor

\* No index of a rule map is held twice, or held and free, and churning sandboxes
\* does not exhaust the maps, also when writes and deletes have failed and updates
\* were unwound; only a failed swap leaves dead space.
RangesConserved ==
  /\ \A t \in Tables, h \in Holders :
       /\ Held(h, t) \cap FreeIndices(alloc[t]) = {}
       /\ \A k \in Holders \ {h} : Held(h, t) \cap Held(k, t) = {}
  /\ op = Idle /\ "swap" \notin Range(failed) => AllAccountedFor

\* "the handle keeps describing the policy the kernel still holds": between
\* operations, as long as none has failed, the destinations a sandbox may reach
\* are those of its policy, although the net rules of the old and the new policy
\* share keys and are rewritten in place.
NetFollowsPolicy ==
  op = Idle /\ failed = <<>> => \A c \in Cgids : book[c].in => net[c] = inForce[c].net

\* "the sandbox observes the old generation or the new one, never a mix": the
\* net rules change generation with the context, as the other rules do.
NeverAMix ==
  \A c \in Cgids : book[c].in /\ ctx[c].enforcing => net[c] = inForce[c].net

\* What policy p says of an access: the first rule that names the object.
Decides(p, t, obj, access) ==
  LET naming == {i \in DOMAIN p[t] : p[t][i].obj = obj}
  IN  IF naming = {} THEN Default(t) ELSE RuleVerdict(t, p[t][Min(naming)], obj, access)

Allowed(h) == \E p \in h.legal : Decides(p, h.table, h.obj, h.access) = "allow"

\* A hook invocation during which its sandbox is not updated decides by the
\* sandbox's policy and by all of it, whatever happens to other sandboxes.
QuietDecisionExact ==
  hook.on /\ hook.says # "undecided" /\ hook.quiet =>
    \A p \in hook.legal : hook.says = Decides(p, hook.table, hook.obj, hook.access)

\* "no window exists in which the sandbox is less restricted than either the old
\* or the new policy", for an execve already being checked: what the hook allows,
\* a policy in force during its run allows...
InflightExecNeverLooser == hook.on /\ hook.table = "exec" /\ hook.says = "allow" => Allowed(hook)

\* ... and indeed so, if no further update begins before the hook returns.
ExecNeverLooser == hook.on /\ hook.spans = 0 => InflightExecNeverLooser

\* The same of an open already being checked.
FsNeverLooser == hook.on /\ hook.table = "fs" /\ hook.says = "allow" => Allowed(hook)
=============================================================================
