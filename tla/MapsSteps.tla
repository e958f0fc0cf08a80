----------------------------- MODULE MapsSteps -----------------------------
(***************************************************************************)
(* The inductive invariant of PolicyMaps, and that every step keeps it.    *)
(* What the steps rely on of the free lists, of the lists of map           *)
(* operations and of the order of rules is stated here and proved in       *)
(* RangeProofs and MapsProofs, which draws the conclusions.                                *)
(***************************************************************************)
EXTENDS PolicyMaps, TLAPS

Extent == [base : Nat, len : Nat]
Extents == [Tables -> Extent]
MapOp == [map : Tables \cup {"net"}, at : Nat \cup Addrs, rules : (SUBSET Rule) \cup (SUBSET Ports)]

-----------------------------------------------------------------------------
(* The inductive invariant *)

Writing == op \in [phase : {"write"}, cg : Cgids, plan : Plan, range : Extents, todo : Seq(MapOp)]
Deleting == op \in [phase : {"delete"}, cg : Cgids, drop : BOOLEAN, range : Extents, todo : Seq(MapOp)]
Asked == hook \in [on : {TRUE}, cg : Cgids, table : Tables, obj : Objects, access : Accesses,
                   range : Extent, i : Nat, says : {"undecided", "allow", "deny"},
                   spans : Nat, quiet : BOOLEAN, legal : SUBSET Plan]

TypeInv ==
  /\ DOMAIN alloc = Tables /\ \A t \in Tables : Tidy(alloc[t])
  /\ book \in [Cgids -> [in : BOOLEAN, range : Extents, keys : SUBSET Addrs]]
  /\ op = Idle \/ Writing \/ Deleting
  /\ slots \in [Tables -> [Slots -> SUBSET Rule]]
  /\ net \in [Cgids -> [Addrs -> SUBSET Ports]]
  /\ ctx \in [Cgids -> [present : BOOLEAN, enforcing : BOOLEAN, range : Extents]]
  /\ hook = [on |-> FALSE] \/ Asked
  /\ inForce \in [Cgids -> Plan]
  /\ failed \in Seq(Faults)

\* The free indices of a rule map, those of a sandbox's range, and those of
\* the operation under way.
Free(t) == FreeIndices(alloc[t])
BookIdx(c, t) == Indices(book[c].range[t])
OpIdx(t) == IF op = Idle THEN {} ELSE Indices(op.range[t])

\* Every index is free or held, by one holder; only a failed swap loses some.
RangeInv ==
  /\ \A t \in Tables : Free(t) \subseteq Slots /\ OpIdx(t) \subseteq Slots /\ OpIdx(t) \cap Free(t) = {}
  /\ \A t \in Tables, c \in Cgids : book[c].in =>
       /\ BookIdx(c, t) \subseteq Slots
       /\ BookIdx(c, t) \cap Free(t) = {} /\ BookIdx(c, t) \cap OpIdx(t) = {}
  /\ \A t \in Tables, c, d \in Cgids :
       c # d /\ book[c].in /\ book[d].in => BookIdx(c, t) \cap BookIdx(d, t) = {}
  /\ "swap" \notin Range(failed) =>
       \A t \in Tables : \A x \in Slots :
         x \in Free(t) \/ x \in OpIdx(t) \/ \E c \in Cgids : book[c].in /\ x \in BookIdx(c, t)

\* Rules p[1], p[2], ... are stored from the base of r on.
Stored(t, r, rules) ==
  /\ r.len = Len(rules)
  /\ \A i \in 1 .. r.len : slots[t][r.base + i - 1] = {rules[i]}

\* A registered sandbox's context and bookkeeping agree, and its range holds
\* the rules of its policy, which has at most MaxRules in a table.
Installed(c) ==
  /\ ctx[c].range = book[c].range
  /\ \A t \in Tables : Stored(t, book[c].range[t], inForce[c][t])
  /\ Validates(inForce[c])

RuleInv == \A c \in Cgids : book[c].in => Installed(c)

\* What the operation under way has still to do: of a plan, every rule is
\* written or pending; what a deletion writes is nothing, into its own range.
PlanOp(o) ==
  \/ \E t \in Tables : \E i \in 1 .. Len(op.plan[t]) :
       o = SlotOp(t, op.range[t].base + i - 1, {op.plan[t][i]})
  \/ \E a \in Keys(op.plan) : o = NetOp(a, op.plan.net[a])
Emptying(o) ==
  \/ \E t \in Tables : \E x \in Indices(op.range[t]) : o = SlotOp(t, x, {})
  \/ \E a \in Addrs : o = NetOp(a, {}) /\ (~op.drop => a \notin Keys(inForce[op.cg]))

OpInv ==
  /\ op.phase = "write" =>
       /\ book[op.cg].in
       /\ Validates(op.plan)
       /\ \A o \in Range(op.todo) : PlanOp(o)
       /\ \A t \in Tables :
            /\ op.range[t].len = Len(op.plan[t])
            /\ \A i \in 1 .. op.range[t].len :
                 LET x == op.range[t].base + i - 1 IN
                 \/ slots[t][x] = {op.plan[t][i]}
                 \/ SlotOp(t, x, {op.plan[t][i]}) \in Range(op.todo)
  /\ op.phase = "delete" =>
       /\ book[op.cg].in = ~op.drop
       /\ \A o \in Range(op.todo) : Emptying(o)

\* As long as no map operation has failed, the net rules of a sandbox without
\* an operation are those of its policy; those of the operation's sandbox are,
\* up to what is pending.
Keyed == \A c \in Cgids : book[c].in => book[c].keys = Keys(inForce[c])
Settled(c) == \A a \in Addrs : net[c][a] = IF book[c].in THEN inForce[c].net[a] ELSE {}
NetWriting ==
  \A a \in Addrs :
    IF a \in Keys(op.plan)
      THEN net[op.cg][a] = op.plan.net[a] \/ NetOp(a, op.plan.net[a]) \in Range(op.todo)
      ELSE net[op.cg][a] = inForce[op.cg].net[a]
NetDeleting ==
  \A a \in Addrs :
    \/ net[op.cg][a] = IF op.drop THEN {} ELSE inForce[op.cg].net[a]
    \/ NetOp(a, {}) \in Range(op.todo)

NetInv ==
  failed = <<>> =>
    /\ Keyed
    /\ \A c \in Cgids : op = Idle \/ op.cg # c => Settled(c)
    /\ op.phase = "write" => NetWriting
    /\ op.phase = "delete" => NetDeleting

\* The rules in a hook's range, where the range may be under deletion.
Remnant(p) ==
  LET r == hook.range IN
  /\ r.len = Len(p[hook.table])
  /\ \A j \in 1 .. r.len : slots[hook.table][r.base + j - 1] \subseteq {p[hook.table][j]}

\* An invocation without an update of its sandbox reads the policy in force,
\* and has met no rule for its object yet or has decided by the first.
HookQuiet ==
  LET p == inForce[hook.cg]
      rules == p[hook.table]
  IN  /\ hook.legal = {p}
      /\ hook.range = ctx[hook.cg].range[hook.table]
      /\ op = Idle \/ op.cg # hook.cg
      /\ hook.says = "undecided" =>
           hook.i <= Len(rules) /\ \A j \in 1 .. hook.i : rules[j].obj # hook.obj
      /\ hook.says # "undecided" =>
           hook.says = Decides(p, hook.table, hook.obj, hook.access)

\* An invocation during which no update has begun reads what is left of a
\* policy that was in force, and no index being written.
HookFresh ==
  /\ \E p \in hook.legal : Remnant(p)
  /\ op.phase = "write" => Indices(hook.range) \cap Indices(op.range[hook.table]) = {}
  /\ hook.table = "exec" /\ hook.says = "allow" => Allowed(hook)

HookInv ==
  hook.on =>
    /\ book[hook.cg].in
    /\ Indices(hook.range) \subseteq Slots
    /\ hook.quiet => HookQuiet
    /\ hook.spans = 0 => HookFresh

IInv == TypeInv /\ RangeInv /\ RuleInv /\ OpInv /\ NetInv /\ HookInv

-----------------------------------------------------------------------------
(* What the steps rely on: the free list, the lists of map operations, and  *)
(* the first rule for an object.  MapsProofs proves each of these.          *)

\* alloc takes a block of free indices and keeps the list tidy.
AllocSound ==
  \A fl : \A n \in Nat : Tidy(fl) /\ ~AllocFails(fl, n) =>
    LET r == RuleRange(AllocBase(fl, n), n) IN
    /\ r \in Extent /\ r.len = n
    /\ Tidy(AllocRest(fl, n))
    /\ Indices(r) \subseteq FreeIndices(fl)
    /\ FreeIndices(AllocRest(fl, n)) = FreeIndices(fl) \ Indices(r)

\* release gives exactly the block back.
ReleaseSound ==
  \A fl : \A r \in Extent : Tidy(fl) /\ Indices(r) \cap FreeIndices(fl) = {} =>
    LET u == Release(fl, r.base, r.len)
    IN  Tidy(u) /\ FreeIndices(u) = FreeIndices(fl) \cup Indices(r)

\* The map operations of an update, and those of a deletion.
WritesSound ==
  \A p \in Plan, range \in Extents :
    /\ Writes(p, range) \in Seq(MapOp)
    /\ \A o : o \in Range(Writes(p, range)) <=>
         \/ \E t \in Tables : \E i \in 1 .. Len(p[t]) :
              o = SlotOp(t, range[t].base + i - 1, {p[t][i]})
         \/ \E a \in Keys(p) : o = NetOp(a, p.net[a])
DeletesSound ==
  \A keys \in SUBSET Addrs, range \in Extents :
    /\ Deletes(range, keys) \in Seq(MapOp)
    /\ \A o : o \in Range(Deletes(range, keys)) <=>
         \/ \E t \in Tables : \E x \in Indices(range[t]) : o = SlotOp(t, x, {})
         \/ \E a \in keys : o = NetOp(a, {})

\* Rule k is the first of policy p for the object.
FirstNaming(p, t, k, obj) ==
  k \in 1 .. Len(p[t]) /\ p[t][k].obj = obj /\ \A j \in 1 .. k - 1 : p[t][j].obj # obj

\* The first rule for an object decides; any exec rule for it allows it.
FirstSound ==
  \A p \in Plan, t \in Tables : \A obj, access, k : FirstNaming(p, t, k, obj) =>
    Decides(p, t, obj, access) = RuleVerdict(t, p[t][k], obj, access)
DefaultSound ==
  \A p \in Plan, t \in Tables : \A obj, access : (\A j \in 1 .. Len(p[t]) : p[t][j].obj # obj) =>
    Decides(p, t, obj, access) = Default(t)
AllowSound ==
  \A p \in Plan : \A obj, access : \A k \in 1 .. Len(p["exec"]) : p["exec"][k].obj = obj =>
    Decides(p, "exec", obj, access) = "allow"
DecidesSound == FirstSound /\ DefaultSound /\ AllowSound

-----------------------------------------------------------------------------
(* Sequences, policies and ranges *)

LEMMA RangeOfTail ==
  ASSUME NEW S, NEW s \in Seq(S), s # <<>>
  PROVE  /\ Head(s) \in S /\ Tail(s) \in Seq(S)
         /\ Range(s) = {Head(s)} \cup Range(Tail(s))
  <1>1. Len(s) \in Nat /\ Len(s) # 0
    OBVIOUS
  <1>2. /\ Head(s) = s[1] /\ Head(s) \in S /\ Tail(s) \in Seq(S) /\ Len(Tail(s)) = Len(s) - 1
        /\ \A i \in 1 .. Len(s) - 1 : Tail(s)[i] = s[i + 1]
    BY <1>1
  <1>d. DOMAIN s = 1 .. Len(s) /\ DOMAIN Tail(s) = 1 .. Len(s) - 1
    BY <1>2
  <1>3. /\ Range(s) = {s[i] : i \in 1 .. Len(s)}
        /\ Range(Tail(s)) = {Tail(s)[i] : i \in 1 .. Len(s) - 1}
    BY <1>d, Zenon DEF Range
  <1>4. ASSUME NEW x \in Range(s) PROVE x = Head(s) \/ x \in Range(Tail(s))
    <2>1. PICK i \in 1 .. Len(s) : x = s[i]
      BY <1>3, Zenon
    <2>2. CASE i = 1
      BY <1>2, <2>1, <2>2, Zenon
    <2>3. CASE i # 1
      <3>1. i - 1 \in 1 .. Len(s) - 1 /\ (i - 1) + 1 = i
        BY <1>1, <2>3
      <3>2. Tail(s)[i - 1] = s[i]
        BY <1>2, <3>1, Zenon
      <3> QED BY <1>3, <2>1, <3>1, <3>2, Zenon
    <2> QED BY <2>2, <2>3, Zenon
  <1>5. ASSUME NEW x \in Range(Tail(s)) PROVE x \in Range(s)
    <2>1. PICK i \in 1 .. Len(s) - 1 : x = Tail(s)[i]
      BY <1>3, Zenon
    <2>2. i + 1 \in 1 .. Len(s) /\ x = s[i + 1]
      BY <1>1, <1>2, <2>1
    <2> QED BY <1>3, <2>2, Zenon
  <1>6. Head(s) \in Range(s)
    BY <1>1, <1>2, <1>3
  <1> QED BY <1>2, <1>4, <1>5, <1>6, Zenon

LEMMA RangeOfEmpty == Range(<<>>) = {}
  BY DEF Range

LEMMA PlanType ==
  ASSUME NEW p \in Plan
  PROVE  /\ \A t \in Tables : p[t] \in Seq(Rule) /\ Len(p[t]) \in Nat
                             /\ \A i \in 1 .. Len(p[t]) : p[t][i] \in Rule
         /\ p.net \in [Addrs -> SUBSET Ports]
         /\ Keys(p) \in SUBSET Addrs
  <1>1. p.fs \in Seq(Rule) /\ p.exec \in Seq(Rule) /\ p.net \in [Addrs -> SUBSET Ports]
    BY Zenon DEF Plan, NetRules
  <1>2. \A t \in Tables : p[t] \in Seq(Rule)
    BY <1>1, Zenon DEF Tables
  <1>3. \A t \in Tables : Len(p[t]) \in Nat /\ \A i \in 1 .. Len(p[t]) : p[t][i] \in Rule
    BY <1>2
  <1> QED BY <1>1, <1>2, <1>3, Zenon DEF Keys

LEMMA ExtentType ==
  ASSUME NEW r \in Extents, NEW t \in Tables
  PROVE  r[t] \in Extent /\ r[t].base \in Nat /\ r[t].len \in Nat
  <1>1. r[t] \in Extent
    BY Zenon DEF Extents
  <1> QED BY <1>1, Zenon DEF Extent

LEMMA EmptyRange ==
  ASSUME NEW b \in Nat
  PROVE  Indices(RuleRange(b, 0)) = {} /\ RuleRange(b, 0) \in Extent
  <1>1. RuleRange(b, 0).base = b /\ RuleRange(b, 0).len = 0 /\ RuleRange(b, 0) \in Extent
    BY Zenon DEF RuleRange, Extent
  <1>2. b .. (b + 0 - 1) = {}
    OBVIOUS
  <1> QED BY <1>1, <1>2, Zenon DEF Indices

-----------------------------------------------------------------------------
(* Types *)

LEMMA OpCases ==
  ASSUME TypeInv
  PROVE  /\ op = Idle \/ op.phase = "write" \/ op.phase = "delete"
         /\ op = Idle => op.phase = "idle" /\ op.phase # "write" /\ op.phase # "delete"
         /\ op.phase = "write" => op # Idle /\ Writing /\ op.cg \in Cgids /\ op.plan \in Plan
                                 /\ op.range \in Extents /\ op.todo \in Seq(MapOp)
         /\ op.phase = "delete" => op # Idle /\ Deleting /\ op.cg \in Cgids /\ op.drop \in BOOLEAN
                                  /\ op.range \in Extents /\ op.todo \in Seq(MapOp)
  <1>1. op = Idle => op.phase = "idle"
    BY DEF Idle
  <1>2. Writing => op.phase = "write" /\ op.cg \in Cgids /\ op.plan \in Plan
                   /\ op.range \in Extents /\ op.todo \in Seq(MapOp)
    BY Zenon DEF Writing
  <1>3. Deleting => op.phase = "delete" /\ op.cg \in Cgids /\ op.drop \in BOOLEAN
                    /\ op.range \in Extents /\ op.todo \in Seq(MapOp)
    BY Zenon DEF Deleting
  <1>4. op = Idle \/ Writing \/ Deleting
    BY Zenon DEF TypeInv
  <1> QED BY <1>1, <1>2, <1>3, <1>4, Zenon

LEMMA SandboxTypes ==
  ASSUME TypeInv, NEW c \in Cgids
  PROVE  /\ book[c] \in [in : BOOLEAN, range : Extents, keys : SUBSET Addrs]
         /\ book[c].in \in BOOLEAN /\ book[c].range \in Extents /\ book[c].keys \in SUBSET Addrs
         /\ ctx[c] \in [present : BOOLEAN, enforcing : BOOLEAN, range : Extents]
         /\ ctx[c].range \in Extents
         /\ net[c] \in [Addrs -> SUBSET Ports]
         /\ inForce[c] \in Plan
  <1>1. /\ book[c] \in [in : BOOLEAN, range : Extents, keys : SUBSET Addrs]
        /\ ctx[c] \in [present : BOOLEAN, enforcing : BOOLEAN, range : Extents]
        /\ net[c] \in [Addrs -> SUBSET Ports]
        /\ inForce[c] \in Plan
    BY Zenon DEF TypeInv
  <1>2. book[c].in \in BOOLEAN /\ book[c].range \in Extents /\ book[c].keys \in SUBSET Addrs
        /\ ctx[c].range \in Extents
    BY <1>1, Zenon
  <1> QED BY <1>1, <1>2, Zenon

LEMMA HookTypes ==
  ASSUME TypeInv, hook.on
  PROVE  /\ Asked /\ hook.cg \in Cgids /\ hook.table \in Tables /\ hook.obj \in Objects
         /\ hook.access \in Accesses /\ hook.range \in Extent /\ hook.i \in Nat
         /\ hook.says \in {"undecided", "allow", "deny"}
         /\ hook.spans \in Nat /\ hook.quiet \in BOOLEAN /\ hook.legal \in SUBSET Plan
  <1>1. Asked
    <2>1. hook = [on |-> FALSE] => ~hook.on
      OBVIOUS
    <2> QED BY <2>1, Zenon DEF TypeInv
  <1> QED BY <1>1, Zenon DEF Asked

LEMMA NoRangeType == NoRange \in Extents /\ \A t \in Tables : Indices(NoRange[t]) = {} /\ NoRange[t].len = 0
  <1>1. RuleRange(0, 0) \in Extent /\ Indices(RuleRange(0, 0)) = {}
    BY EmptyRange, Zenon
  <1>2. RuleRange(0, 0).len = 0
    BY Zenon DEF RuleRange
  <1> QED BY <1>1, <1>2, Zenon DEF NoRange, Extents

LEMMA DenyAllType ==
  /\ DenyAll \in Plan
  /\ \A t \in Tables : DenyAll[t] = <<>>
  /\ \A a \in Addrs : DenyAll.net[a] = {}
  /\ Keys(DenyAll) = {}
  <1>1. [a \in Addrs |-> {}] \in NetRules
    BY Zenon DEF NetRules
  <1>2. <<>> \in Seq(Rule)
    OBVIOUS
  <1>3. DenyAll \in Plan
    BY <1>1, <1>2, Zenon DEF DenyAll, Plan
  <1>4. DenyAll.fs = <<>> /\ DenyAll.exec = <<>> /\ \A a \in Addrs : DenyAll.net[a] = {}
    BY Zenon DEF DenyAll
  <1>5. \A t \in Tables : DenyAll[t] = <<>>
    BY <1>4, Zenon DEF Tables
  <1> QED BY <1>3, <1>4, <1>5, Zenon DEF Keys

LEMMA FailsType ==
  ASSUME TypeInv, NEW kind, Fails(kind)
  PROVE  /\ failed' \in Seq(Faults) /\ failed' # <<>>
         /\ Range(failed') = Range(failed) \cup {kind}
  <1>1. failed \in Seq(Faults) /\ kind \in Faults /\ failed' = Append(failed, kind)
    BY Zenon DEF TypeInv, Fails
  <1>2. failed' \in Seq(Faults) /\ Len(failed') = Len(failed) + 1 /\ Len(failed) \in Nat
    BY <1>1
  <1>3. failed' # <<>>
    BY <1>2
  <1>4. /\ DOMAIN failed = 1 .. Len(failed) /\ DOMAIN failed' = 1 .. Len(failed) + 1
        /\ failed'[Len(failed) + 1] = kind
        /\ \A i \in 1 .. Len(failed) : failed'[i] = failed[i]
    BY <1>1, <1>2
  <1>5. ASSUME NEW i \in 1 .. Len(failed) + 1 PROVE i \in 1 .. Len(failed) \/ i = Len(failed) + 1
    BY <1>2
  <1>6. 1 .. Len(failed) \subseteq 1 .. Len(failed) + 1 /\ Len(failed) + 1 \in 1 .. Len(failed) + 1
    BY <1>2
  <1>7. /\ Range(failed') = {failed'[i] : i \in 1 .. Len(failed) + 1}
        /\ Range(failed) = {failed[i] : i \in 1 .. Len(failed)}
    BY <1>4, Zenon DEF Range
  <1>8. Range(failed') = Range(failed) \cup {kind}
    BY <1>4, <1>5, <1>6, <1>7, Zenon
  <1> QED BY <1>2, <1>3, <1>8, Zenon

LEMMA CountSpanType ==
  ASSUME TypeInv, NEW c, CountSpan(c)
  PROVE  (hook = [on |-> FALSE] \/ Asked)'
  <1>1. CASE ~hook.on
    <2>1. hook' = hook
      BY <1>1, Zenon DEF CountSpan
    <2> QED BY <2>1, Zenon DEF TypeInv, Asked
  <1>2. CASE hook.on
    <2>1. hook' = [hook EXCEPT !.spans = @ + 1, !.quiet = @ /\ hook.cg # c]
      BY <1>2, Zenon DEF CountSpan
    <2>2. Asked /\ hook.spans + 1 \in Nat /\ (hook.quiet /\ hook.cg # c) \in BOOLEAN
      BY <1>2, HookTypes
    <2>3. Asked'
      BY <2>1, <2>2, Zenon DEF Asked
    <2> QED BY <2>3, Zenon
  <1> QED BY <1>1, <1>2, Zenon

-----------------------------------------------------------------------------
(* What the actions do to the maps, the allocators and the pending operations *)

LEMMA OpIdxIs ==
  ASSUME TypeInv, op.phase = "write" \/ op.phase = "delete", NEW t \in Tables
  PROVE  OpIdx(t) = Indices(op.range[t]) /\ op.range[t] \in Extent
  BY OpCases, ExtentType, Zenon DEF OpIdx

LEMMA ReclaimFacts ==
  ASSUME ReleaseSound, TypeInv, RangeInv, op.phase = "write" \/ op.phase = "delete",
         alloc' = [t \in Tables |-> Release(alloc[t], op.range[t].base, op.range[t].len)]
  PROVE  /\ DOMAIN alloc' = Tables
         /\ \A t \in Tables : Tidy(alloc'[t]) /\ Free(t)' = Free(t) \cup OpIdx(t)
  <1>1. ASSUME NEW t \in Tables PROVE Tidy(alloc'[t]) /\ Free(t)' = Free(t) \cup OpIdx(t)
    <2>1. OpIdx(t) = Indices(op.range[t]) /\ op.range[t] \in Extent
      BY OpIdxIs, Zenon
    <2>2. Tidy(alloc[t]) /\ Indices(op.range[t]) \cap FreeIndices(alloc[t]) = {}
      BY <2>1, Zenon DEF TypeInv, RangeInv, Free
    <2>3. alloc'[t] = Release(alloc[t], op.range[t].base, op.range[t].len)
      BY Zenon
    <2>4. LET u == Release(alloc[t], op.range[t].base, op.range[t].len)
          IN  Tidy(u) /\ FreeIndices(u) = FreeIndices(alloc[t]) \cup Indices(op.range[t])
      BY <2>1, <2>2, Zenon DEF ReleaseSound
    <2>5. Free(t)' = FreeIndices(alloc'[t])
      BY Zenon DEF Free, FreeIndices
    <2> QED BY <2>1, <2>3, <2>4, <2>5, Zenon DEF Free
  <1> QED BY <1>1, Zenon

SlotWritten(t, x, rules) ==
  \A u \in Tables, y \in Slots : slots'[u][y] = IF u = t /\ y = x THEN rules ELSE slots[u][y]

-----------------------------------------------------------------------------
(* Ranges *)

LEMMA SameFree ==
  ASSUME alloc' = alloc, NEW t
  PROVE  Free(t)' = Free(t)
  BY Zenon DEF Free, FreeIndices

LEMMA SameBook ==
  ASSUME NEW c, NEW t, book'[c] = book[c]
  PROVE  BookIdx(c, t)' = BookIdx(c, t)
  BY Zenon DEF BookIdx, Indices

LEMMA SameOp ==
  ASSUME op' = op, NEW t
  PROVE  OpIdx(t)' = OpIdx(t)
  BY Zenon DEF OpIdx, Indices, Idle

\* An operation that leaves the bookkeeping alone may move its own indices to
\* or from the free ones.
LEMMA RangeMoved ==
  ASSUME RangeInv, book' = book, Range(failed) \subseteq Range(failed'),
         \A t \in Tables : /\ OpIdx(t)' \subseteq OpIdx(t) \cup Free(t)
                           /\ Free(t)' = (OpIdx(t) \cup Free(t)) \ OpIdx(t)'
  PROVE  RangeInv'
  <1>1. \A c \in Cgids, t \in Tables : BookIdx(c, t)' = BookIdx(c, t)
    BY SameBook, Zenon
  <1>2. \A t \in Tables : Free(t)' \subseteq Slots /\ OpIdx(t)' \subseteq Slots /\ OpIdx(t)' \cap Free(t)' = {}
    BY Zenon DEF RangeInv
  <1>3. ASSUME NEW t \in Tables, NEW c \in Cgids, book'[c].in
        PROVE  /\ BookIdx(c, t)' \subseteq Slots
               /\ BookIdx(c, t)' \cap Free(t)' = {} /\ BookIdx(c, t)' \cap OpIdx(t)' = {}
    <2>1. /\ BookIdx(c, t) \subseteq Slots
          /\ BookIdx(c, t) \cap Free(t) = {} /\ BookIdx(c, t) \cap OpIdx(t) = {}
      BY <1>3, Zenon DEF RangeInv
    <2> QED BY <1>1, <2>1, Zenon
  <1>4. \A t \in Tables, c, d \in Cgids :
          c # d /\ book'[c].in /\ book'[d].in => BookIdx(c, t)' \cap BookIdx(d, t)' = {}
    BY <1>1 DEF RangeInv
  <1>5. ASSUME "swap" \notin Range(failed'), NEW t \in Tables, NEW x \in Slots
        PROVE  x \in Free(t)' \/ x \in OpIdx(t)' \/ \E c \in Cgids : book'[c].in /\ x \in BookIdx(c, t)'
    <2>1. x \in Free(t) \/ x \in OpIdx(t) \/ \E c \in Cgids : book[c].in /\ x \in BookIdx(c, t)
      BY <1>5, Zenon DEF RangeInv
    <2> QED BY <1>1, <2>1, Zenon
  <1> QED BY <1>2, <1>3, <1>4, <1>5, Zenon DEF RangeInv, Slots, Tables, Range

\* Steps that move no index.
LEMMA RangeStays ==
  ASSUME RangeInv, book' = book, alloc' = alloc, Range(failed) \subseteq Range(failed'),
         \A t \in Tables : OpIdx(t)' = OpIdx(t)
  PROVE  RangeInv'
  <1>1. \A t \in Tables : Free(t)' = Free(t)
    BY SameFree, Zenon
  <1>2. \A t \in Tables : /\ OpIdx(t)' \subseteq OpIdx(t) \cup Free(t)
                          /\ Free(t)' = (OpIdx(t) \cup Free(t)) \ OpIdx(t)'
    BY <1>1 DEF RangeInv
  <1> QED BY <1>2, RangeMoved, Zenon

LEMMA StillRange ==
  ASSUME RangeInv, UNCHANGED <<alloc, book, op, failed>>
  PROVE  RangeInv'
  <1>1. \A t \in Tables : OpIdx(t)' = OpIdx(t)
    BY SameOp, Zenon
  <1>2. Range(failed) \subseteq Range(failed')
    BY Zenon
  <1> QED BY <1>1, <1>2, RangeStays, Zenon

-----------------------------------------------------------------------------
(* Rules *)

LEMMA InstalledStays ==
  ASSUME TypeInv, RangeInv, NEW c \in Cgids, book[c].in, Installed(c),
         book'[c] = book[c], ctx'[c].range = ctx[c].range, inForce'[c] = inForce[c],
         \A t \in Tables, x \in Slots : x \in BookIdx(c, t) => slots'[t][x] = slots[t][x]
  PROVE  Installed(c)'
  <1>1. ctx'[c].range = book'[c].range /\ Validates(inForce'[c])
    BY Zenon DEF Installed
  <1>2. ASSUME NEW t \in Tables PROVE Stored(t, book[c].range[t], inForce[c][t])'
    <2> DEFINE r == book[c].range[t]
               rules == inForce[c][t]
    <2>1. r.len = Len(rules) /\ \A i \in 1 .. r.len : slots[t][r.base + i - 1] = {rules[i]}
      BY Zenon DEF Installed, Stored
    <2>2. r.base \in Nat /\ r.len \in Nat
      BY SandboxTypes, ExtentType, Zenon
    <2>3. Indices(r) = BookIdx(c, t) /\ BookIdx(c, t) \subseteq Slots
      BY Zenon DEF BookIdx, RangeInv
    <2>4. book'[c].range[t] = r /\ inForce'[c][t] = rules
      BY Zenon
    <2> HIDE DEF r, rules
    <2>5. ASSUME NEW i \in 1 .. r.len PROVE slots'[t][r.base + i - 1] = {rules[i]}
      <3>1. r.base + i - 1 \in Indices(r)
        BY <2>2 DEF Indices
      <3>2. slots'[t][r.base + i - 1] = slots[t][r.base + i - 1]
        BY <2>3, <3>1, Zenon
      <3> QED BY <2>1, <3>2, Zenon
    <2> QED BY <2>1, <2>4, <2>5, Zenon DEF Stored
  <1> QED BY <1>1, <1>2, Zenon DEF Installed, Validates, Count

\* Steps that change no policy and write only to the range of the operation.
LEMMA RulesStay ==
  ASSUME TypeInv, RangeInv, RuleInv, book' = book, inForce' = inForce,
         \A c \in Cgids : book[c].in => ctx'[c].range = ctx[c].range,
         \A t \in Tables, x \in Slots : x \notin OpIdx(t) => slots'[t][x] = slots[t][x]
  PROVE  RuleInv'
  <1>1. ASSUME NEW c \in Cgids, book'[c].in PROVE Installed(c)'
    <2>1. book[c].in /\ Installed(c)
      BY <1>1, Zenon DEF RuleInv
    <2>2. \A t \in Tables, x \in Slots : x \in BookIdx(c, t) => x \notin OpIdx(t)
      BY <2>1, Zenon DEF RangeInv
    <2>3. \A t \in Tables, x \in Slots : x \in BookIdx(c, t) => slots'[t][x] = slots[t][x]
      BY <2>2, Zenon
    <2>4. book'[c] = book[c] /\ inForce'[c] = inForce[c] /\ ctx'[c].range = ctx[c].range
      BY <2>1, Zenon
    <2> QED BY <2>1, <2>3, <2>4, InstalledStays, Zenon
  <1> QED BY <1>1, Zenon DEF RuleInv

-----------------------------------------------------------------------------
(* The operation under way *)

LEMMA IdleOp ==
  ASSUME op' = Idle
  PROVE  OpInv'
  BY Zenon DEF OpInv, Idle

LEMMA DeletionOp ==
  ASSUME DeletesSound, NEW range \in Extents, NEW keys \in SUBSET Addrs,
         op'.phase = "delete", op'.range = range, op'.todo = Deletes(range, keys),
         book'[op'.cg].in = ~op'.drop,
         op'.drop \/ \A a \in keys : a \notin Keys(inForce'[op'.cg])
  PROVE  OpInv'
  <1>1. \A o : o \in Range(op'.todo) <=>
          \/ \E t \in Tables : \E x \in Indices(range[t]) : o = SlotOp(t, x, {})
          \/ \E a \in keys : o = NetOp(a, {})
    <2>1. \A o : o \in Range(Deletes(range, keys)) <=>
            \/ \E t \in Tables : \E x \in Indices(range[t]) : o = SlotOp(t, x, {})
            \/ \E a \in keys : o = NetOp(a, {})
      BY Zenon DEF DeletesSound
    <2> QED BY <2>1, Zenon
  <1>2. ASSUME NEW o \in Range(op'.todo) PROVE Emptying(o)'
    <2>1. CASE \E t \in Tables : \E x \in Indices(range[t]) : o = SlotOp(t, x, {})
      BY <2>1, Zenon DEF Emptying, SlotOp, Tables, Indices
    <2>2. CASE \E a \in keys : o = NetOp(a, {})
      BY <2>2, Zenon DEF Emptying, NetOp, Keys
    <2> QED BY <1>1, <2>1, <2>2, Zenon
  <1> QED BY <1>2, Zenon DEF OpInv, Range

LEMMA StillOp ==
  ASSUME OpInv, UNCHANGED <<book, op, slots, inForce>>
  PROVE  OpInv'
  <1>1. \A o : PlanOp(o)' <=> PlanOp(o)
    BY Zenon DEF PlanOp, SlotOp, NetOp, Keys
  <1>2. \A o : Emptying(o)' <=> Emptying(o)
    BY Zenon DEF Emptying, SlotOp, NetOp, Keys, Indices
  <1>3. CASE op.phase = "write"
    <2>1. /\ book'[op'.cg].in /\ Validates(op'.plan) /\ op'.phase # "delete"
          /\ \A o \in Range(op'.todo) : PlanOp(o)'
      BY <1>1, <1>3, Zenon DEF OpInv
    <2>2. \A t \in Tables :
            /\ op'.range[t].len = Len(op'.plan[t])
            /\ \A i \in 1 .. op'.range[t].len :
                 LET x == op'.range[t].base + i - 1 IN
                 \/ slots'[t][x] = {op'.plan[t][i]}
                 \/ SlotOp(t, x, {op'.plan[t][i]}) \in Range(op'.todo)
      BY <1>3, Zenon DEF OpInv
    <2> QED BY <2>1, <2>2, Zenon DEF OpInv, Validates, Count, Range, SlotOp
  <1>4. CASE op.phase = "delete"
    <2>1. /\ book'[op'.cg].in = ~op'.drop /\ op'.phase # "write"
          /\ \A o \in Range(op'.todo) : Emptying(o)'
      BY <1>2, <1>4, Zenon DEF OpInv
    <2> QED BY <2>1, Zenon DEF OpInv, Range
  <1>5. CASE op.phase # "write" /\ op.phase # "delete"
    BY <1>5, Zenon DEF OpInv
  <1> QED BY <1>3, <1>4, <1>5, Zenon

-----------------------------------------------------------------------------
(* Net rules *)

LEMMA KeysAre ==
  ASSUME NEW p \in Plan, NEW a \in Addrs
  PROVE  a \notin Keys(p) <=> p.net[a] = {}
  BY Zenon DEF Keys

LEMMA Faulted ==
  ASSUME TypeInv, NEW kind, Fails(kind)
  PROVE  NetInv'
  BY FailsType, Zenon DEF NetInv

LEMMA SameSettled ==
  ASSUME NEW c, Settled(c), book'[c] = book[c], inForce'[c] = inForce[c],
         \A a \in Addrs : net'[c][a] = net[c][a]
  PROVE  Settled(c)'
  BY Zenon DEF Settled

LEMMA StillNet ==
  ASSUME NetInv, UNCHANGED <<book, op, net, inForce, failed>>
  PROVE  NetInv'
  <1>1. Keyed' <=> Keyed
    BY Zenon DEF Keyed, Keys
  <1>2. \A c \in Cgids : Settled(c)' <=> Settled(c)
    BY Zenon DEF Settled
  <1>3. NetWriting' <=> NetWriting
    BY DEF NetWriting, Keys, NetOp, Range
  <1>4. NetDeleting' <=> NetDeleting
    BY Zenon DEF NetDeleting, NetOp, Range
  <1>5. (op = Idle)' <=> op = Idle
    BY Zenon DEF Idle
  <1> QED BY <1>1, <1>2, <1>3, <1>4, <1>5, Zenon DEF NetInv

-----------------------------------------------------------------------------
(* Hooks *)

LEMMA HookOff ==
  ASSUME hook' = [on |-> FALSE]
  PROVE  HookInv'
  BY Zenon DEF HookInv

\* What a hook has found is found by the policy in force, as long as that, the
\* context and the hook stay.
LEMMA QuietStays ==
  ASSUME HookQuiet, hook' = hook, inForce'[hook.cg] = inForce[hook.cg],
         ctx'[hook.cg].range = ctx[hook.cg].range, (op = Idle \/ op.cg # hook.cg)'
  PROVE  HookQuiet'
  <1>1. (/\ hook.legal = {inForce[hook.cg]}
         /\ hook.range = ctx[hook.cg].range[hook.table]
         /\ hook.says = "undecided" =>
              /\ hook.i <= Len(inForce[hook.cg][hook.table])
              /\ \A j \in 1 .. hook.i : inForce[hook.cg][hook.table][j].obj # hook.obj)'
    BY Zenon DEF HookQuiet
  <1>2. (hook.says # "undecided" =>
           hook.says = Decides(inForce[hook.cg], hook.table, hook.obj, hook.access))'
    BY Zenon DEF HookQuiet
  <1> QED BY <1>1, <1>2, Zenon DEF HookQuiet

LEMMA RemnantStays ==
  ASSUME TypeInv, hook.on, NEW p, Remnant(p), Indices(hook.range) \subseteq Slots,
         hook'.range = hook.range, hook'.table = hook.table,
         \A x \in Slots : x \in Indices(hook.range) =>
           slots'[hook.table][x] \subseteq slots[hook.table][x]
  PROVE  Remnant(p)'
  <1> DEFINE r == hook.range
             t == hook.table
  <1>1. r.base \in Nat /\ r.len \in Nat
    BY HookTypes, Zenon DEF Extent
  <1>2. r.len = Len(p[t]) /\ \A j \in 1 .. r.len : slots[t][r.base + j - 1] \subseteq {p[t][j]}
    BY Zenon DEF Remnant
  <1>3. hook'.range = r /\ hook'.table = t
    BY Zenon
  <1>4. \A x \in Slots : x \in Indices(r) => slots'[t][x] \subseteq slots[t][x]
    BY Zenon
  <1>5. Indices(r) \subseteq Slots
    BY Zenon
  <1> HIDE DEF r, t
  <1>6. ASSUME NEW j \in 1 .. r.len PROVE slots'[t][r.base + j - 1] \subseteq {p[t][j]}
    <2>1. r.base + j - 1 \in Indices(r)
      BY <1>1 DEF Indices
    <2>2. slots'[t][r.base + j - 1] \subseteq slots[t][r.base + j - 1]
      BY <1>4, <1>5, <2>1, Zenon
    <2>3. slots[t][r.base + j - 1] \subseteq {p[t][j]}
      BY <1>2, Zenon
    <2> QED BY <2>2, <2>3, Zenon
  <1> QED BY <1>2, <1>3, <1>6, Zenon DEF Remnant

LEMMA FreshStays ==
  ASSUME TypeInv, hook.on, HookFresh, Indices(hook.range) \subseteq Slots, hook' = hook,
         op'.phase = "write" => op.phase = "write" /\ op'.range = op.range,
         \A x \in Slots : x \in Indices(hook.range) =>
           slots'[hook.table][x] \subseteq slots[hook.table][x]
  PROVE  HookFresh'
  <1>1. \E p \in hook'.legal : Remnant(p)'
    BY RemnantStays, Zenon DEF HookFresh
  <1>2. op'.phase = "write" => Indices(hook'.range) \cap Indices(op'.range[hook'.table]) = {}
    BY Zenon DEF HookFresh
  <1>3. hook'.table = "exec" /\ hook'.says = "allow" => Allowed(hook)'
    <2>1. Allowed(hook) => Allowed(hook)'
      BY Zenon DEF Allowed
    <2> QED BY <2>1, Zenon DEF HookFresh
  <1> QED BY <1>1, <1>2, <1>3, Zenon DEF HookFresh, Indices

\* Steps of the runtime that leave a hook and what it decides by alone.
LEMMA HookStays ==
  ASSUME TypeInv, HookInv, hook' = hook,
         hook.on => /\ book'[hook.cg].in /\ inForce'[hook.cg] = inForce[hook.cg]
                    /\ ctx'[hook.cg].range = ctx[hook.cg].range,
         (op = Idle)' \/ (op # Idle /\ op'.cg = op.cg),
         op'.phase = "write" => op.phase = "write" /\ op'.range = op.range,
         hook.on /\ hook.spans = 0 => \A x \in Slots : x \in Indices(hook.range) =>
           slots'[hook.table][x] \subseteq slots[hook.table][x]
  PROVE  HookInv'
  <1>1. SUFFICES ASSUME hook.on PROVE HookInv'
    BY Zenon DEF HookInv
  <1>2. book'[hook'.cg].in /\ Indices(hook'.range) \subseteq Slots
    BY <1>1, Zenon DEF HookInv
  <1>3. hook.quiet => HookQuiet'
    <2>1. SUFFICES ASSUME hook.quiet PROVE HookQuiet'
      BY Zenon
    <2>2. HookQuiet
      BY <1>1, <2>1, Zenon DEF HookInv
    <2>3. (op = Idle \/ op.cg # hook.cg)'
      BY <2>2, Zenon DEF HookQuiet
    <2> QED BY <1>1, <2>2, <2>3, QuietStays, Zenon
  <1>4. hook.spans = 0 => HookFresh'
    <2>1. SUFFICES ASSUME hook.spans = 0 PROVE HookFresh'
      BY Zenon
    <2>2. HookFresh /\ Indices(hook.range) \subseteq Slots
      BY <1>1, <2>1, Zenon DEF HookInv
    <2> QED BY <1>1, <2>1, <2>2, FreshStays, Zenon
  <1> QED BY <1>2, <1>3, <1>4, Zenon DEF HookInv, Slots, Indices

\* The start of an operation ends the hook's quiet if it is its sandbox's, and
\* what is known of an invocation that no update overlaps in any case.
LEMMA StartHook ==
  ASSUME TypeInv, HookInv, NEW c \in Cgids, CountSpan(c), op = Idle, op'.cg = c,
         hook.on => book'[hook.cg].in, ctx' = ctx, inForce' = inForce
  PROVE  HookInv'
  <1>1. CASE ~hook.on
    <2>1. hook' = hook
      BY <1>1, Zenon DEF CountSpan
    <2> QED BY <1>1, <2>1, Zenon DEF HookInv
  <1>2. CASE hook.on
    <2>1. hook' = [hook EXCEPT !.spans = @ + 1, !.quiet = @ /\ hook.cg # c]
      BY <1>2, Zenon DEF CountSpan
    <2>2. Asked /\ hook.spans \in Nat
      BY <1>2, HookTypes, Zenon
    <2>3. /\ hook'.on = hook.on /\ hook'.cg = hook.cg /\ hook'.table = hook.table /\ hook'.obj = hook.obj
          /\ hook'.access = hook.access /\ hook'.range = hook.range /\ hook'.i = hook.i
          /\ hook'.says = hook.says /\ hook'.legal = hook.legal
          /\ hook'.spans = hook.spans + 1 /\ hook'.quiet = (hook.quiet /\ hook.cg # c)
      BY <2>1, <2>2, Zenon DEF Asked
    <2>4. hook'.spans # 0
      BY <2>2, <2>3
    <2>5. book'[hook'.cg].in /\ Indices(hook'.range) \subseteq Slots
      BY <1>2, <2>3, Zenon DEF HookInv
    <2>6. ASSUME hook'.quiet PROVE HookQuiet'
      <3>1. HookQuiet /\ hook.cg # c
        BY <1>2, <2>3, <2>6, Zenon DEF HookInv
      <3>2. (op = Idle \/ op.cg # hook.cg)'
        BY <2>3, <3>1, Zenon
      <3>3. (/\ hook.legal = {inForce[hook.cg]}
             /\ hook.range = ctx[hook.cg].range[hook.table]
             /\ hook.says = "undecided" =>
                  /\ hook.i <= Len(inForce[hook.cg][hook.table])
                  /\ \A j \in 1 .. hook.i : inForce[hook.cg][hook.table][j].obj # hook.obj)'
        BY <2>3, <3>1, ZenonT(30) DEF HookQuiet
      <3>4. (hook.says # "undecided" =>
               hook.says = Decides(inForce[hook.cg], hook.table, hook.obj, hook.access))'
        BY <2>3, <3>1, Zenon DEF HookQuiet
      <3> QED BY <3>2, <3>3, <3>4, Zenon DEF HookQuiet
    <2> QED BY <2>4, <2>5, <2>6, Zenon DEF HookInv, Slots, Indices
  <1> QED BY <1>1, <1>2, Zenon

\* A step that ends an operation, or happens between operations.
LEMMA IdleHook ==
  ASSUME TypeInv, HookInv, op' = Idle, hook' = hook,
         \A t \in Tables, x \in Slots : slots'[t][x] \subseteq slots[t][x],
         \A d \in Cgids : book[d].in => /\ book'[d].in /\ inForce'[d] = inForce[d]
                                       /\ ctx'[d].range = ctx[d].range
  PROVE  HookInv'
  <1>1. hook.on => /\ book'[hook.cg].in /\ inForce'[hook.cg] = inForce[hook.cg]
                   /\ ctx'[hook.cg].range = ctx[hook.cg].range
    BY HookTypes, Zenon DEF HookInv
  <1>2. (op = Idle)' /\ op'.phase # "write"
    BY Zenon DEF Idle
  <1>3. hook.on /\ hook.spans = 0 => \A x \in Slots : x \in Indices(hook.range) =>
          slots'[hook.table][x] \subseteq slots[hook.table][x]
    BY HookTypes, Zenon
  <1> QED BY <1>1, <1>2, <1>3, HookStays, Zenon

\* A step that changes at most the hook.
LEMMA StillIInv ==
  ASSUME IInv, UNCHANGED <<alloc, book, op, slots, net, ctx, inForce, failed>>,
         (hook = [on |-> FALSE] \/ Asked)', HookInv'
  PROVE  IInv'
  <1>1. TypeInv'
    BY Zenon DEF IInv, TypeInv, Tidy, Writing, Deleting
  <1>2. RangeInv'
    BY StillRange, Zenon DEF IInv
  <1>3. RuleInv'
    BY RulesStay, Zenon DEF IInv
  <1>4. OpInv'
    BY StillOp, Zenon DEF IInv
  <1>5. NetInv'
    BY StillNet, Zenon DEF IInv
  <1> QED BY <1>1, <1>2, <1>3, <1>4, <1>5, Zenon DEF IInv

-----------------------------------------------------------------------------
(* Every step keeps the invariant *)

LEMMA RegisterKeeps ==
  ASSUME IInv, NEW c \in Cgids, Register(c)
  PROVE  IInv'
  <1>inv. TypeInv /\ RangeInv /\ RuleInv /\ OpInv /\ NetInv /\ HookInv
    BY Zenon DEF IInv
  <1> USE <1>inv
  <1>type. TypeInv'
    <2>1. book' \in [Cgids -> [in : BOOLEAN, range : Extents, keys : SUBSET Addrs]]
      <3>1. [in |-> TRUE, range |-> NoRange, keys |-> {}]
              \in [in : BOOLEAN, range : Extents, keys : SUBSET Addrs]
        BY NoRangeType, Zenon
      <3> QED BY <3>1, Zenon DEF Register, TypeInv
    <2>2. ctx' \in [Cgids -> [present : BOOLEAN, enforcing : BOOLEAN, range : Extents]]
      <3>1. [present |-> TRUE, enforcing |-> FALSE, range |-> NoRange]
              \in [present : BOOLEAN, enforcing : BOOLEAN, range : Extents]
        BY NoRangeType, Zenon
      <3> QED BY <3>1, Zenon DEF Register, TypeInv
    <2>3. inForce' \in [Cgids -> Plan]
      BY DenyAllType, Zenon DEF Register, TypeInv
    <2>4. UNCHANGED <<alloc, op, slots, net, hook, failed>>
      BY Zenon DEF Register
    <2> QED BY <2>1, <2>2, <2>3, <2>4, Zenon DEF TypeInv, Tidy, Writing, Deleting, Asked
  <1>range. RangeInv'
    <2>1. /\ op = Idle /\ ~book[c].in /\ book' = [book EXCEPT ![c] = [in |-> TRUE, range |-> NoRange, keys |-> {}]]
          /\ UNCHANGED <<alloc, op, failed>>
      BY Zenon DEF Register
    <2>2. DOMAIN book = Cgids
      BY Zenon DEF TypeInv
    <2>3. \A t \in Tables : Free(t)' = Free(t) /\ OpIdx(t)' = OpIdx(t)
      BY <2>1, SameFree, SameOp, Zenon
    <2>4. ASSUME NEW t \in Tables PROVE BookIdx(c, t)' = {}
      BY <2>1, <2>2, NoRangeType, Zenon DEF BookIdx, Indices
    <2>5. ASSUME NEW d \in Cgids, d # c PROVE book'[d] = book[d] /\ \A t \in Tables : BookIdx(d, t)' = BookIdx(d, t)
      BY <2>1, <2>2, <2>5, SameBook, Zenon
    <2>6. \A t \in Tables : Free(t)' \subseteq Slots /\ OpIdx(t)' \subseteq Slots /\ OpIdx(t)' \cap Free(t)' = {}
      BY <2>3, Zenon DEF RangeInv
    <2>7. ASSUME NEW t \in Tables, NEW d \in Cgids, book'[d].in
          PROVE  /\ BookIdx(d, t)' \subseteq Slots
                 /\ BookIdx(d, t)' \cap Free(t)' = {} /\ BookIdx(d, t)' \cap OpIdx(t)' = {}
      <3>1. CASE d = c
        BY <2>4, <3>1, Zenon
      <3>2. CASE d # c
        BY <2>3, <2>5, <2>7, <3>2 DEF RangeInv
      <3> QED BY <3>1, <3>2, Zenon
    <2>8. ASSUME NEW t \in Tables, NEW d \in Cgids, NEW e \in Cgids, d # e, book'[d].in, book'[e].in
          PROVE  BookIdx(d, t)' \cap BookIdx(e, t)' = {}
      <3>1. CASE d = c \/ e = c
        BY <2>4, <3>1, Zenon
      <3>2. CASE d # c /\ e # c
        BY <2>5, <2>8, <3>2 DEF RangeInv
      <3> QED BY <3>1, <3>2, Zenon
    <2>9. ASSUME "swap" \notin Range(failed'), NEW t \in Tables, NEW x \in Slots
          PROVE  x \in Free(t)' \/ x \in OpIdx(t)' \/ \E d \in Cgids : book'[d].in /\ x \in BookIdx(d, t)'
      <3>1. x \in Free(t) \/ x \in OpIdx(t) \/ \E d \in Cgids : book[d].in /\ x \in BookIdx(d, t)
        BY <2>1, <2>9, Zenon DEF RangeInv
      <3>2. ASSUME NEW d \in Cgids, book[d].in, x \in BookIdx(d, t)
            PROVE  book'[d].in /\ x \in BookIdx(d, t)'
        BY <2>1, <2>5, <3>2, Zenon
      <3> QED BY <2>3, <3>1, <3>2, Zenon
    <2> QED BY <2>6, <2>7, <2>8, <2>9, Zenon DEF RangeInv, Slots, Tables, Range
  <1>rules. RuleInv'
    <2>1. /\ book'[c].range = NoRange /\ ctx'[c].range = NoRange /\ inForce'[c] = DenyAll
          /\ \A d \in Cgids : d # c => book'[d] = book[d] /\ ctx'[d] = ctx[d] /\ inForce'[d] = inForce[d]
          /\ slots' = slots
      BY Zenon DEF Register, TypeInv
    <2>2. Installed(c)'
      <3>1. ASSUME NEW t \in Tables PROVE Stored(t, book[c].range[t], inForce[c][t])'
        <4>1. book'[c].range[t].len = 0 /\ inForce'[c][t] = <<>>
          BY <2>1, NoRangeType, DenyAllType, Zenon
        <4> QED BY <4>1 DEF Stored
      <3>2. Validates(DenyAll)
        <4>1. \A t \in Tables : Len(DenyAll[t]) = 0
          BY DenyAllType
        <4> QED BY <4>1, MapsAssumption DEF Validates, Count
      <3>3. Validates(inForce[c])'
        BY <2>1, <3>2, Zenon DEF Validates, Count
      <3> QED BY <2>1, <3>1, <3>3, Zenon DEF Installed
    <2>3. ASSUME NEW d \in Cgids, d # c, book'[d].in PROVE Installed(d)'
      <3>1. book[d].in /\ Installed(d) /\ book'[d] = book[d] /\ ctx'[d].range = ctx[d].range
            /\ inForce'[d] = inForce[d]
        BY <2>1, <2>3, Zenon DEF RuleInv
      <3>2. \A t \in Tables, x \in Slots : x \in BookIdx(d, t) => slots'[t][x] = slots[t][x]
        BY <2>1, Zenon
      <3> QED BY <3>1, <3>2, InstalledStays, Zenon
    <2> QED BY <2>2, <2>3, Zenon DEF RuleInv
  <1>net. NetInv'
    <2>1. SUFFICES ASSUME failed' = <<>> PROVE NetInv'
      BY Zenon DEF NetInv
    <2>2. /\ op = Idle /\ op' = Idle /\ failed = <<>> /\ ~book[c].in /\ net' = net
          /\ book'[c].in /\ book'[c].keys = {} /\ inForce'[c] = DenyAll
          /\ \A d \in Cgids : d # c => book'[d] = book[d] /\ inForce'[d] = inForce[d]
      BY <2>1, Zenon DEF Register, TypeInv
    <2>3. Keyed /\ \A d \in Cgids : Settled(d)
      BY <2>2, Zenon DEF NetInv
    <2>4. Keyed'
      <3>1. \A d \in Cgids : d # c /\ book'[d].in => book'[d].keys = Keys(inForce'[d])
        BY <2>2, <2>3, Zenon DEF Keyed
      <3>2. book'[c].keys = Keys(inForce'[c])
        BY <2>2, DenyAllType, Zenon
      <3> QED BY <3>1, <3>2, Zenon DEF Keyed, Keys
    <2>5. Settled(c)'
      BY <2>2, <2>3, DenyAllType, Zenon DEF Settled
    <2>6. \A d \in Cgids : d # c => Settled(d)'
      BY <2>2, <2>3, SameSettled, Zenon
    <2>7. op'.phase # "write" /\ op'.phase # "delete"
      BY <2>2, Zenon DEF Idle
    <2> QED BY <2>4, <2>5, <2>6, <2>7, Zenon DEF NetInv
  <1>op. op' = Idle /\ OpInv'
    BY IdleOp, Zenon DEF Register
  <1>hook. HookInv'
    <2>1. /\ hook' = hook /\ slots' = slots
          /\ \A d \in Cgids : book[d].in => /\ book'[d].in /\ inForce'[d] = inForce[d]
                                            /\ ctx'[d].range = ctx[d].range
      BY Zenon DEF Register, TypeInv
    <2> QED BY <1>op, <2>1, IdleHook, Zenon
  <1> QED BY <1>type, <1>range, <1>rules, <1>op, <1>net, <1>hook, Zenon DEF IInv

LEMMA BeginSetupKeeps ==
  ASSUME IInv, NEW c \in Cgids, BeginSetup(c)
  PROVE  IInv'
  <1>inv. TypeInv /\ RangeInv /\ RuleInv /\ OpInv /\ NetInv /\ HookInv
    BY ZenonT(30) DEF IInv
  <1> USE <1>inv
  <1>type. TypeInv'
    <2>1. ctx' \in [Cgids -> [present : BOOLEAN, enforcing : BOOLEAN, range : Extents]]
      <3>1. [ctx[c] EXCEPT !.enforcing = FALSE] \in [present : BOOLEAN, enforcing : BOOLEAN, range : Extents]
        BY SandboxTypes, Zenon
      <3>2. ctx' = [ctx EXCEPT ![c] = [ctx[c] EXCEPT !.enforcing = FALSE]]
        BY Zenon DEF BeginSetup
      <3> QED BY <3>1, <3>2, Zenon DEF TypeInv
    <2>2. UNCHANGED <<alloc, book, op, slots, net, hook, inForce, failed>>
      BY Zenon DEF BeginSetup, history
    <2> QED BY <2>1, <2>2, Zenon DEF TypeInv, Tidy, Writing, Deleting, Asked
  <1>rules. RuleInv'
    <2>1. /\ book' = book /\ inForce' = inForce /\ slots' = slots
          /\ ctx' = [ctx EXCEPT ![c].enforcing = FALSE]
      BY Zenon DEF BeginSetup, history
    <2>2. \A d \in Cgids : ctx'[d].range = ctx[d].range
      <3>1. ctx \in [Cgids -> [present : BOOLEAN, enforcing : BOOLEAN, range : Extents]]
        BY Zenon DEF TypeInv
      <3> QED BY <2>1, <3>1, Zenon
    <2> QED BY <2>1, <2>2, RulesStay, Zenon
  <1>1. op' = Idle /\ UNCHANGED <<alloc, book, op, slots, net, hook, inForce, failed>>
    BY Zenon DEF BeginSetup, history
  <1>range. RangeInv' /\ NetInv'
    BY <1>1, StillRange, StillNet, Zenon
  <1>op. OpInv'
    BY <1>1, IdleOp, Zenon
  <1>hook. HookInv'
    <2>1. ctx' = [ctx EXCEPT ![c].enforcing = FALSE]
      BY Zenon DEF BeginSetup
    <2>2. ctx \in [Cgids -> [present : BOOLEAN, enforcing : BOOLEAN, range : Extents]]
      BY ZenonT(30) DEF TypeInv
    <2>3. \A d \in Cgids : ctx'[d].range = ctx[d].range
      BY <2>1, <2>2, Zenon
    <2> QED BY <1>1, <2>3, IdleHook, Zenon
  <1> QED BY <1>type, <1>range, <1>rules, <1>op, <1>hook, Zenon DEF IInv

LEMMA DeregisterKeeps ==
  ASSUME DeletesSound, IInv, NEW c \in Cgids, Deregister(c)
  PROVE  IInv'
  <1>inv. TypeInv /\ RangeInv /\ RuleInv /\ OpInv /\ NetInv /\ HookInv
    BY Zenon DEF IInv
  <1> USE <1>inv
  <1>deletes. ASSUME NEW keys \in SUBSET Addrs, NEW range \in Extents
              PROVE  /\ Deletes(range, keys) \in Seq(MapOp)
                     /\ \A o : o \in Range(Deletes(range, keys)) <=>
                          \/ \E t \in Tables : \E x \in Indices(range[t]) : o = SlotOp(t, x, {})
                          \/ \E a \in keys : o = NetOp(a, {})
    BY <1>deletes, Zenon DEF DeletesSound
  <1>facts. /\ op = Idle /\ book[c].in /\ (hook.on => hook.cg # c)
            /\ op' # Idle /\ op'.phase = "delete" /\ op'.cg = c /\ op'.drop = TRUE
            /\ op'.range = book[c].range /\ op'.todo = Deletes(book[c].range, book[c].keys)
            /\ Deleting' /\ book[c].range \in Extents /\ book[c].keys \in SUBSET Addrs
            /\ book' \in [Cgids -> [in : BOOLEAN, range : Extents, keys : SUBSET Addrs]]
            /\ book'[c].in = FALSE
            /\ \A d \in Cgids : d # c => book'[d] = book[d]
            /\ CountSpan(c) /\ UNCHANGED <<alloc, slots, net, ctx, inForce, failed>>
    <2>1. /\ op = Idle /\ book[c].in /\ (hook.on => hook.cg # c)
          /\ book' = [book EXCEPT ![c].in = FALSE]
          /\ op' = [phase |-> "delete", cg |-> c, drop |-> TRUE, range |-> book[c].range,
                    todo |-> Deletes(book[c].range, book[c].keys)]
          /\ CountSpan(c) /\ UNCHANGED <<alloc, slots, net, ctx, inForce, failed>>
      BY Zenon DEF Deregister, kernel, history
    <2>2. /\ book[c] \in [in : BOOLEAN, range : Extents, keys : SUBSET Addrs]
          /\ book[c].range \in Extents /\ book[c].keys \in SUBSET Addrs
      BY SandboxTypes, Zenon
    <2>3. Deletes(book[c].range, book[c].keys) \in Seq(MapOp)
      BY <2>2, <1>deletes, Zenon
    <2>4. /\ Deleting' /\ op'.phase = "delete" /\ op'.cg = c /\ op'.drop = TRUE
          /\ op'.range = book[c].range /\ op'.todo = Deletes(book[c].range, book[c].keys)
      BY <2>1, <2>2, <2>3, Zenon DEF Deleting
    <2>5. op' # Idle
      BY <2>4 DEF Idle
    <2>6. /\ book' \in [Cgids -> [in : BOOLEAN, range : Extents, keys : SUBSET Addrs]]
          /\ book'[c].in = FALSE
          /\ \A d \in Cgids : d # c => book'[d] = book[d]
      <3> DEFINE new == [book[c] EXCEPT !.in = FALSE]
      <3>1. new \in [in : BOOLEAN, range : Extents, keys : SUBSET Addrs] /\ new.in = FALSE
        BY <2>2, Zenon
      <3>2. book' = [book EXCEPT ![c] = new]
        BY <2>1, Zenon
      <3> HIDE DEF new
      <3> QED BY <3>1, <3>2, Zenon DEF TypeInv
    <2> QED BY <2>1, <2>2, <2>4, <2>5, <2>6, Zenon
  <1>type. TypeInv'
    <2>1. /\ Deleting'
          /\ book' \in [Cgids -> [in : BOOLEAN, range : Extents, keys : SUBSET Addrs]]
          /\ CountSpan(c) /\ UNCHANGED <<alloc, slots, net, ctx, inForce, failed>>
      BY <1>facts, Zenon
    <2>2. (hook = [on |-> FALSE] \/ Asked)'
      BY <2>1, CountSpanType, Zenon
    <2> QED BY <2>1, <2>2, Zenon DEF TypeInv, Tidy
  <1>range. RangeInv'
    <2>1. /\ op = Idle /\ book[c].in /\ op' # Idle /\ op'.range = book[c].range
          /\ book'[c].in = FALSE /\ alloc' = alloc /\ failed' = failed
      BY <1>facts, Zenon
    <2>2. \A d \in Cgids : d # c => book'[d] = book[d]
      BY <1>facts, Zenon
    <2>3. ASSUME NEW t \in Tables
          PROVE  /\ Free(t)' = Free(t) /\ OpIdx(t)' = BookIdx(c, t) /\ OpIdx(t) = {}
                 /\ \A d \in Cgids : d # c => BookIdx(d, t)' = BookIdx(d, t)
      <3>1. Free(t)' = Free(t)
        BY <2>1, SameFree, Zenon
      <3>2. OpIdx(t)' = BookIdx(c, t) /\ OpIdx(t) = {}
        BY <2>1, Zenon DEF OpIdx, BookIdx, Indices, Idle
      <3>3. \A d \in Cgids : d # c => BookIdx(d, t)' = BookIdx(d, t)
        BY <2>2, SameBook, Zenon
      <3> QED BY <3>1, <3>2, <3>3, Zenon
    <2>4. \A t \in Tables : Free(t)' \subseteq Slots /\ OpIdx(t)' \subseteq Slots /\ OpIdx(t)' \cap Free(t)' = {}
      BY <2>1, <2>3 DEF RangeInv
    <2>5. ASSUME NEW t \in Tables, NEW d \in Cgids, book'[d].in
          PROVE  /\ BookIdx(d, t)' \subseteq Slots
                 /\ BookIdx(d, t)' \cap Free(t)' = {} /\ BookIdx(d, t)' \cap OpIdx(t)' = {}
      <3>1. d # c /\ book[d].in
        BY <2>1, <2>2, <2>5, Zenon
      <3>2. /\ BookIdx(d, t) \subseteq Slots /\ BookIdx(d, t) \cap Free(t) = {}
            /\ BookIdx(d, t) \cap BookIdx(c, t) = {}
        BY <2>1, <3>1, Zenon DEF RangeInv
      <3> QED BY <2>3, <3>1, <3>2, Zenon
    <2>6. ASSUME NEW t \in Tables, NEW d \in Cgids, NEW e \in Cgids, d # e, book'[d].in, book'[e].in
          PROVE  BookIdx(d, t)' \cap BookIdx(e, t)' = {}
      <3>1. d # c /\ book[d].in /\ e # c /\ book[e].in
        BY <2>1, <2>2, <2>6, Zenon
      <3> QED BY <2>3, <2>6, <3>1 DEF RangeInv
    <2>7. ASSUME "swap" \notin Range(failed'), NEW t \in Tables, NEW x \in Slots
          PROVE  x \in Free(t)' \/ x \in OpIdx(t)' \/ \E d \in Cgids : book'[d].in /\ x \in BookIdx(d, t)'
      <3>1. x \in Free(t) \/ x \in OpIdx(t) \/ \E d \in Cgids : book[d].in /\ x \in BookIdx(d, t)
        BY <2>1, <2>7, Zenon DEF RangeInv
      <3>2. ASSUME NEW d \in Cgids, book[d].in, x \in BookIdx(d, t)
            PROVE  x \in OpIdx(t)' \/ (book'[d].in /\ x \in BookIdx(d, t)')
        BY <2>2, <2>3, <3>2, Zenon
      <3> QED BY <2>3, <3>1, <3>2, Zenon
    <2> QED BY <2>4, <2>5, <2>6, <2>7, Zenon DEF RangeInv, Slots, Tables, Range
  <1>rules. RuleInv'
    <2>1. /\ book'[c].in = FALSE /\ slots' = slots /\ ctx' = ctx /\ inForce' = inForce
          /\ \A d \in Cgids : d # c => book'[d] = book[d]
      BY <1>facts, Zenon
    <2>2. ASSUME NEW d \in Cgids, book'[d].in PROVE Installed(d)'
      <3>1. book[d].in /\ Installed(d) /\ book'[d] = book[d] /\ ctx'[d].range = ctx[d].range
            /\ inForce'[d] = inForce[d]
        BY <2>1, <2>2, Zenon DEF RuleInv
      <3>2. \A t \in Tables, x \in Slots : x \in BookIdx(d, t) => slots'[t][x] = slots[t][x]
        BY <2>1, Zenon
      <3> QED BY <3>1, <3>2, InstalledStays, Zenon
    <2> QED BY <2>2, Zenon DEF RuleInv
  <1>op. OpInv'
    <2> DEFINE range == book[c].range
               keys == book[c].keys
    <2>1. /\ op'.phase = "delete" /\ op'.range = range /\ op'.todo = Deletes(range, keys)
          /\ op'.cg = c /\ op'.drop = TRUE /\ book'[c].in = FALSE
          /\ range \in Extents /\ keys \in SUBSET Addrs
      BY <1>facts, Zenon
    <2>2. book'[op'.cg].in = ~op'.drop
      BY <2>1, Zenon
    <2> HIDE DEF range, keys
    <2> QED BY <2>1, <2>2, DeletionOp, Zenon
  <1>net. NetInv'
    <2>1. SUFFICES ASSUME failed' = <<>> PROVE NetInv'
      BY Zenon DEF NetInv
    <2> DEFINE keys == book[c].keys
               range == book[c].range
    <2>2. /\ op = Idle /\ book[c].in /\ failed = <<>> /\ net' = net /\ inForce' = inForce
          /\ op' # Idle /\ op'.phase = "delete" /\ op'.cg = c /\ op'.drop = TRUE
          /\ op'.todo = Deletes(range, keys) /\ range \in Extents /\ keys \in SUBSET Addrs
          /\ book'[c].in = FALSE
          /\ \A d \in Cgids : d # c => book'[d] = book[d]
      BY <2>1, <1>facts, Zenon
    <2>3. Keyed /\ \A d \in Cgids : Settled(d)
      BY <2>2, Zenon DEF NetInv
    <2>4. Keyed'
      BY <2>2, <2>3 DEF Keyed, Keys
    <2>5. ASSUME NEW d \in Cgids, c # d PROVE Settled(d)'
      BY <2>2, <2>3, <2>5, SameSettled, Zenon
    <2>6. \A a \in keys : NetOp(a, {}) \in Range(op'.todo)
      <3> HIDE DEF range, keys
      <3>1. \A o : o \in Range(Deletes(range, keys)) <=>
              \/ \E t \in Tables : \E x \in Indices(range[t]) : o = SlotOp(t, x, {})
              \/ \E a \in keys : o = NetOp(a, {})
        BY <2>2, <1>deletes, Zenon
      <3>2. \A a \in keys : NetOp(a, {}) \in Range(Deletes(range, keys))
        BY <3>1, Zenon
      <3> QED BY <2>2, <3>2, Zenon
    <2>7. ASSUME NEW a \in Addrs PROVE net[c][a] = {} \/ NetOp(a, {}) \in Range(op'.todo)
      <3>1. CASE a \in keys
        BY <2>6, <3>1, Zenon
      <3>2. CASE a \notin keys
        <4>1. a \notin Keys(inForce[c]) /\ inForce[c] \in Plan
          BY <2>2, <2>3, <3>2, SandboxTypes, Zenon DEF Keyed
        <4>2. inForce[c].net[a] = {}
          BY <4>1, KeysAre, Zenon
        <4> QED BY <2>2, <2>3, <4>2, Zenon DEF Settled
      <3> QED BY <3>1, <3>2, Zenon
    <2>8. NetDeleting'
      BY <2>2, <2>7, Zenon DEF NetDeleting, NetOp, Range
    <2> QED BY <2>2, <2>4, <2>5, <2>8, Zenon DEF NetInv
  <1>hook. HookInv'
    <2>1. /\ op = Idle /\ op'.cg = c /\ CountSpan(c) /\ ctx' = ctx /\ inForce' = inForce
          /\ hook.on => hook.cg # c
          /\ \A d \in Cgids : d # c => book'[d] = book[d]
      BY <1>facts, Zenon
    <2>2. hook.on => book'[hook.cg].in
      BY <2>1, HookTypes, Zenon DEF HookInv
    <2> QED BY <2>1, <2>2, StartHook, Zenon
  <1> QED BY <1>type, <1>range, <1>rules, <1>op, <1>net, <1>hook, Zenon DEF IInv

LEMMA UpdateBeginKeeps ==
  ASSUME AllocSound, WritesSound, IInv, NEW c \in Cgids, NEW p \in Plans, UpdateBegin(c, p)
  PROVE  IInv'
  <1>inv. TypeInv /\ RangeInv /\ RuleInv /\ OpInv /\ NetInv /\ HookInv
    BY Zenon DEF IInv
  <1> USE <1>inv
  <1>alloc. ASSUME NEW fl, Tidy(fl), NEW n \in Nat, ~AllocFails(fl, n)
            PROVE  LET r == RuleRange(AllocBase(fl, n), n) IN
                   /\ r \in Extent /\ r.len = n
                   /\ Tidy(AllocRest(fl, n))
                   /\ Indices(r) \subseteq FreeIndices(fl)
                   /\ FreeIndices(AllocRest(fl, n)) = FreeIndices(fl) \ Indices(r)
    BY <1>alloc, Zenon DEF AllocSound
  <1>writes. ASSUME NEW s \in Plan, NEW range \in Extents
             PROVE  /\ Writes(s, range) \in Seq(MapOp)
                    /\ \A o : o \in Range(Writes(s, range)) <=>
                         \/ \E t \in Tables : \E i \in 1 .. Len(s[t]) :
                              o = SlotOp(t, range[t].base + i - 1, {s[t][i]})
                         \/ \E a \in Keys(s) : o = NetOp(a, s.net[a])
    BY <1>writes, Zenon DEF WritesSound
  <1>facts. /\ op = Idle /\ book[c].in /\ Validates(p) /\ p \in Plan
            /\ Writing' /\ op' # Idle /\ op'.phase = "write" /\ op'.cg = c /\ op'.plan = p
            /\ op'.todo = Writes(p, op'.range) /\ op'.range \in Extents
            /\ DOMAIN alloc' = Tables
            /\ \A t \in Tables : /\ op'.range[t].len = Len(p[t]) /\ Tidy(alloc'[t])
                                 /\ OpIdx(t)' \subseteq Free(t)
                                 /\ Free(t)' = Free(t) \ OpIdx(t)'
            /\ CountSpan(c) /\ UNCHANGED <<book, slots, net, ctx, inForce, failed>>
    <2> DEFINE range == [t \in Tables |-> RuleRange(AllocBase(alloc[t], Count(p, t)), Count(p, t))]
    <2>1. /\ op = Idle /\ book[c].in /\ Validates(p)
          /\ \A t \in Tables : ~AllocFails(alloc[t], Count(p, t))
          /\ op' = [phase |-> "write", cg |-> c, plan |-> p, range |-> range, todo |-> Writes(p, range)]
          /\ alloc' = [t \in Tables |-> AllocRest(alloc[t], Count(p, t))]
          /\ CountSpan(c) /\ UNCHANGED <<book, slots, net, ctx, inForce, failed>>
      BY Zenon DEF UpdateBegin, kernel, history
    <2>2. p \in Plan
      BY MapsAssumption, Zenon
    <2>3. ASSUME NEW t \in Tables
          PROVE  /\ range[t] \in Extent /\ range[t].len = Len(p[t])
                 /\ Tidy(alloc'[t])
                 /\ Indices(range[t]) \subseteq FreeIndices(alloc[t])
                 /\ FreeIndices(alloc'[t]) = FreeIndices(alloc[t]) \ Indices(range[t])
      <3>1. Tidy(alloc[t]) /\ Count(p, t) \in Nat /\ Count(p, t) = Len(p[t])
        BY <2>2, PlanType, Zenon DEF TypeInv, Count
      <3>2. range[t] = RuleRange(AllocBase(alloc[t], Count(p, t)), Count(p, t))
        BY Zenon
      <3>3. alloc'[t] = AllocRest(alloc[t], Count(p, t))
        BY <2>1, Zenon
      <3>4. ~AllocFails(alloc[t], Count(p, t))
        BY <2>1, Zenon
      <3> HIDE DEF range
      <3>5. LET r == RuleRange(AllocBase(alloc[t], Count(p, t)), Count(p, t)) IN
            /\ r \in Extent /\ r.len = Count(p, t)
            /\ Tidy(AllocRest(alloc[t], Count(p, t)))
            /\ Indices(r) \subseteq FreeIndices(alloc[t])
            /\ FreeIndices(AllocRest(alloc[t], Count(p, t))) = FreeIndices(alloc[t]) \ Indices(r)
        BY <3>1, <3>4, <1>alloc, Zenon
      <3> QED BY <3>1, <3>2, <3>3, <3>5, Zenon
    <2>4. range \in Extents
      BY <2>3, Zenon DEF Extents
    <2> HIDE DEF range
    <2>5. Writes(p, range) \in Seq(MapOp)
      BY <2>2, <2>4, <1>writes, Zenon
    <2>6. Writing' /\ op'.phase = "write" /\ op'.cg = c /\ op'.plan = p /\ op'.range = range
          /\ op'.todo = Writes(p, range)
      BY <2>1, <2>2, <2>4, <2>5, Zenon DEF Writing
    <2>7. op' # Idle
      BY <2>6 DEF Idle
    <2>8. \A t \in Tables : OpIdx(t)' = Indices(range[t])
      BY <2>6, <2>7, Zenon DEF OpIdx, Idle, Indices
    <2>9. DOMAIN alloc' = Tables
      BY <2>1, Zenon
    <2>10. \A t \in Tables : Free(t)' = FreeIndices(alloc'[t])
      BY Zenon DEF Free, FreeIndices
    <2> QED BY <2>1, <2>2, <2>3, <2>4, <2>6, <2>7, <2>8, <2>9, <2>10, Zenon DEF Free
  <1>type. TypeInv'
    <2>1. /\ Writing' /\ DOMAIN alloc' = Tables /\ \A t \in Tables : Tidy(alloc'[t])
          /\ CountSpan(c) /\ UNCHANGED <<book, slots, net, ctx, inForce, failed>>
      BY <1>facts, Zenon
    <2>2. (hook = [on |-> FALSE] \/ Asked)'
      BY <2>1, CountSpanType, Zenon
    <2> QED BY <2>1, <2>2, Zenon DEF TypeInv, Tidy
  <1>range. RangeInv'
    <2>1. op = Idle /\ book' = book /\ failed' = failed
          /\ \A t \in Tables : OpIdx(t)' \subseteq Free(t) /\ Free(t)' = Free(t) \ OpIdx(t)'
      BY <1>facts, Zenon
    <2>2. \A t \in Tables : OpIdx(t) = {}
      BY <2>1, Zenon DEF OpIdx
    <2>3. \A t \in Tables : /\ OpIdx(t)' \subseteq OpIdx(t) \cup Free(t)
                            /\ Free(t)' = (OpIdx(t) \cup Free(t)) \ OpIdx(t)'
      BY <2>1, <2>2, Zenon
    <2> QED BY <2>1, <2>3, RangeMoved, Zenon
  <1>rules. RuleInv'
    BY <1>facts, RulesStay, Zenon
  <1>op. OpInv'
    <2>1. /\ book[c].in /\ Validates(p) /\ p \in Plan /\ op'.phase = "write" /\ op'.cg = c /\ op'.plan = p
          /\ op'.todo = Writes(p, op'.range) /\ op'.range \in Extents
          /\ \A t \in Tables : op'.range[t].len = Len(p[t])
          /\ book' = book
      BY <1>facts, Zenon
    <2>r. PICK range \in Extents : range = op'.range
      BY <2>1, Zenon
    <2>w. op'.todo = Writes(p, range)
      BY <2>1, <2>r, Zenon
    <2>2. \A o : o \in Range(op'.todo) <=>
            \/ \E t \in Tables : \E i \in 1 .. Len(p[t]) :
                 o = SlotOp(t, range[t].base + i - 1, {p[t][i]})
            \/ \E a \in Keys(p) : o = NetOp(a, p.net[a])
      <3>1. \A o : o \in Range(Writes(p, range)) <=>
              \/ \E t \in Tables : \E i \in 1 .. Len(p[t]) :
                   o = SlotOp(t, range[t].base + i - 1, {p[t][i]})
              \/ \E a \in Keys(p) : o = NetOp(a, p.net[a])
        BY <2>1, <1>writes, Zenon
      <3> QED BY <2>w, <3>1, Zenon
    <2>3. ASSUME NEW o \in Range(op'.todo) PROVE PlanOp(o)'
      <3>1. CASE \E t \in Tables : \E i \in 1 .. Len(p[t]) :
                   o = SlotOp(t, range[t].base + i - 1, {p[t][i]})
        BY <2>1, <2>r, <3>1, Zenon DEF PlanOp, SlotOp, Tables
      <3>2. CASE \E a \in Keys(p) : o = NetOp(a, p.net[a])
        BY <2>1, <3>2, Zenon DEF PlanOp, NetOp, Keys
      <3> QED BY <2>2, <3>1, <3>2, Zenon
    <2>4. Validates(op'.plan) /\ book'[op'.cg].in
      BY <2>1, Zenon DEF Validates
    <2>5. ASSUME NEW t \in Tables, NEW i \in 1 .. op'.range[t].len
          PROVE  SlotOp(t, op'.range[t].base + i - 1, {op'.plan[t][i]}) \in Range(op'.todo)
      <3>1. i \in 1 .. Len(p[t]) /\ op'.plan = p /\ op'.range = range
        BY <2>1, <2>r, Zenon
      <3>2. SlotOp(t, range[t].base + i - 1, {p[t][i]}) \in Range(op'.todo)
        BY <2>2, <3>1, Zenon
      <3> QED BY <3>1, <3>2, Zenon
    <2>6. op'.phase # "delete"
      BY <2>1, Zenon
    <2> QED BY <2>1, <2>3, <2>4, <2>5, <2>6, Zenon DEF OpInv, Validates, Count, Range, SlotOp
  <1>net. NetInv'
    <2>1. SUFFICES ASSUME failed' = <<>> PROVE NetInv'
      BY Zenon DEF NetInv
    <2>2. /\ op = Idle /\ book[c].in /\ p \in Plan /\ op'.phase = "write" /\ op'.cg = c /\ op'.plan = p
          /\ op'.todo = Writes(p, op'.range) /\ op'.range \in Extents
          /\ UNCHANGED <<book, net, inForce, failed>>
      BY <1>facts, Zenon
    <2>3. Keyed /\ \A d \in Cgids : Settled(d)
      BY <2>1, <2>2, Zenon DEF NetInv
    <2>4. Keyed' /\ \A d \in Cgids : Settled(d)'
      <3>1. Keyed'
        BY <2>2, <2>3, Zenon DEF Keyed, Keys
      <3>2. \A d \in Cgids : Settled(d)'
        BY <2>2, <2>3, Zenon DEF Settled
      <3> QED BY <3>1, <3>2, Zenon
    <2>5. PICK range \in Extents : range = op'.range
      BY <2>2, Zenon
    <2>6. \A a \in Keys(p) : NetOp(a, p.net[a]) \in Range(op'.todo)
      <3>1. op'.todo = Writes(p, range)
        BY <2>2, <2>5, Zenon
      <3>2. \A o : o \in Range(Writes(p, range)) <=>
              \/ \E t \in Tables : \E i \in 1 .. Len(p[t]) :
                   o = SlotOp(t, range[t].base + i - 1, {p[t][i]})
              \/ \E a \in Keys(p) : o = NetOp(a, p.net[a])
        BY <2>2, <1>writes, Zenon
      <3>3. \A a \in Keys(p) : NetOp(a, p.net[a]) \in Range(Writes(p, range))
        BY <3>2, Zenon
      <3> QED BY <3>1, <3>3, Zenon
    <2>7. \A a \in Addrs : net[c][a] = inForce[c].net[a]
      BY <2>2, <2>3, Zenon DEF Settled
    <2>8. NetWriting'
      BY <2>2, <2>6, <2>7, Zenon DEF NetWriting, Keys, NetOp, Range
    <2> QED BY <2>2, <2>4, <2>8, Zenon DEF NetInv
  <1>hook. HookInv'
    <2>1. op = Idle /\ op'.cg = c /\ CountSpan(c) /\ book' = book /\ ctx' = ctx /\ inForce' = inForce
      BY <1>facts, Zenon
    <2>2. hook.on => book'[hook.cg].in
      BY <2>1, Zenon DEF HookInv
    <2> QED BY <2>1, <2>2, StartHook, Zenon
  <1> QED BY <1>type, <1>range, <1>rules, <1>op, <1>net, <1>hook, Zenon DEF IInv

\* The loops of update_policy and of the deletions: one map operation a step.
LEMMA LoopKeeps ==
  ASSUME IInv, UpdateWrite \/ DeleteStep
  PROVE  IInv'
  <1>inv. TypeInv /\ RangeInv /\ RuleInv /\ OpInv /\ NetInv /\ HookInv
    BY Zenon DEF IInv
  <1> USE <1>inv
  \* What is pending is a write into the operation's range, or of a net key.
  <1>pending. ASSUME op.phase = "write" \/ op.phase = "delete", NEW o \in Range(op.todo)
              PROVE  \/ \E t \in Tables : \E x \in OpIdx(t), rules \in SUBSET Rule : o = SlotOp(t, x, rules)
                     \/ \E a \in Addrs, ports \in SUBSET Ports : o = NetOp(a, ports)
    <2> USE <1>pending
    <2>1. CASE op.phase = "write"
      <3>1. op.plan \in Plan /\ PlanOp(o)
        BY <2>1, OpCases, Zenon DEF OpInv
      <3>2. CASE \E t \in Tables : \E i \in 1 .. Len(op.plan[t]) :
                   o = SlotOp(t, op.range[t].base + i - 1, {op.plan[t][i]})
        <4>0. PICK t \in Tables : \E i \in 1 .. Len(op.plan[t]) :
                o = SlotOp(t, op.range[t].base + i - 1, {op.plan[t][i]})
          BY <3>2, Zenon
        <4>1. PICK i \in 1 .. Len(op.plan[t]) : o = SlotOp(t, op.range[t].base + i - 1, {op.plan[t][i]})
          BY <4>0, Zenon
        <4>2. op.plan[t][i] \in Rule /\ Len(op.plan[t]) \in Nat
          BY <3>1, PlanType, Zenon
        <4>3. OpIdx(t) = Indices(op.range[t]) /\ op.range[t].base \in Nat /\ op.range[t].len = Len(op.plan[t])
          BY <2>1, OpIdxIs, OpCases, ExtentType, Zenon DEF OpInv
        <4>4. op.range[t].base + i - 1 \in OpIdx(t)
          BY <4>2, <4>3 DEF Indices
        <4>5. {op.plan[t][i]} \in SUBSET Rule
          BY <4>2, Zenon
        <4> QED BY <4>1, <4>4, <4>5, Zenon
      <3>3. CASE \E a \in Keys(op.plan) : o = NetOp(a, op.plan.net[a])
        <4>1. PICK a \in Keys(op.plan) : o = NetOp(a, op.plan.net[a])
          BY <3>3, Zenon
        <4>2. a \in Addrs /\ op.plan.net[a] \in SUBSET Ports
          BY <3>1, PlanType, Zenon
        <4> QED BY <4>1, <4>2, Zenon
      <3> QED BY <3>1, <3>2, <3>3, Zenon DEF PlanOp
    <2>2. CASE op.phase = "delete"
      <3>1. Emptying(o) /\ \A t \in Tables : OpIdx(t) = Indices(op.range[t])
        BY <2>2, OpIdxIs, Zenon DEF OpInv
      <3>2. {} \in SUBSET Rule /\ {} \in SUBSET Ports
        BY Zenon
      <3> QED BY <3>1, <3>2, Zenon DEF Emptying
    <2> QED BY <2>1, <2>2, Zenon
  <1>slot. ASSUME NEW c, NEW t \in Tables, NEW x \in Slots, NEW rules \in SUBSET Rule,
                  Apply(c, SlotOp(t, x, rules))
           PROVE  /\ net' = net /\ slots' \in [Tables -> [Slots -> SUBSET Rule]]
                  /\ \A u \in Tables, y \in Slots :
                       slots'[u][y] = IF u = t /\ y = x THEN rules ELSE slots[u][y]
    <2> USE <1>slot
    <2>1. SlotOp(t, x, rules).map = t /\ SlotOp(t, x, rules).at = x /\ SlotOp(t, x, rules).rules = rules
      BY Zenon DEF SlotOp
    <2>2. t # "net"
      BY Zenon DEF Tables
    <2>3. net' = net /\ slots' = [slots EXCEPT ![t][x] = rules]
      BY <2>1, <2>2, Zenon DEF Apply
    <2>4. slots \in [Tables -> [Slots -> SUBSET Rule]]
      BY Zenon DEF TypeInv
    <2> QED BY <2>3, <2>4, Zenon
  <1>written. ASSUME NEW c, NEW t \in Tables, NEW x \in Slots, NEW rules \in SUBSET Rule,
                     Apply(c, SlotOp(t, x, rules))
              PROVE  SlotWritten(t, x, rules)
    <2> USE <1>written
    <2>1. net' = net /\ slots' = [slots EXCEPT ![t][x] = rules]
      BY Zenon DEF Apply, SlotOp, Tables
    <2>2. slots \in [Tables -> [Slots -> SUBSET Rule]]
      BY ZenonT(30) DEF TypeInv
    <2> QED BY <2>1, <2>2, Zenon DEF SlotWritten
  <1>addr. ASSUME NEW c \in Cgids, NEW a \in Addrs, NEW ports \in SUBSET Ports,
                  Apply(c, NetOp(a, ports))
           PROVE  /\ slots' = slots /\ net' \in [Cgids -> [Addrs -> SUBSET Ports]]
                  /\ \A d \in Cgids, b \in Addrs :
                       net'[d][b] = IF d = c /\ b = a THEN ports ELSE net[d][b]
    <2> USE <1>addr
    <2>1. NetOp(a, ports).map = "net" /\ NetOp(a, ports).at = a /\ NetOp(a, ports).rules = ports
      BY Zenon DEF NetOp
    <2>2. slots' = slots /\ net' = [net EXCEPT ![c][a] = ports]
      BY <2>1, Zenon DEF Apply
    <2>3. net \in [Cgids -> [Addrs -> SUBSET Ports]]
      BY Zenon DEF TypeInv
    <2> QED BY <2>2, <2>3
  \* The step of a loop over what is to be done.
  <1>next. ASSUME op.phase = "write" \/ op.phase = "delete", op.todo # <<>>,
                  op' = [op EXCEPT !.todo = Tail(@)]
           PROVE  /\ op # Idle /\ op' # Idle /\ (op = Idle \/ Writing \/ Deleting)'
                  /\ op'.phase = op.phase /\ op'.cg = op.cg /\ op'.range = op.range
                  /\ op.phase = "write" => op'.plan = op.plan
                  /\ op.phase = "delete" => op'.drop = op.drop
                  /\ Range(op.todo) = {Head(op.todo)} \cup Range(op'.todo)
                  /\ \A t \in Tables : OpIdx(t)' = OpIdx(t)
    <2> USE <1>next
    <2>1. op.todo \in Seq(MapOp)
      BY OpCases, Zenon
    <2>2. Tail(op.todo) \in Seq(MapOp) /\ Range(op.todo) = {Head(op.todo)} \cup Range(Tail(op.todo))
      BY <2>1, RangeOfTail, Zenon
    <2>3. CASE op.phase = "write"
      <3>1. Writing
        BY <2>3, OpCases, Zenon
      <3>2. Writing' /\ op'.phase = op.phase /\ op'.cg = op.cg /\ op'.range = op.range /\ op'.plan = op.plan
            /\ op'.todo = Tail(op.todo)
        BY <2>2, <3>1, Zenon DEF Writing
      <3>3. op # Idle /\ op' # Idle
        BY <2>3, <3>2 DEF Idle
      <3>4. \A t \in Tables : OpIdx(t)' = OpIdx(t)
        BY <3>2, <3>3, Zenon DEF OpIdx, Idle, Indices
      <3> QED BY <2>2, <2>3, <3>2, <3>3, <3>4, Zenon
    <2>4. CASE op.phase = "delete"
      <3>1. Deleting
        BY <2>4, OpCases, Zenon
      <3>2. Deleting' /\ op'.phase = op.phase /\ op'.cg = op.cg /\ op'.range = op.range /\ op'.drop = op.drop
            /\ op'.todo = Tail(op.todo)
        BY <2>2, <3>1, Zenon DEF Deleting
      <3>3. op # Idle /\ op' # Idle
        BY <2>4, <3>2 DEF Idle
      <3>4. \A t \in Tables : OpIdx(t)' = OpIdx(t)
        BY <3>2, <3>3, Zenon DEF OpIdx, Idle, Indices
      <3> QED BY <2>2, <2>4, <3>2, <3>3, <3>4, Zenon
    <2> QED BY <2>3, <2>4, Zenon
  <1>apply. ASSUME op.phase = "write" \/ op.phase = "delete", op.todo # <<>>,
                   Apply(op.cg, Head(op.todo))
            PROVE  slots' \in [Tables -> [Slots -> SUBSET Rule]] /\ net' \in [Cgids -> [Addrs -> SUBSET Ports]]
    <2> USE <1>apply
    <2> DEFINE o == Head(op.todo)
    <2>1. op.todo \in Seq(MapOp) /\ op.cg \in Cgids
      BY OpCases, Zenon
    <2>2. o \in Range(op.todo)
      BY <2>1, RangeOfTail, ZenonT(30)
    <2> HIDE DEF o
    <2>3. slots \in [Tables -> [Slots -> SUBSET Rule]] /\ net \in [Cgids -> [Addrs -> SUBSET Ports]]
      BY Zenon DEF TypeInv
    <2>4. ASSUME NEW t \in Tables, NEW x \in OpIdx(t), NEW rules \in SUBSET Rule, o = SlotOp(t, x, rules)
          PROVE  slots' \in [Tables -> [Slots -> SUBSET Rule]] /\ net' \in [Cgids -> [Addrs -> SUBSET Ports]]
      <3>1. x \in Slots
        BY Zenon DEF RangeInv
      <3>2. Apply(op.cg, SlotOp(t, x, rules))
        BY <2>4, Zenon DEF o
      <3> QED BY <2>3, <3>1, <3>2, <1>slot, Zenon
    <2>5. ASSUME NEW a \in Addrs, NEW ports \in SUBSET Ports, o = NetOp(a, ports)
          PROVE  slots' \in [Tables -> [Slots -> SUBSET Rule]] /\ net' \in [Cgids -> [Addrs -> SUBSET Ports]]
      <3>1. Apply(op.cg, NetOp(a, ports))
        BY <2>5, Zenon DEF o
      <3> QED BY <2>1, <2>3, <3>1, <1>addr, Zenon
    <2> QED BY <2>2, <2>4, <2>5, <1>pending, Zenon
  \* The loops of update_policy and deregister_sandbox touch the range and the
  \* net keys of the operation only.
  <1>facts. /\ op.phase = "write" \/ op.phase = "delete"
            /\ op.todo # <<>> /\ op' = [op EXCEPT !.todo = Tail(@)] /\ op.cg \in Cgids
            /\ \/ Apply(op.cg, Head(op.todo)) /\ failed' = failed
               \/ op.phase = "delete" /\ Fails("delete") /\ slots' = slots /\ net' = net
            /\ \A t \in Tables, x \in Slots : x \notin OpIdx(t) => slots'[t][x] = slots[t][x]
            /\ \A d \in Cgids, a \in Addrs : d # op.cg => net'[d][a] = net[d][a]
            /\ Range(failed) \subseteq Range(failed')
            /\ UNCHANGED <<alloc, book, ctx, hook, inForce>>
    <2>1. /\ op.phase = "write" \/ op.phase = "delete"
          /\ op.todo # <<>> /\ op' = [op EXCEPT !.todo = Tail(@)]
          /\ \/ Apply(op.cg, Head(op.todo)) /\ failed' = failed
             \/ op.phase = "delete" /\ Fails("delete") /\ slots' = slots /\ net' = net
          /\ UNCHANGED <<alloc, book, ctx, hook, inForce>>
      BY Zenon DEF UpdateWrite, DeleteStep, history
    <2>2. op.cg \in Cgids /\ Head(op.todo) \in Range(op.todo)
      BY <2>1, OpCases, RangeOfTail
    <2>3. /\ \A t \in Tables, x \in Slots : x \notin OpIdx(t) => slots'[t][x] = slots[t][x]
          /\ \A d \in Cgids, a \in Addrs : d # op.cg => net'[d][a] = net[d][a]
      <3>1. CASE slots' = slots /\ net' = net
        BY <3>1, Zenon
      <3>2. CASE Apply(op.cg, Head(op.todo))
        <4>1. CASE \E t \in Tables : \E x \in OpIdx(t), rules \in SUBSET Rule :
                     Head(op.todo) = SlotOp(t, x, rules)
          <5>1. PICK t \in Tables : \E x \in OpIdx(t), rules \in SUBSET Rule :
                  Head(op.todo) = SlotOp(t, x, rules)
            BY <4>1, Zenon
          <5>2. PICK x \in OpIdx(t), rules \in SUBSET Rule : Head(op.todo) = SlotOp(t, x, rules)
            BY <5>1, Zenon
          <5>3. x \in Slots
            BY Zenon DEF RangeInv
          <5>4. Apply(op.cg, SlotOp(t, x, rules))
            BY <3>2, <5>2, Zenon
          <5>5. /\ net' = net
                /\ \A u \in Tables, y \in Slots :
                     slots'[u][y] = IF u = t /\ y = x THEN rules ELSE slots[u][y]
            <6>1. SlotWritten(t, x, rules)
              BY <5>3, <5>4, <1>written, Zenon
            <6>2. net' = net
              BY <5>4, Zenon DEF Apply, SlotOp, Tables
            <6> QED BY <6>1, <6>2, Zenon DEF SlotWritten
          <5> QED BY <5>5, Zenon
        <4>2. CASE \E a \in Addrs, ports \in SUBSET Ports : Head(op.todo) = NetOp(a, ports)
          <5>1. PICK a \in Addrs, ports \in SUBSET Ports : Head(op.todo) = NetOp(a, ports)
            BY <4>2, Zenon
          <5>2. /\ slots' = slots
                /\ \A d \in Cgids, b \in Addrs :
                     net'[d][b] = IF d = op.cg /\ b = a THEN ports ELSE net[d][b]
            BY <2>2, <3>2, <5>1, <1>addr
          <5> QED BY <5>2, Zenon
        <4> QED BY <2>1, <2>2, <4>1, <4>2, <1>pending, Zenon
      <3> QED BY <2>1, <3>1, <3>2, Zenon
    <2>4. Range(failed) \subseteq Range(failed')
      BY <2>1, FailsType, Zenon
    <2> QED BY <2>1, <2>2, <2>3, <2>4, Zenon
  <1>range. RangeInv'
    <2>1. \A t \in Tables : OpIdx(t)' = OpIdx(t)
      BY <1>facts, <1>next, Zenon
    <2> QED BY <2>1, <1>facts, RangeStays, Zenon
  <1>rules. RuleInv'
    BY <1>facts, RulesStay
  \* Neither the writes to a range that nothing points at, nor their unwinding,
  \* nor the deletions add a rule to what a hook reads.
  <1>hook. HookInv'
    <2>1. /\ op.phase = "write" \/ op.phase = "delete"
          /\ op.todo # <<>> /\ op' = [op EXCEPT !.todo = Tail(@)]
          /\ \A t \in Tables, x \in Slots : x \notin OpIdx(t) => slots'[t][x] = slots[t][x]
          /\ hook' = hook /\ book' = book /\ ctx' = ctx /\ inForce' = inForce
      BY <1>facts, Zenon
    <2>2. op # Idle /\ op'.cg = op.cg /\ op'.phase = op.phase /\ op'.range = op.range
          /\ Range(op.todo) = {Head(op.todo)} \cup Range(op'.todo)
      BY <2>1, <1>next, Zenon
    <2>3. hook.on => book'[hook.cg].in
      BY <2>1, Zenon DEF HookInv
    <2>4. ASSUME hook.on, hook.spans = 0, NEW x \in Slots, x \in Indices(hook.range)
          PROVE  slots'[hook.table][x] \subseteq slots[hook.table][x]
      <3>1. hook.table \in Tables
        BY <2>4, HookTypes, Zenon
      <3>2. CASE op.phase = "write"
        <4>1. Indices(hook.range) \cap Indices(op.range[hook.table]) = {}
          BY <2>4, <3>2, Zenon DEF HookInv, HookFresh
        <4>2. x \notin OpIdx(hook.table)
          BY <2>1, <2>4, <3>1, <4>1, OpIdxIs, Zenon
        <4> QED BY <2>1, <3>1, <4>2, Zenon
      <3>3. CASE op.phase = "delete"
        <4>1. CASE slots' = slots
          BY <4>1, Zenon
        <4>2. CASE Apply(op.cg, Head(op.todo))
          <5>1. Emptying(Head(op.todo))
            BY <2>2, <3>3, Zenon DEF OpInv
          <5>2. ASSUME NEW a \in Addrs, Head(op.todo) = NetOp(a, {}) PROVE slots' = slots
            BY <4>2, <5>2 DEF Apply, NetOp
          <5>3. ASSUME NEW t \in Tables, NEW y \in Indices(op.range[t]), Head(op.todo) = SlotOp(t, y, {})
                PROVE  slots'[hook.table][x] \subseteq slots[hook.table][x]
            <6>1. y \in Slots
              BY <2>1, OpIdxIs DEF RangeInv
            <6>2. PICK rules \in SUBSET Rule : rules = {}
              BY Zenon
            <6>3. Apply(op.cg, SlotOp(t, y, rules))
              BY <4>2, <5>3, <6>2, Zenon
            <6>4. SlotWritten(t, y, rules)
              BY <6>1, <6>3, <1>written, Zenon
            <6> QED BY <3>1, <6>2, <6>4, Zenon DEF SlotWritten
          <5> QED BY <5>1, <5>2, <5>3, <4>1, Zenon DEF Emptying
        <4> QED BY <4>1, <4>2, <1>facts, Zenon
      <3> QED BY <2>1, <3>2, <3>3, Zenon
    <2> QED BY <2>1, <2>2, <2>3, <2>4, HookStays
  \* What the next map operation does to a net key of its sandbox.
  <1>netstep. ASSUME op.phase = "write" \/ op.phase = "delete", op.todo # <<>>,
                     Apply(op.cg, Head(op.todo)), NEW a \in Addrs
              PROVE  \/ net'[op.cg][a] = net[op.cg][a] /\ \A ports : Head(op.todo) # NetOp(a, ports)
                     \/ \E ports : Head(op.todo) = NetOp(a, ports) /\ net'[op.cg][a] = ports
    <2> USE <1>netstep
    <2>1. op.cg \in Cgids /\ Head(op.todo) \in Range(op.todo)
      BY OpCases, RangeOfTail
    <2>2. ASSUME NEW t \in Tables, NEW x \in OpIdx(t), NEW rules \in SUBSET Rule,
                 Head(op.todo) = SlotOp(t, x, rules)
          PROVE  net'[op.cg][a] = net[op.cg][a] /\ \A ports : Head(op.todo) # NetOp(a, ports)
      <3>1. Head(op.todo).map # "net"
        BY <2>2 DEF SlotOp, Tables
      <3>2. net' = net
        BY <3>1, Zenon DEF Apply
      <3> QED BY <3>1, <3>2 DEF NetOp
    <2>3. ASSUME NEW b \in Addrs, NEW ports \in SUBSET Ports, Head(op.todo) = NetOp(b, ports)
          PROVE  \/ net'[op.cg][a] = net[op.cg][a] /\ \A q : Head(op.todo) # NetOp(a, q)
                 \/ \E q : Head(op.todo) = NetOp(a, q) /\ net'[op.cg][a] = q
      <3>1. Apply(op.cg, NetOp(b, ports))
        BY <2>3, Zenon
      <3>2. /\ slots' = slots
            /\ \A d \in Cgids, e \in Addrs : net'[d][e] = IF d = op.cg /\ e = b THEN ports ELSE net[d][e]
        BY <2>1, <3>1, <1>addr
      <3>3. CASE a = b
        BY <2>1, <2>3, <3>2, <3>3, Zenon
      <3>4. CASE a # b
        <4>1. Head(op.todo).at = b /\ \A q : NetOp(a, q).at = a
          BY <2>3 DEF NetOp
        <4> QED BY <2>1, <3>2, <3>4, <4>1, Zenon
      <3> QED BY <3>3, <3>4, Zenon
    <2> QED BY <2>1, <2>2, <2>3, <1>pending, Zenon
  <1>netop. ASSUME NEW a, NEW b, NEW p, NEW q, NetOp(a, p) = NetOp(b, q)
            PROVE  a = b /\ p = q
    <2> USE <1>netop
    <2>1. NetOp(a, p).at = a /\ NetOp(a, p).rules = p /\ NetOp(b, q).at = b /\ NetOp(b, q).rules = q
      BY Zenon DEF NetOp
    <2> QED BY <2>1, Zenon
  <1>notnet. ASSUME NEW t \in Tables, NEW x, NEW rules, NEW a, NEW ports
             PROVE  SlotOp(t, x, rules) # NetOp(a, ports)
    <2> USE <1>notnet
    <2>1. SlotOp(t, x, rules).map = t /\ NetOp(a, ports).map = "net" /\ t # "net"
      BY Zenon DEF SlotOp, NetOp, Tables
    <2> QED BY <2>1, Zenon
  <1>write. CASE UpdateWrite
    <2> USE <1>write
    <2>type. TypeInv'
      <3>1. /\ op.phase = "write" /\ op.todo # <<>> /\ Apply(op.cg, Head(op.todo))
            /\ op' = [op EXCEPT !.todo = Tail(@)] /\ UNCHANGED <<alloc, book, ctx, hook, inForce, failed>>
        BY Zenon DEF UpdateWrite, history
      <3>2. slots' \in [Tables -> [Slots -> SUBSET Rule]] /\ net' \in [Cgids -> [Addrs -> SUBSET Ports]]
        BY <3>1, <1>apply, Zenon
      <3>3. (op = Idle \/ Writing \/ Deleting)'
        BY <3>1, <1>next, Zenon
      <3> QED BY <3>1, <3>2, <3>3, Zenon DEF TypeInv, Tidy, Asked
    <2>op. OpInv'
      <3>1. op.phase = "write" /\ op.todo # <<>> /\ op' = [op EXCEPT !.todo = Tail(@)]
            /\ Apply(op.cg, Head(op.todo)) /\ book' = book
        BY Zenon DEF UpdateWrite
      <3>2. /\ op'.phase = op.phase /\ op'.cg = op.cg /\ op'.range = op.range /\ op'.plan = op.plan
            /\ Range(op.todo) = {Head(op.todo)} \cup Range(op'.todo)
        BY <3>1, <1>next, Zenon
      <3>3. op.cg \in Cgids /\ op.plan \in Plan /\ op.range \in Extents
        BY <3>1, OpCases, Zenon
      <3>4. ASSUME NEW o \in Range(op'.todo) PROVE PlanOp(o)'
        <4>1. PlanOp(o)
          BY <3>1, <3>2, Zenon DEF OpInv
        <4> QED BY <3>1, <3>2, <4>1, Zenon DEF PlanOp, Keys
      <3>5. ASSUME NEW t \in Tables, NEW i \in 1 .. op.range[t].len
            PROVE  LET x == op.range[t].base + i - 1 IN
                   \/ slots'[t][x] = {op.plan[t][i]}
                   \/ SlotOp(t, x, {op.plan[t][i]}) \in Range(op'.todo)
        <4> DEFINE x == op.range[t].base + i - 1
                   rule == op.plan[t][i]
        <4>1. /\ op.range[t].base \in Nat /\ op.range[t].len \in Nat
              /\ op.range[t].len = Len(op.plan[t]) /\ rule \in Rule
          BY <3>1, <3>3, ExtentType, PlanType, Zenon DEF OpInv
        <4>2. x \in Nat /\ x \in Indices(op.range[t])
          BY <4>1 DEF Indices
        <4>3. x \in Slots
          BY <3>1, <4>2, OpIdxIs, ZenonT(30) DEF RangeInv
        <4>4. slots[t][x] = {rule} \/ SlotOp(t, x, {rule}) \in Range(op.todo)
          BY <3>1, Zenon DEF OpInv
        <4> HIDE DEF rule
        <4>5. CASE Head(op.todo) = SlotOp(t, x, {rule})
          <5> HIDE DEF x
          <5>1. PICK rules \in SUBSET Rule : rules = {rule}
            BY <4>1, Zenon
          <5>2. PICK y \in Slots : y = x
            BY <4>3, Zenon
          <5>3. Apply(op.cg, SlotOp(t, y, rules))
            BY <3>1, <4>5, <5>1, <5>2, Zenon
          <5>4. SlotWritten(t, y, rules)
            BY <5>3, <1>written, Zenon
          <5> QED BY <5>1, <5>2, <5>4, Zenon DEF x, rule, SlotWritten
        <4>6. CASE Head(op.todo) # SlotOp(t, x, {rule}) /\ slots'[t][x] = slots[t][x]
          <5>1. slots'[t][x] = {rule} \/ SlotOp(t, x, {rule}) \in Range(op'.todo)
            BY <3>2, <4>4, <4>6, Zenon
          <5> QED BY <5>1, Zenon DEF rule
        <4>7. ASSUME Head(op.todo) # SlotOp(t, x, {rule}) PROVE slots'[t][x] = slots[t][x]
          <5>1. PlanOp(Head(op.todo))
            BY <3>1, <3>2, Zenon DEF OpInv
          <5>2. CASE \E a \in Keys(op.plan) : Head(op.todo) = NetOp(a, op.plan.net[a])
            <6>1. PICK a \in Keys(op.plan) : Head(op.todo) = NetOp(a, op.plan.net[a])
              BY <5>2, Zenon
            <6>2. a \in Addrs /\ op.plan.net[a] \in SUBSET Ports
              BY <3>3, PlanType, Zenon
            <6>3. Apply(op.cg, NetOp(a, op.plan.net[a]))
              BY <3>1, <6>1, Zenon
            <6> QED BY <3>3, <6>2, <6>3, <1>addr, Zenon
          <5>3. ASSUME NEW u \in Tables, NEW j \in 1 .. Len(op.plan[u]),
                       Head(op.todo) = SlotOp(u, op.range[u].base + j - 1, {op.plan[u][j]})
                PROVE  slots'[t][x] = slots[t][x]
            <6> DEFINE y == op.range[u].base + j - 1
                       s == op.plan[u][j]
            <6>1. /\ op.range[u].base \in Nat /\ op.range[u].len \in Nat
                  /\ op.range[u].len = Len(op.plan[u]) /\ s \in Rule
              BY <3>1, <3>3, ExtentType, PlanType, Zenon DEF OpInv
            <6>2. y \in Nat /\ y \in Indices(op.range[u])
              BY <6>1 DEF Indices
            <6>3. y \in Slots
              BY <3>1, <6>2, OpIdxIs, ZenonT(30) DEF RangeInv
            <6>4. u = t => y # x
              <7>1. SUFFICES ASSUME u = t, y = x PROVE FALSE
                BY Zenon
              <7>2. i = j
                BY <4>1, <6>1, <7>1
              <7> QED BY <4>7, <5>3, <7>1, <7>2, Zenon DEF rule
            <6> HIDE DEF x, y, s
            <6>5. PICK rules \in SUBSET Rule : rules = {s}
              BY <6>1, Zenon
            <6>6. PICK at \in Slots : at = y
              BY <6>3, Zenon
            <6>7. Apply(op.cg, SlotOp(u, at, rules))
              BY <3>1, <5>3, <6>5, <6>6, Zenon DEF y, s
            <6>8. SlotWritten(u, at, rules)
              BY <6>7, <1>written, Zenon
            <6> QED BY <4>3, <6>4, <6>6, <6>8, Zenon DEF SlotWritten
          <5> QED BY <5>1, <5>2, <5>3, Zenon DEF PlanOp
        <4> QED BY <4>5, <4>6, <4>7, Zenon
      <3>6. book'[op'.cg].in /\ Validates(op'.plan) /\ \A t \in Tables : op'.range[t].len = Len(op'.plan[t])
        BY <3>1, <3>2, Zenon DEF OpInv
      <3>7. op'.phase = "write" /\ op'.phase # "delete"
        BY <3>1, <3>2, Zenon
      <3> QED BY <3>2, <3>4, <3>5, <3>6, <3>7, Zenon DEF OpInv, Validates, Count, Range, SlotOp
    <2>net. NetInv'
      <3>1. SUFFICES ASSUME failed' = <<>> PROVE NetInv'
        BY Zenon DEF NetInv
      <3>2. /\ op.phase = "write" /\ op.todo # <<>> /\ op' = [op EXCEPT !.todo = Tail(@)]
            /\ Apply(op.cg, Head(op.todo)) /\ UNCHANGED <<book, inForce, failed>>
        BY Zenon DEF UpdateWrite, history
      <3>3. /\ op # Idle /\ op' # Idle /\ op'.phase = "write" /\ op'.cg = op.cg /\ op'.plan = op.plan
            /\ Range(op.todo) = {Head(op.todo)} \cup Range(op'.todo)
        BY <3>2, <1>next, Zenon
      <3>4. Keyed /\ NetWriting /\ \A d \in Cgids : op.cg # d => Settled(d)
        BY <3>1, <3>2, Zenon DEF NetInv
      <3>5. Keyed'
        BY <3>2, <3>4, Zenon DEF Keyed, Keys
      <3>6. ASSUME NEW d \in Cgids, op.cg # d PROVE Settled(d)'
        <4>1. \A a \in Addrs : net'[d][a] = net[d][a]
          BY <3>6, <1>facts, Zenon
        <4> QED BY <3>2, <3>4, <3>6, <4>1, SameSettled, Zenon
      <3>7. ASSUME NEW a \in Addrs
            PROVE  IF a \in Keys(op.plan)
                     THEN net'[op.cg][a] = op.plan.net[a] \/ NetOp(a, op.plan.net[a]) \in Range(op'.todo)
                     ELSE net'[op.cg][a] = inForce[op.cg].net[a]
        <4>1. CASE net'[op.cg][a] = net[op.cg][a] /\ \A ports : Head(op.todo) # NetOp(a, ports)
          BY <3>3, <3>4, <4>1, Zenon DEF NetWriting
        <4>2. CASE \E ports : Head(op.todo) = NetOp(a, ports) /\ net'[op.cg][a] = ports
          <5>1. PICK ports : Head(op.todo) = NetOp(a, ports) /\ net'[op.cg][a] = ports
            BY <4>2, Zenon
          <5>2. PlanOp(Head(op.todo))
            BY <3>2, <3>3, Zenon DEF OpInv
          <5>3. PICK b \in Keys(op.plan) : Head(op.todo) = NetOp(b, op.plan.net[b])
            BY <5>1, <5>2, <1>notnet, Zenon DEF PlanOp
          <5>4. a = b /\ ports = op.plan.net[b]
            BY <5>1, <5>3, <1>netop
          <5> QED BY <5>1, <5>4, Zenon
        <4> QED BY <3>2, <4>1, <4>2, <1>netstep, Zenon
      <3>8. NetWriting'
        BY <3>2, <3>3, <3>7, Zenon DEF NetWriting, Keys, NetOp, Range
      <3> QED BY <3>3, <3>5, <3>6, <3>8, Zenon DEF NetInv
    <2> QED BY <1>range, <1>rules, <1>hook, <2>type, <2>op, <2>net, Zenon DEF IInv
  <1>delete. CASE DeleteStep
    <2> USE <1>delete
    <2>type. TypeInv'
      <3>1. /\ op.phase = "delete" /\ op.todo # <<>>
            /\ \/ Apply(op.cg, Head(op.todo)) /\ failed' = failed
               \/ Fails("delete") /\ slots' = slots /\ net' = net
            /\ op' = [op EXCEPT !.todo = Tail(@)] /\ UNCHANGED <<alloc, book, ctx, hook, inForce>>
        BY Zenon DEF DeleteStep
      <3>2. /\ slots' \in [Tables -> [Slots -> SUBSET Rule]] /\ net' \in [Cgids -> [Addrs -> SUBSET Ports]]
            /\ failed' \in Seq(Faults)
        <4>1. CASE Apply(op.cg, Head(op.todo)) /\ failed' = failed
          BY <3>1, <4>1, <1>apply, Zenon DEF TypeInv
        <4>2. CASE Fails("delete") /\ slots' = slots /\ net' = net
          BY <4>2, FailsType, Zenon DEF TypeInv
        <4> QED BY <3>1, <4>1, <4>2, Zenon
      <3>3. (op = Idle \/ Writing \/ Deleting)'
        BY <3>1, <1>next, Zenon
      <3> QED BY <3>1, <3>2, <3>3, Zenon DEF TypeInv, Tidy, Asked
    <2>op. OpInv'
      <3>1. op.phase = "delete" /\ op.todo # <<>> /\ op' = [op EXCEPT !.todo = Tail(@)]
            /\ book' = book /\ inForce' = inForce
        BY Zenon DEF DeleteStep
      <3>2. /\ op'.phase = op.phase /\ op'.cg = op.cg /\ op'.range = op.range /\ op'.drop = op.drop
            /\ Range(op.todo) = {Head(op.todo)} \cup Range(op'.todo)
        BY <3>1, <1>next, Zenon
      <3>3. ASSUME NEW o \in Range(op'.todo) PROVE Emptying(o)'
        <4>1. Emptying(o)
          BY <3>1, <3>2, Zenon DEF OpInv
        <4> QED BY <3>1, <3>2, <4>1, Zenon DEF Emptying, Keys, Indices
      <3>4. book'[op'.cg].in = ~op'.drop
        BY <3>1, <3>2 DEF OpInv
      <3> QED BY <3>1, <3>2, <3>3, <3>4, Zenon DEF OpInv, Range
    <2>net. NetInv'
      <3>0. CASE Fails("delete")
        BY <3>0, Faulted, Zenon
      <3>1. SUFFICES ASSUME failed' = <<>>, ~Fails("delete") PROVE NetInv'
        BY <3>0, Zenon DEF NetInv
      <3>2. /\ op.phase = "delete" /\ op.todo # <<>> /\ op' = [op EXCEPT !.todo = Tail(@)]
            /\ Apply(op.cg, Head(op.todo)) /\ UNCHANGED <<book, inForce, failed>>
        BY <3>1, Zenon DEF DeleteStep
      <3>3. /\ op # Idle /\ op' # Idle /\ op'.phase = "delete" /\ op'.cg = op.cg /\ op'.drop = op.drop
            /\ Range(op.todo) = {Head(op.todo)} \cup Range(op'.todo)
        BY <3>2, <1>next, Zenon
      <3>4. Keyed /\ NetDeleting /\ \A d \in Cgids : op.cg # d => Settled(d)
        BY <3>1, <3>2, Zenon DEF NetInv
      <3>5. Keyed'
        BY <3>2, <3>4, Zenon DEF Keyed, Keys
      <3>6. ASSUME NEW d \in Cgids, op.cg # d PROVE Settled(d)'
        <4>1. \A a \in Addrs : net'[d][a] = net[d][a]
          BY <3>6, <1>facts, Zenon
        <4> QED BY <3>2, <3>4, <3>6, <4>1, SameSettled, Zenon
      <3>7. ASSUME NEW a \in Addrs
            PROVE  \/ net'[op.cg][a] = IF op.drop THEN {} ELSE inForce[op.cg].net[a]
                   \/ NetOp(a, {}) \in Range(op'.todo)
        <4>1. CASE net'[op.cg][a] = net[op.cg][a] /\ \A ports : Head(op.todo) # NetOp(a, ports)
          BY <3>3, <3>4, <4>1, Zenon DEF NetDeleting
        <4>2. CASE \E ports : Head(op.todo) = NetOp(a, ports) /\ net'[op.cg][a] = ports
          <5>1. PICK ports : Head(op.todo) = NetOp(a, ports) /\ net'[op.cg][a] = ports
            BY <4>2, Zenon
          <5>2. Emptying(Head(op.todo))
            BY <3>2, <3>3, Zenon DEF OpInv
          <5>3. PICK b \in Addrs : Head(op.todo) = NetOp(b, {}) /\ (~op.drop => b \notin Keys(inForce[op.cg]))
            BY <5>1, <5>2, <1>notnet, Zenon DEF Emptying
          <5>4. a = b /\ ports = {}
            BY <5>1, <5>3, <1>netop
          <5>5. op.cg \in Cgids /\ op.drop \in BOOLEAN /\ inForce[op.cg] \in Plan
            BY <3>2, OpCases, SandboxTypes, Zenon
          <5>6. ~op.drop => inForce[op.cg].net[a] = {}
            BY <5>3, <5>4, <5>5, KeysAre, Zenon
          <5> QED BY <5>1, <5>4, <5>5, <5>6, Zenon
        <4> QED BY <3>2, <4>1, <4>2, <1>netstep, Zenon
      <3>8. NetDeleting'
        BY <3>2, <3>3, <3>7, Zenon DEF NetDeleting, NetOp, Range
      <3> QED BY <3>3, <3>5, <3>6, <3>8, Zenon DEF NetInv
    <2> QED BY <1>range, <1>rules, <1>hook, <2>type, <2>op, <2>net, Zenon DEF IInv
  <1> QED BY <1>write, <1>delete, Zenon

LEMMA UpdateUnwindKeeps ==
  ASSUME ReleaseSound, IInv, UpdateUnwind
  PROVE  IInv'
  <1>inv. TypeInv /\ RangeInv /\ RuleInv /\ OpInv /\ NetInv /\ HookInv
    BY Zenon DEF IInv
  <1> USE <1>inv
  <1>facts. /\ Fails("write") /\ op.phase = "write" /\ op' = Idle
            /\ DOMAIN alloc' = Tables
            /\ \A t \in Tables : Tidy(alloc'[t]) /\ Free(t)' = Free(t) \cup OpIdx(t)
            /\ slots' \in [Tables -> [Slots -> SUBSET Rule]]
            /\ \A t \in Tables, x \in Slots : slots'[t][x] = IF x \in OpIdx(t) THEN {} ELSE slots[t][x]
            /\ net' \in [Cgids -> [Addrs -> SUBSET Ports]]
            /\ UNCHANGED <<book, ctx, hook, inForce>>
    <2>1. /\ Fails("write") /\ op.phase = "write" /\ op' = Idle
          /\ net' = [net EXCEPT ![op.cg] = [a \in Addrs |-> IF a \in Keys(op.plan) THEN {} ELSE @[a]]]
          /\ slots' = [t \in Tables |-> [i \in Slots |->
                         IF i \in Indices(op.range[t]) THEN {} ELSE slots[t][i]]]
          /\ alloc' = [t \in Tables |-> Release(alloc[t], op.range[t].base, op.range[t].len)]
          /\ UNCHANGED <<book, ctx, hook, inForce>>
      BY Zenon DEF UpdateUnwind
    <2>2. DOMAIN alloc' = Tables /\ \A t \in Tables : Tidy(alloc'[t]) /\ Free(t)' = Free(t) \cup OpIdx(t)
      BY <2>1, ReclaimFacts, Zenon
    <2>3. \A t \in Tables : OpIdx(t) = Indices(op.range[t])
      BY <2>1, OpIdxIs, Zenon
    <2>4. slots \in [Tables -> [Slots -> SUBSET Rule]] /\ net \in [Cgids -> [Addrs -> SUBSET Ports]]
      BY Zenon DEF TypeInv
    <2>5. slots' \in [Tables -> [Slots -> SUBSET Rule]]
          /\ \A t \in Tables, x \in Slots : slots'[t][x] = IF x \in OpIdx(t) THEN {} ELSE slots[t][x]
      BY <2>1, <2>3, <2>4, Zenon
    <2>6. net' \in [Cgids -> [Addrs -> SUBSET Ports]]
      <3>1. op.cg \in Cgids
        BY <2>1, OpCases, Zenon
      <3>2. [a \in Addrs |-> IF a \in Keys(op.plan) THEN {} ELSE net[op.cg][a]] \in [Addrs -> SUBSET Ports]
        BY <2>4, <3>1, Zenon
      <3> QED BY <2>1, <2>4, <3>1, <3>2, Zenon
    <2> QED BY <2>1, <2>2, <2>5, <2>6, Zenon
  <1>type. TypeInv'
    <2>1. /\ op' = Idle /\ DOMAIN alloc' = Tables /\ \A t \in Tables : Tidy(alloc'[t])
          /\ slots' \in [Tables -> [Slots -> SUBSET Rule]] /\ net' \in [Cgids -> [Addrs -> SUBSET Ports]]
          /\ UNCHANGED <<book, ctx, hook, inForce>> /\ failed' \in Seq(Faults)
      BY <1>facts, FailsType, Zenon
    <2> QED BY <2>1, Zenon DEF TypeInv, Tidy, Asked, Idle
  <1>range. RangeInv'
    <2>1. Fails("write") /\ op' = Idle /\ book' = book /\ \A t \in Tables : Free(t)' = Free(t) \cup OpIdx(t)
      BY <1>facts, Zenon
    <2>2. \A t \in Tables : OpIdx(t)' = {}
      BY <2>1, Zenon DEF OpIdx, Idle
    <2>3. Range(failed) \subseteq Range(failed')
      BY <2>1, FailsType, Zenon
    <2>4. \A t \in Tables : /\ OpIdx(t)' \subseteq OpIdx(t) \cup Free(t)
                            /\ Free(t)' = (OpIdx(t) \cup Free(t)) \ OpIdx(t)'
      BY <2>1, <2>2, Zenon
    <2> QED BY <2>1, <2>3, <2>4, RangeMoved, Zenon
  <1>rules. RuleInv'
    BY <1>facts, RulesStay, Zenon
  <1>op. OpInv' /\ NetInv'
    BY <1>facts, IdleOp, Faulted, Zenon
  <1>hook. HookInv'
    <2>1. \A t \in Tables, x \in Slots : slots'[t][x] \subseteq slots[t][x]
      BY <1>facts, Zenon
    <2> QED BY <1>facts, <2>1, IdleHook, Zenon
  <1> QED BY <1>type, <1>range, <1>rules, <1>op, <1>hook, Zenon DEF IInv

LEMMA UpdateSwapKeeps ==
  ASSUME DeletesSound, IInv, UpdateSwap
  PROVE  IInv'
  <1>inv. TypeInv /\ RangeInv /\ RuleInv /\ OpInv /\ NetInv /\ HookInv
    BY ZenonT(30) DEF IInv
  <1> USE <1>inv
  <1>deletes. ASSUME NEW keys \in SUBSET Addrs, NEW range \in Extents
              PROVE  /\ Deletes(range, keys) \in Seq(MapOp)
                     /\ \A o : o \in Range(Deletes(range, keys)) <=>
                          \/ \E t \in Tables : \E x \in Indices(range[t]) : o = SlotOp(t, x, {})
                          \/ \E a \in keys : o = NetOp(a, {})
    BY <1>deletes, Zenon DEF DeletesSound
  <1>facts. LET c == op.cg IN
            /\ op.phase = "write" /\ op.todo = <<>> /\ c \in Cgids /\ op.plan \in Plan /\ op.range \in Extents
            /\ op' # Idle /\ op'.phase = "delete" /\ op'.cg = c /\ op'.drop = FALSE
            /\ op'.range = book[c].range
            /\ op'.todo = Deletes(book[c].range, book[c].keys \ Keys(op.plan))
            /\ Deleting' /\ book[c].range \in Extents /\ book[c].keys \ Keys(op.plan) \in SUBSET Addrs
            /\ book' \in [Cgids -> [in : BOOLEAN, range : Extents, keys : SUBSET Addrs]]
            /\ book'[c].in = TRUE /\ book'[c].range = op.range /\ book'[c].keys = Keys(op.plan)
            /\ \A d \in Cgids : d # c => book'[d] = book[d]
            /\ ctx' \in [Cgids -> [present : BOOLEAN, enforcing : BOOLEAN, range : Extents]]
            /\ ctx'[c].range = op.range
            /\ \A d \in Cgids : d # c => ctx'[d] = ctx[d]
            /\ inForce' \in [Cgids -> Plan] /\ inForce'[c] = op.plan
            /\ \A d \in Cgids : d # c => inForce'[d] = inForce[d]
            /\ hook' = IF hook.on /\ hook.cg = c THEN [hook EXCEPT !.legal = @ \cup {op.plan}] ELSE hook
            /\ UNCHANGED <<alloc, slots, net, failed>>
    <2> DEFINE c == op.cg
               stale == book[c].keys \ Keys(op.plan)
    <2>1. /\ op.phase = "write" /\ op.todo = <<>>
          /\ ctx' = [ctx EXCEPT ![c] = [present |-> TRUE, enforcing |-> TRUE, range |-> op.range]]
          /\ book' = [book EXCEPT ![c] = [in |-> TRUE, range |-> op.range, keys |-> Keys(op.plan)]]
          /\ op' = [phase |-> "delete", cg |-> c, drop |-> FALSE, range |-> book[c].range,
                    todo |-> Deletes(book[c].range, stale)]
          /\ inForce' = [inForce EXCEPT ![c] = op.plan]
          /\ hook' = IF hook.on /\ hook.cg = c THEN [hook EXCEPT !.legal = @ \cup {op.plan}] ELSE hook
          /\ UNCHANGED <<alloc, slots, net, failed>>
      BY Zenon DEF UpdateSwap, StaleKeys
    <2>2. c \in Cgids /\ op.plan \in Plan /\ op.range \in Extents
      BY <2>1, OpCases, Zenon
    <2> HIDE DEF c, stale
    <2>3. book[c].range \in Extents /\ stale \in SUBSET Addrs /\ Keys(op.plan) \in SUBSET Addrs
      BY <2>2, SandboxTypes, PlanType, Zenon DEF stale
    <2>4. Deletes(book[c].range, stale) \in Seq(MapOp)
      BY <2>3, <1>deletes, Zenon
    <2>5. /\ Deleting' /\ op'.phase = "delete" /\ op'.cg = c /\ op'.drop = FALSE
          /\ op'.range = book[c].range /\ op'.todo = Deletes(book[c].range, stale)
      BY <2>1, <2>2, <2>3, <2>4, Zenon DEF Deleting
    <2>6. op' # Idle
      BY <2>5 DEF Idle
    <2>7. /\ book' \in [Cgids -> [in : BOOLEAN, range : Extents, keys : SUBSET Addrs]]
          /\ book'[c].in = TRUE /\ book'[c].range = op.range /\ book'[c].keys = Keys(op.plan)
          /\ \A d \in Cgids : d # c => book'[d] = book[d]
      <3> DEFINE new == [in |-> TRUE, range |-> op.range, keys |-> Keys(op.plan)]
      <3>1. new \in [in : BOOLEAN, range : Extents, keys : SUBSET Addrs]
            /\ new.in = TRUE /\ new.range = op.range /\ new.keys = Keys(op.plan)
        BY <2>2, <2>3, Zenon
      <3>2. book' = [book EXCEPT ![c] = new]
        BY <2>1, Zenon
      <3> HIDE DEF new
      <3> QED BY <2>2, <3>1, <3>2, Zenon DEF TypeInv
    <2>8. /\ ctx' \in [Cgids -> [present : BOOLEAN, enforcing : BOOLEAN, range : Extents]]
          /\ ctx'[c].range = op.range
          /\ \A d \in Cgids : d # c => ctx'[d] = ctx[d]
      <3> DEFINE new == [present |-> TRUE, enforcing |-> TRUE, range |-> op.range]
      <3>1. new \in [present : BOOLEAN, enforcing : BOOLEAN, range : Extents] /\ new.range = op.range
        BY <2>2, Zenon
      <3>2. ctx' = [ctx EXCEPT ![c] = new]
        BY <2>1, Zenon
      <3> HIDE DEF new
      <3> QED BY <2>2, <3>1, <3>2, Zenon DEF TypeInv
    <2>9. /\ inForce' \in [Cgids -> Plan] /\ inForce'[c] = op.plan
          /\ \A d \in Cgids : d # c => inForce'[d] = inForce[d]
      BY <2>1, <2>2, Zenon DEF TypeInv
    <2> QED BY <2>1, <2>2, <2>3, <2>5, <2>6, <2>7, <2>8, <2>9, Zenon DEF c, stale
  <1>type. TypeInv'
    <2>1. /\ Deleting'
          /\ book' \in [Cgids -> [in : BOOLEAN, range : Extents, keys : SUBSET Addrs]]
          /\ ctx' \in [Cgids -> [present : BOOLEAN, enforcing : BOOLEAN, range : Extents]]
          /\ inForce' \in [Cgids -> Plan]
          /\ UNCHANGED <<alloc, slots, net, failed>>
      BY <1>facts, Zenon
    <2>2. (hook = [on |-> FALSE] \/ Asked)'
      <3>1. hook' = (IF hook.on /\ hook.cg = op.cg THEN [hook EXCEPT !.legal = @ \cup {op.plan}] ELSE hook)
            /\ op.plan \in Plan
        BY <1>facts, Zenon
      <3>2. CASE hook.on /\ hook.cg = op.cg
        <4>1. Asked /\ hook.legal \cup {op.plan} \in SUBSET Plan
          BY <3>1, <3>2, HookTypes, Zenon
        <4>2. hook' = [hook EXCEPT !.legal = @ \cup {op.plan}]
          BY <3>1, <3>2, Zenon
        <4>3. Asked'
          BY <4>1, <4>2, Zenon DEF Asked
        <4> QED BY <4>3, Zenon
      <3>3. CASE ~(hook.on /\ hook.cg = op.cg)
        <4>1. hook' = hook
          BY <3>1, <3>3, Zenon
        <4> QED BY <4>1, Zenon DEF TypeInv, Asked
      <3> QED BY <3>2, <3>3, Zenon
    <2> QED BY <2>1, <2>2, Zenon DEF TypeInv, Tidy
  <1>range. RangeInv'
    <2>0. PICK c \in Cgids : c = op.cg
      BY <1>facts, Zenon
    <2>1. /\ op.phase = "write" /\ c \in Cgids /\ op' # Idle /\ op'.range = book[c].range
          /\ book'[c].in = TRUE /\ book'[c].range = op.range
          /\ alloc' = alloc /\ failed' = failed
      BY <2>0, <1>facts, Zenon
    <2>2. \A d \in Cgids : d # c => book'[d] = book[d]
      BY <2>0, <1>facts, Zenon
    <2>3. book[c].in
      BY <2>0, <2>1, Zenon DEF OpInv
    <2>4. ASSUME NEW t \in Tables
          PROVE  /\ Free(t)' = Free(t) /\ OpIdx(t)' = BookIdx(c, t) /\ BookIdx(c, t)' = OpIdx(t)
                 /\ \A d \in Cgids : d # c => BookIdx(d, t)' = BookIdx(d, t)
      <3>1. Free(t)' = Free(t)
        BY <2>1, SameFree, Zenon
      <3>2. OpIdx(t)' = BookIdx(c, t)
        BY <2>1, Zenon DEF OpIdx, BookIdx, Indices, Idle
      <3>3. OpIdx(t) = Indices(op.range[t])
        BY <2>1, OpIdxIs, Zenon
      <3>4. BookIdx(c, t)' = Indices(op.range[t])
        BY <2>1, Zenon DEF BookIdx, Indices
      <3>5. \A d \in Cgids : d # c => BookIdx(d, t)' = BookIdx(d, t)
        BY <2>2, SameBook, Zenon
      <3> QED BY <3>1, <3>2, <3>3, <3>4, <3>5, Zenon
    <2>5. \A t \in Tables : Free(t)' \subseteq Slots /\ OpIdx(t)' \subseteq Slots /\ OpIdx(t)' \cap Free(t)' = {}
      <3>1. ASSUME NEW t \in Tables
            PROVE  /\ Free(t) \subseteq Slots /\ BookIdx(c, t) \subseteq Slots
                   /\ BookIdx(c, t) \cap Free(t) = {}
        BY <2>1, <2>3, Zenon DEF RangeInv
      <3> QED BY <2>4, <3>1, Zenon
    <2>6. ASSUME NEW t \in Tables, NEW d \in Cgids, book'[d].in
          PROVE  /\ BookIdx(d, t)' \subseteq Slots
                 /\ BookIdx(d, t)' \cap Free(t)' = {} /\ BookIdx(d, t)' \cap OpIdx(t)' = {}
      <3>1. CASE d = c
        <4>1. BookIdx(d, t)' = OpIdx(t) /\ OpIdx(t)' = BookIdx(c, t) /\ Free(t)' = Free(t)
          BY <2>4, <3>1, Zenon
        <4>2. OpIdx(t) \subseteq Slots /\ OpIdx(t) \cap Free(t) = {} /\ BookIdx(c, t) \cap OpIdx(t) = {}
          BY <2>1, <2>3, Zenon DEF RangeInv
        <4> QED BY <4>1, <4>2, Zenon
      <3>2. CASE d # c
        <4>1. BookIdx(d, t)' = BookIdx(d, t) /\ OpIdx(t)' = BookIdx(c, t) /\ Free(t)' = Free(t) /\ book[d].in
          BY <2>2, <2>4, <2>6, <3>2, Zenon
        <4>2. /\ BookIdx(d, t) \subseteq Slots /\ BookIdx(d, t) \cap Free(t) = {}
              /\ BookIdx(d, t) \cap BookIdx(c, t) = {}
          BY <2>1, <2>3, <3>2, <4>1, Zenon DEF RangeInv
        <4> QED BY <4>1, <4>2, Zenon
      <3> QED BY <3>1, <3>2, Zenon
    <2>7. ASSUME NEW t \in Tables, NEW d \in Cgids, NEW e \in Cgids, d # e, book'[d].in, book'[e].in
          PROVE  BookIdx(d, t)' \cap BookIdx(e, t)' = {}
      <3>1. \A f \in Cgids : f # c /\ book'[f].in => book[f].in /\ BookIdx(f, t) \cap OpIdx(t) = {}
        BY <2>2, Zenon DEF RangeInv
      <3>2. CASE d = c
        BY <2>4, <2>7, <3>1, <3>2, Zenon
      <3>3. CASE e = c
        BY <2>4, <2>7, <3>1, <3>3, Zenon
      <3>4. CASE d # c /\ e # c
        <4>1. BookIdx(d, t)' = BookIdx(d, t) /\ BookIdx(e, t)' = BookIdx(e, t)
          BY <2>4, <3>4, Zenon
        <4>2. book[d].in /\ book[e].in
          BY <2>7, <3>1, <3>4, Zenon
        <4>3. BookIdx(d, t) \cap BookIdx(e, t) = {}
          BY <2>7, <4>2, Zenon DEF RangeInv
        <4> QED BY <4>1, <4>3, Zenon
      <3> QED BY <3>2, <3>3, <3>4, Zenon
    <2>8. ASSUME "swap" \notin Range(failed'), NEW t \in Tables, NEW x \in Slots
          PROVE  x \in Free(t)' \/ x \in OpIdx(t)' \/ \E d \in Cgids : book'[d].in /\ x \in BookIdx(d, t)'
      <3>1. x \in Free(t) \/ x \in OpIdx(t) \/ \E d \in Cgids : book[d].in /\ x \in BookIdx(d, t)
        BY <2>1, <2>8, Zenon DEF RangeInv
      <3>2. CASE x \in Free(t)
        BY <2>4, <3>2, Zenon
      <3>3. CASE x \in OpIdx(t)
        <4>1. x \in BookIdx(c, t)' /\ book'[c].in /\ c \in Cgids
          BY <2>1, <2>4, <3>3, Zenon
        <4> QED BY <4>1, Zenon
      <3>4. ASSUME NEW d \in Cgids, book[d].in, x \in BookIdx(d, t)
            PROVE  x \in OpIdx(t)' \/ (book'[d].in /\ x \in BookIdx(d, t)')
        BY <2>2, <2>4, <3>4, Zenon
      <3> QED BY <3>1, <3>2, <3>3, <3>4, Zenon
    <2> QED BY <2>5, <2>6, <2>7, <2>8, Zenon DEF RangeInv, Slots, Tables, Range
  \* The swap installs a plan all of whose rules are written.
  <1>rules. RuleInv'
    <2>0. PICK c \in Cgids : c = op.cg
      BY <1>facts, ZenonT(30)
    <2>1. /\ op.phase = "write" /\ op.todo = <<>> /\ slots' = slots
          /\ book'[c].range = op.range /\ ctx'[c].range = op.range /\ inForce'[c] = op.plan
          /\ \A d \in Cgids : d # c => book'[d] = book[d] /\ ctx'[d] = ctx[d] /\ inForce'[d] = inForce[d]
      BY <2>0, <1>facts, Zenon
    <2>2. Installed(c)'
      <3>1. Range(op.todo) = {}
        BY <2>1, RangeOfEmpty, Zenon
      <3>2. ASSUME NEW t \in Tables PROVE Stored(t, book[c].range[t], inForce[c][t])'
        <4> DEFINE r == op.range[t]
                   rules == op.plan[t]
        <4>1. /\ r.len = Len(rules)
              /\ \A i \in 1 .. r.len : \/ slots[t][r.base + i - 1] = {rules[i]}
                                       \/ SlotOp(t, r.base + i - 1, {rules[i]}) \in Range(op.todo)
          BY <2>1, Zenon DEF OpInv
        <4>2. book'[c].range[t] = r /\ inForce'[c][t] = rules
          BY <2>1, Zenon
        <4> HIDE DEF r, rules
        <4>3. \A i \in 1 .. r.len : slots'[t][r.base + i - 1] = {rules[i]}
          BY <2>1, <3>1, <4>1, Zenon
        <4> QED BY <4>1, <4>2, <4>3, Zenon DEF Stored
      <3>3. Validates(op.plan)
        BY <2>1, Zenon DEF OpInv
      <3>4. Validates(inForce[c])'
        BY <2>1, <3>3, Zenon DEF Validates, Count
      <3> QED BY <2>1, <3>2, <3>4, Zenon DEF Installed
    <2>3. ASSUME NEW d \in Cgids, d # c, book'[d].in PROVE Installed(d)'
      <3>1. book[d].in /\ Installed(d) /\ book'[d] = book[d] /\ ctx'[d].range = ctx[d].range
            /\ inForce'[d] = inForce[d]
        BY <2>1, <2>3, Zenon DEF RuleInv
      <3>2. \A t \in Tables, x \in Slots : x \in BookIdx(d, t) => slots'[t][x] = slots[t][x]
        BY <2>1, Zenon
      <3> QED BY <3>1, <3>2, InstalledStays, Zenon
    <2> QED BY <2>2, <2>3, Zenon DEF RuleInv
  <1>op. OpInv'
    <2>0. PICK c \in Cgids : c = op.cg
      BY <1>facts, ZenonT(30)
    <2> DEFINE range == book[c].range
               keys == book[c].keys \ Keys(op.plan)
    <2>1. /\ op'.phase = "delete" /\ op'.range = range /\ op'.todo = Deletes(range, keys)
          /\ op'.cg = c /\ op'.drop = FALSE /\ book'[c].in = TRUE /\ inForce'[c] = op.plan
          /\ range \in Extents /\ keys \in SUBSET Addrs
      BY <2>0, <1>facts, Zenon
    <2>2. \A a \in keys : a \notin Keys(inForce'[op'.cg])
      BY <2>1, Zenon
    <2>3. book'[op'.cg].in = ~op'.drop
      BY <2>1, Zenon
    <2> HIDE DEF range, keys
    <2> QED BY <2>1, <2>2, <2>3, DeletionOp, Zenon
  <1>net. NetInv'
    <2>1. SUFFICES ASSUME failed' = <<>> PROVE NetInv'
      BY Zenon DEF NetInv
    <2>0. PICK c \in Cgids : c = op.cg
      BY <1>facts, ZenonT(30)
    <2> DEFINE keys == book[c].keys \ Keys(op.plan)
    <2>2. /\ op.phase = "write" /\ op.todo = <<>> /\ op.plan \in Plan /\ failed = <<>> /\ net' = net
          /\ op' # Idle /\ op'.phase = "delete" /\ op'.cg = c /\ op'.drop = FALSE
          /\ op'.todo = Deletes(book[c].range, keys)
          /\ book[c].range \in Extents /\ keys \in SUBSET Addrs
          /\ book'[c].in = TRUE /\ book'[c].keys = Keys(op.plan) /\ inForce'[c] = op.plan
          /\ \A d \in Cgids : d # c => book'[d] = book[d] /\ inForce'[d] = inForce[d]
      BY <2>0, <2>1, <1>facts, Zenon
    <2>3. Keyed /\ NetWriting /\ \A d \in Cgids : c # d => Settled(d)
      BY <2>0, <2>2, Zenon DEF NetInv
    <2>4. Keyed'
      <3>1. ASSUME NEW d \in Cgids, book'[d].in PROVE book'[d].keys = Keys(inForce'[d])
        <4>1. CASE d = c
          BY <2>2, <4>1, Zenon
        <4>2. CASE d # c
          BY <2>2, <2>3, <3>1, <4>2, Zenon DEF Keyed
        <4> QED BY <4>1, <4>2, Zenon
      <3> QED BY <3>1, Zenon DEF Keyed, Keys
    <2>5. ASSUME NEW d \in Cgids, c # d PROVE Settled(d)'
      BY <2>2, <2>3, <2>5, SameSettled, Zenon
    <2>6. \A a \in keys : NetOp(a, {}) \in Range(op'.todo)
      <3> DEFINE range == book[c].range
      <3>1. range \in Extents /\ op'.todo = Deletes(range, keys) /\ keys \in SUBSET Addrs
        BY <2>2, Zenon
      <3> HIDE DEF range, keys
      <3>2. \A o : o \in Range(Deletes(range, keys)) <=>
              \/ \E t \in Tables : \E x \in Indices(range[t]) : o = SlotOp(t, x, {})
              \/ \E a \in keys : o = NetOp(a, {})
        BY <3>1, <1>deletes, Zenon
      <3>3. \A a \in keys : NetOp(a, {}) \in Range(Deletes(range, keys))
        BY <3>2, Zenon
      <3> QED BY <3>1, <3>3, Zenon
    <2>7. ASSUME NEW a \in Addrs
          PROVE  net[c][a] = op.plan.net[a] \/ NetOp(a, {}) \in Range(op'.todo)
      <3>1. CASE a \in Keys(op.plan)
        <4>1. Range(op.todo) = {}
          BY <2>2, RangeOfEmpty, Zenon
        <4>2. net[op.cg][a] = op.plan.net[a] \/ NetOp(a, op.plan.net[a]) \in Range(op.todo)
          BY <2>3, <3>1, Zenon DEF NetWriting
        <4> QED BY <2>0, <4>1, <4>2, Zenon
      <3>2. CASE a \notin Keys(op.plan) /\ a \in book[c].keys
        BY <2>6, <3>2, Zenon
      <3>3. CASE a \notin Keys(op.plan) /\ a \notin book[c].keys
        <4>1. op.plan.net[a] = {}
          BY <2>2, <3>3, KeysAre, Zenon
        <4>2. net[c][a] = inForce[c].net[a]
          BY <2>0, <2>3, <3>3, Zenon DEF NetWriting
        <4>3. book[c].in
          BY <2>0, <2>2, Zenon DEF OpInv
        <4>4. a \notin Keys(inForce[c]) /\ inForce[c] \in Plan
          BY <2>3, <3>3, <4>3, SandboxTypes, Zenon DEF Keyed
        <4> QED BY <4>1, <4>2, <4>4, KeysAre, Zenon
      <3> QED BY <3>1, <3>2, <3>3, Zenon
    <2>8. NetDeleting'
      BY <2>2, <2>7, Zenon DEF NetDeleting, NetOp, Range
    <2> QED BY <2>2, <2>4, <2>5, <2>8, Zenon DEF NetInv
  \* The swap adds the new policy to those in force during the hook's run.
  <1>hook. HookInv'
    <2>0. PICK c \in Cgids : c = op.cg
      BY <1>facts, ZenonT(30)
    <2>1. /\ op.phase = "write" /\ op # Idle /\ op'.phase = "delete" /\ op'.cg = c /\ slots' = slots
          /\ book'[c].in = TRUE
          /\ \A d \in Cgids : d # c => book'[d] = book[d] /\ ctx'[d] = ctx[d] /\ inForce'[d] = inForce[d]
          /\ hook' = IF hook.on /\ hook.cg = c THEN [hook EXCEPT !.legal = @ \cup {op.plan}] ELSE hook
      BY <2>0, <1>facts, OpCases, Zenon
    <2>2. op'.phase # "write"
      BY <2>1, Zenon
    <2>3. CASE ~hook.on \/ hook.cg # c
      <3>1. hook' = hook
        BY <2>1, <2>3, Zenon
      <3>2. hook.on => /\ book'[hook.cg].in /\ inForce'[hook.cg] = inForce[hook.cg]
                       /\ ctx'[hook.cg].range = ctx[hook.cg].range
        BY <2>1, <2>3, HookTypes, Zenon DEF HookInv
      <3>3. op # Idle /\ op'.cg = op.cg
        BY <2>0, <2>1, Zenon
      <3> QED BY <2>1, <2>2, <3>1, <3>2, <3>3, HookStays, Zenon
    <2>4. CASE hook.on /\ hook.cg = c
      <3>1. hook' = [hook EXCEPT !.legal = @ \cup {op.plan}] /\ Asked
        BY <2>1, <2>4, HookTypes, Zenon
      <3>2. /\ hook'.on = hook.on /\ hook'.cg = hook.cg /\ hook'.table = hook.table /\ hook'.obj = hook.obj
            /\ hook'.access = hook.access /\ hook'.range = hook.range /\ hook'.says = hook.says
            /\ hook'.legal = hook.legal \cup {op.plan}
            /\ hook'.spans = hook.spans /\ hook'.quiet = hook.quiet
        BY <3>1, Zenon DEF Asked
      <3>3. ~hook.quiet
        BY <2>0, <2>1, <2>4, Zenon DEF HookInv, HookQuiet
      <3>4. book'[hook'.cg].in /\ Indices(hook'.range) \subseteq Slots
        BY <2>1, <2>4, <3>2, Zenon DEF HookInv
      <3>5. ASSUME hook.spans = 0 PROVE HookFresh'
        <4>1. HookFresh /\ Indices(hook.range) \subseteq Slots
          BY <2>4, <3>5, Zenon DEF HookInv
        <4>2. PICK p \in hook.legal : Remnant(p)
          BY <4>1, Zenon DEF HookFresh
        <4>3. Remnant(p)'
          BY <2>1, <2>4, <3>2, <4>1, <4>2, RemnantStays, Zenon
        <4>4. \E q \in hook'.legal : Remnant(q)'
          BY <3>2, <4>2, <4>3, Zenon
        <4>5. Allowed(hook) => Allowed(hook)'
          BY <3>2, Zenon DEF Allowed
        <4>6. hook'.table = "exec" /\ hook'.says = "allow" => Allowed(hook)'
          BY <3>2, <4>1, <4>5, Zenon DEF HookFresh
        <4> QED BY <2>2, <4>4, <4>6, Zenon DEF HookFresh
      <3> QED BY <3>2, <3>3, <3>4, <3>5, Zenon DEF HookInv, Slots, Indices
    <2> QED BY <2>3, <2>4, Zenon
  <1> QED BY <1>type, <1>range, <1>rules, <1>op, <1>net, <1>hook, Zenon DEF IInv

LEMMA UpdateAbandonedKeeps ==
  ASSUME IInv, UpdateAbandoned
  PROVE  IInv'
  <1>inv. TypeInv /\ RangeInv /\ RuleInv /\ OpInv /\ NetInv /\ HookInv
    BY Zenon DEF IInv
  <1> USE <1>inv
  <1>facts. /\ op' = Idle /\ Fails("swap")
            /\ UNCHANGED <<alloc, book, slots, net, ctx, hook, inForce>>
    BY Zenon DEF UpdateAbandoned, kernel
  <1>type. TypeInv'
    <2>1. op' = Idle /\ UNCHANGED <<alloc, book, slots, net, ctx, hook, inForce>> /\ failed' \in Seq(Faults)
      BY FailsType, Zenon DEF UpdateAbandoned, kernel
    <2> QED BY <2>1, Zenon DEF TypeInv, Tidy, Asked, Idle
  <1>range. RangeInv'
    <2>1. op' = Idle /\ book' = book /\ alloc' = alloc /\ "swap" \in Range(failed')
      BY FailsType, Zenon DEF UpdateAbandoned
    <2>2. \A t \in Tables : Free(t)' = Free(t) /\ OpIdx(t)' = {}
      BY <2>1, SameFree, Zenon DEF OpIdx, Idle
    <2>3. \A t \in Tables, c \in Cgids : BookIdx(c, t)' = BookIdx(c, t)
      BY <2>1, SameBook, Zenon
    <2>4. \A t \in Tables : Free(t)' \subseteq Slots /\ OpIdx(t)' \subseteq Slots /\ OpIdx(t)' \cap Free(t)' = {}
      BY <2>2, Zenon DEF RangeInv
    <2>5. \A t \in Tables, c \in Cgids : book'[c].in =>
            /\ BookIdx(c, t)' \subseteq Slots
            /\ BookIdx(c, t)' \cap Free(t)' = {} /\ BookIdx(c, t)' \cap OpIdx(t)' = {}
      BY <2>1, <2>2, <2>3 DEF RangeInv
    <2>6. \A t \in Tables, c, d \in Cgids :
            c # d /\ book'[c].in /\ book'[d].in => BookIdx(c, t)' \cap BookIdx(d, t)' = {}
      BY <2>1, <2>3 DEF RangeInv
    <2> QED BY <2>1, <2>4, <2>5, <2>6, Zenon DEF RangeInv, Slots, Tables, Range
  <1>rules. RuleInv'
    BY <1>facts, RulesStay, Zenon
  <1>op. OpInv' /\ NetInv'
    BY <1>facts, IdleOp, Faulted, Zenon
  <1>hook. HookInv'
    BY <1>facts, IdleHook, Zenon
  <1> QED BY <1>type, <1>range, <1>rules, <1>op, <1>hook, Zenon DEF IInv

LEMMA DeleteDoneKeeps ==
  ASSUME ReleaseSound, IInv, DeleteDone
  PROVE  IInv'
  <1>inv. TypeInv /\ RangeInv /\ RuleInv /\ OpInv /\ NetInv /\ HookInv
    BY ZenonT(30) DEF IInv
  <1> USE <1>inv
  <1>facts. LET c == op.cg IN
            /\ op.phase = "delete" /\ op.todo = <<>> /\ op' = Idle /\ c \in Cgids
            /\ DOMAIN alloc' = Tables
            /\ \A t \in Tables : Tidy(alloc'[t]) /\ Free(t)' = Free(t) \cup OpIdx(t)
            /\ ctx' \in [Cgids -> [present : BOOLEAN, enforcing : BOOLEAN, range : Extents]]
            /\ \A d \in Cgids : d # c \/ ~op.drop => ctx'[d] = ctx[d]
            /\ failed' = failed \/ Fails("delete")
            /\ failed' \in Seq(Faults)
            /\ UNCHANGED <<book, slots, net, hook, inForce>>
    <2> DEFINE c == op.cg
               gone == [present |-> FALSE, enforcing |-> FALSE, range |-> NoRange]
    <2>1. /\ op.phase = "delete" /\ op.todo = <<>> /\ op' = Idle
          /\ alloc' = [t \in Tables |-> Release(alloc[t], op.range[t].base, op.range[t].len)]
          /\ \/ ctx' = (IF op.drop THEN [ctx EXCEPT ![c] = gone] ELSE ctx) /\ failed' = failed
             \/ Fails("delete") /\ ctx' = ctx
          /\ UNCHANGED <<book, slots, net, hook, inForce>>
      BY Zenon DEF DeleteDone, Reclaimed
    <2>2. DOMAIN alloc' = Tables /\ \A t \in Tables : Tidy(alloc'[t]) /\ Free(t)' = Free(t) \cup OpIdx(t)
      BY <2>1, ReclaimFacts, Zenon
    <2>3. c \in Cgids
      BY <2>1, OpCases, Zenon
    <2>4. gone \in [present : BOOLEAN, enforcing : BOOLEAN, range : Extents]
      BY NoRangeType, Zenon
    <2> HIDE DEF c, gone
    <2>5. /\ ctx' \in [Cgids -> [present : BOOLEAN, enforcing : BOOLEAN, range : Extents]]
          /\ \A d \in Cgids : d # c \/ ~op.drop => ctx'[d] = ctx[d]
      <3>1. ctx \in [Cgids -> [present : BOOLEAN, enforcing : BOOLEAN, range : Extents]]
        BY Zenon DEF TypeInv
      <3>2. CASE ctx' = ctx
        BY <3>1, <3>2, Zenon
      <3>3. CASE op.drop /\ ctx' = [ctx EXCEPT ![c] = gone]
        BY <2>3, <2>4, <3>1, <3>3, Zenon
      <3> QED BY <2>1, <3>2, <3>3, Zenon
    <2>6. (failed' = failed \/ Fails("delete")) /\ failed' \in Seq(Faults)
      BY <2>1, FailsType, Zenon DEF TypeInv
    <2> QED BY <2>1, <2>2, <2>3, <2>5, <2>6, Zenon DEF c
  <1>type. TypeInv'
    <2>1. /\ op' = Idle /\ DOMAIN alloc' = Tables /\ \A t \in Tables : Tidy(alloc'[t])
          /\ ctx' \in [Cgids -> [present : BOOLEAN, enforcing : BOOLEAN, range : Extents]]
          /\ failed' \in Seq(Faults)
          /\ UNCHANGED <<book, slots, net, hook, inForce>>
      BY <1>facts, Zenon
    <2> QED BY <2>1, Zenon DEF TypeInv, Tidy, Asked, Idle
  <1>range. RangeInv'
    <2>1. op' = Idle /\ book' = book /\ (failed' = failed \/ Fails("delete"))
          /\ \A t \in Tables : Free(t)' = Free(t) \cup OpIdx(t)
      BY <1>facts, Zenon
    <2>2. \A t \in Tables : OpIdx(t)' = {}
      BY <2>1, Zenon DEF OpIdx, Idle
    <2>3. Range(failed) \subseteq Range(failed')
      BY <2>1, FailsType, Zenon
    <2>4. \A t \in Tables : /\ OpIdx(t)' \subseteq OpIdx(t) \cup Free(t)
                            /\ Free(t)' = (OpIdx(t) \cup Free(t)) \ OpIdx(t)'
      BY <2>1, <2>2, Zenon
    <2> QED BY <2>1, <2>3, <2>4, RangeMoved, Zenon
  <1>ctx. \A d \in Cgids : book[d].in => ctx'[d].range = ctx[d].range
    <2>1. op.phase = "delete" /\ \A d \in Cgids : d # op.cg \/ ~op.drop => ctx'[d] = ctx[d]
      BY <1>facts, Zenon
    <2>2. op.drop \in BOOLEAN /\ book[op.cg].in = ~op.drop
      BY <2>1, OpCases, Zenon DEF OpInv
    <2> QED BY <2>1, <2>2, Zenon
  <1>rules. RuleInv'
    BY <1>facts, <1>ctx, RulesStay, Zenon
  <1>op. OpInv'
    BY <1>facts, IdleOp, Zenon
  <1>net. NetInv'
    <2>0. CASE Fails("delete")
      BY <2>0, Faulted, Zenon
    <2>1. SUFFICES ASSUME failed' = <<>>, ~Fails("delete") PROVE NetInv'
      BY <2>0, Zenon DEF NetInv
    <2>2. /\ op.phase = "delete" /\ op.todo = <<>> /\ op' = Idle /\ op.cg \in Cgids /\ failed = <<>>
          /\ UNCHANGED <<book, net, inForce>>
      BY <2>1, <1>facts, Zenon
    <2>3. Keyed /\ NetDeleting /\ \A d \in Cgids : op.cg # d => Settled(d)
      BY <2>2, Zenon DEF NetInv
    <2>4. Range(op.todo) = {} /\ op.drop \in BOOLEAN /\ book[op.cg].in = ~op.drop
      BY <2>2, RangeOfEmpty, OpCases, Zenon DEF OpInv
    <2>5. Settled(op.cg)
      BY <2>3, <2>4, Zenon DEF NetDeleting, Settled
    <2>6. \A d \in Cgids : Settled(d)
      BY <2>3, <2>5, Zenon
    <2>7. Keyed' /\ \A d \in Cgids : Settled(d)'
      BY <2>2, <2>3, <2>6, Zenon DEF Keyed, Keys, Settled
    <2>8. op'.phase # "write" /\ op'.phase # "delete"
      BY <2>2, Zenon DEF Idle
    <2> QED BY <2>7, <2>8, Zenon DEF NetInv
  <1>hook. HookInv'
    BY <1>facts, <1>ctx, IdleHook, Zenon
  <1> QED BY <1>type, <1>range, <1>rules, <1>op, <1>net, <1>hook, ZenonT(30) DEF IInv

LEMMA HookBeginKeeps ==
  ASSUME IInv, NEW c \in Cgids, NEW q \in Questions, HookBegin(c, q)
  PROVE  IInv'
  <1>inv. TypeInv /\ RangeInv /\ RuleInv /\ OpInv /\ NetInv /\ HookInv
    BY Zenon DEF IInv
  <1> USE <1>inv
  <1>facts. /\ book[c].in /\ Asked' /\ hook'.on = TRUE /\ hook'.cg = c /\ hook'.table \in Tables
            /\ hook'.range = ctx[c].range[hook'.table] /\ hook'.i = 0 /\ hook'.says = "undecided"
            /\ hook'.spans = 0 /\ hook'.quiet = (op = Idle \/ op.cg # c) /\ hook'.legal = {inForce[c]}
            /\ UNCHANGED <<alloc, book, op, slots, net, ctx, inForce, failed>>
    <2>1. /\ book[c].in
          /\ hook' = [on |-> TRUE, cg |-> c, table |-> q[1], obj |-> q[2], access |-> q[3],
                      range |-> ctx[c].range[q[1]], i |-> 0, says |-> "undecided",
                      spans |-> 0, quiet |-> op = Idle \/ op.cg # c, legal |-> {inForce[c]}]
          /\ UNCHANGED <<alloc, book, op, slots, net, ctx, inForce, failed>>
      BY Zenon DEF HookBegin, kernel, history
    <2>2. q[1] \in Tables /\ q[2] \in Objects /\ q[3] \in Accesses
      BY MapsAssumption, Zenon
    <2>3. ctx[c].range[q[1]] \in Extent /\ inForce[c] \in Plan
      BY <2>2, SandboxTypes, ExtentType, Zenon
    <2>4. (op = Idle \/ op.cg # c) \in BOOLEAN /\ {inForce[c]} \in SUBSET Plan
      BY <2>3, Zenon
    <2>5. Asked'
      BY <2>1, <2>2, <2>3, <2>4, Zenon DEF Asked
    <2> QED BY <2>1, <2>2, <2>5, Zenon
  <1>1. /\ UNCHANGED <<alloc, book, op, slots, net, ctx, inForce, failed>>
        /\ (hook = [on |-> FALSE] \/ Asked)'
    BY <1>facts, Zenon
  <1>hook. HookInv'
    <2>1. /\ book[c].in /\ hook'.on = TRUE /\ hook'.cg = c /\ hook'.table \in Tables
          /\ hook'.range = ctx[c].range[hook'.table] /\ hook'.i = 0 /\ hook'.says = "undecided"
          /\ hook'.quiet = (op = Idle \/ op.cg # c) /\ hook'.legal = {inForce[c]}
          /\ UNCHANGED <<book, op, slots, ctx, inForce>>
      BY <1>facts, Zenon
    <2>2. PICK t \in Tables : t = hook'.table
      BY <2>1, Zenon
    <2> DEFINE r == book[c].range[t]
               p == inForce[c]
    <2>3. Installed(c) /\ hook'.range = r
      BY <2>1, <2>2, Zenon DEF RuleInv, Installed
    <2>4. r.len = Len(p[t]) /\ \A i \in 1 .. r.len : slots[t][r.base + i - 1] = {p[t][i]}
      BY <2>3, Zenon DEF Installed, Stored
    <2>5. Indices(r) \subseteq Slots /\ Indices(r) \cap OpIdx(t) = {}
      BY <2>1, Zenon DEF BookIdx, RangeInv
    <2>6. p \in Plan /\ Len(p[t]) \in Nat
      BY SandboxTypes, PlanType, Zenon
    <2>7. book'[hook'.cg].in /\ Indices(hook'.range) \subseteq Slots
      BY <2>1, <2>3, <2>5, Zenon
    <2>8. ASSUME hook'.quiet PROVE HookQuiet'
      <3>1. (op = Idle \/ op.cg # hook.cg)'
        BY <2>1, <2>8, Zenon DEF Idle
      <3>2. hook'.legal = {inForce'[hook'.cg]} /\ hook'.range = ctx'[hook'.cg].range[hook'.table]
        BY <2>1, Zenon
      <3>3. /\ hook'.says = "undecided" /\ hook'.i <= Len(inForce'[hook'.cg][hook'.table])
            /\ \A j \in 1 .. hook'.i : inForce'[hook'.cg][hook'.table][j].obj # hook'.obj
        <4>1. hook'.i = 0 /\ inForce'[hook'.cg][hook'.table] = p[t]
          BY <2>1, <2>2, Zenon
        <4>2. hook'.says = "undecided"
          BY <2>1, Zenon
        <4> HIDE DEF p
        <4>3. hook'.i <= Len(inForce'[hook'.cg][hook'.table])
          <5>1. 0 <= Len(p[t])
            BY <2>6
          <5> QED BY <4>1, <5>1, Zenon
        <4>4. 1 .. hook'.i = {}
          <5>1. 1 .. 0 = {}
            OBVIOUS
          <5> QED BY <4>1, <5>1, Zenon
        <4> QED BY <4>2, <4>3, <4>4, Zenon
      <3> QED BY <3>1, <3>2, <3>3, Zenon DEF HookQuiet
    <2>9. HookFresh'
      <3>1. Remnant(p)'
        <4>1. hook'.range = r /\ hook'.table = t /\ slots' = slots /\ p' = p
          BY <2>1, <2>2, <2>3, Zenon
        <4> HIDE DEF r, p
        <4>2. \A j \in 1 .. r.len : slots[t][r.base + j - 1] \subseteq {p[t][j]}
          BY <2>4, Zenon
        <4> QED BY <2>4, <4>1, <4>2, Zenon DEF Remnant
      <3>2. \E s \in hook'.legal : Remnant(s)'
        <4>1. PICK s : s = p
          BY Zenon
        <4>2. p' = p /\ p \in hook'.legal
          BY <2>1, Zenon
        <4>3. Remnant(s)'
          BY <3>1, <4>1, <4>2, Zenon DEF Remnant
        <4> QED BY <4>1, <4>2, <4>3, Zenon
      <3>3. op'.phase = "write" => Indices(hook'.range) \cap Indices(op'.range[hook'.table]) = {}
        <4>1. SUFFICES ASSUME op.phase = "write"
                       PROVE  Indices(hook'.range) \cap Indices(op'.range[hook'.table]) = {}
          BY <2>1, Zenon
        <4>2. OpIdx(t) = Indices(op.range[t])
          BY <4>1, OpIdxIs, Zenon
        <4> QED BY <2>1, <2>2, <2>3, <2>5, <4>2, Zenon
      <3> QED BY <2>1, <3>2, <3>3, Zenon DEF HookFresh, Indices
    <2> QED BY <2>7, <2>8, <2>9, Zenon DEF HookInv, Slots, Indices
  <1> QED BY <1>1, <1>hook, StillIInv, Zenon

\* What the first rule of a policy that names an object says is what the policy says.
LEMMA FirstDecides ==
  ASSUME DecidesSound, NEW p \in Plan, NEW t \in Tables, NEW k, NEW obj, NEW access,
         FirstNaming(p, t, k, obj)
  PROVE  Decides(p, t, obj, access) = RuleVerdict(t, p[t][k], obj, access)
  <1>1. FirstSound
    BY Zenon DEF DecidesSound
  <1>2. FirstSound => (FirstNaming(p, t, k, obj) => Decides(p, t, obj, access) = RuleVerdict(t, p[t][k], obj, access))
    BY SMT DEF FirstSound
  <1> QED BY <1>1, <1>2, Zenon

LEMMA HookReadKeeps ==
  ASSUME DecidesSound, IInv, HookRead
  PROVE  IInv'
  <1>inv. TypeInv /\ RangeInv /\ RuleInv /\ OpInv /\ NetInv /\ HookInv
    BY ZenonT(30) DEF IInv
  <1> USE <1>inv
  <1>says. ASSUME NEW t, NEW r, NEW obj, NEW access
           PROVE  RuleVerdict(t, r, obj, access) \in {"undecided", "allow", "deny"}
                  /\ Default(t) \in {"allow", "deny"}
    BY <1>says, Zenon DEF RuleVerdict, Default
  <1>facts. /\ hook.on /\ hook.says = "undecided" /\ Asked'
            /\ hook'.on = TRUE /\ hook'.cg = hook.cg /\ hook'.table = hook.table /\ hook'.obj = hook.obj
            /\ hook'.access = hook.access /\ hook'.range = hook.range /\ hook'.spans = hook.spans
            /\ hook'.quiet = hook.quiet /\ hook'.legal = hook.legal
            /\ IF Examined(hook)
                 THEN LET found == slots[hook.table][hook.range.base + hook.i] IN
                      /\ hook'.i = hook.i + 1
                      /\ \/ found = {} /\ hook'.says = "undecided"
                         \/ \E r \in found : hook'.says = RuleVerdict(hook.table, r, hook.obj, hook.access)
                 ELSE hook'.i = hook.i /\ hook'.says = Default(hook.table)
            /\ UNCHANGED <<alloc, book, op, slots, net, ctx, inForce, failed>>
    <2> DEFINE found == slots[hook.table][hook.range.base + hook.i]
               says == {RuleVerdict(hook.table, r, hook.obj, hook.access) : r \in found}
               v == IF found = {} THEN hook.says ELSE CHOOSE w \in says : TRUE
    <2>1. /\ hook.on /\ hook.says = "undecided"
          /\ UNCHANGED <<alloc, book, op, slots, net, ctx, inForce, failed>>
      BY Zenon DEF HookRead, kernel, history
    <2>2. Asked /\ hook.i + 1 \in Nat
      BY <2>1, HookTypes
    <2>3. CASE Examined(hook)
      <3>1. hook' = [hook EXCEPT !.i = @ + 1, !.says = v]
        BY <2>3, Zenon DEF HookRead
      <3>2. \/ found = {} /\ v = "undecided"
            \/ \E r \in found : v = RuleVerdict(hook.table, r, hook.obj, hook.access)
        <4>1. CASE found = {}
          BY <2>1, <4>1, Zenon
        <4>2. CASE found # {}
          <5>1. says # {}
            BY <4>2, Zenon
          <5>2. v \in says
            BY <4>2, <5>1, Zenon
          <5> QED BY <5>2, Zenon
        <4> QED BY <4>1, <4>2, Zenon
      <3>3. v \in {"undecided", "allow", "deny"}
        BY <3>2, <1>says, Zenon
      <3> HIDE DEF v, found
      <3>4. /\ Asked' /\ hook'.on = TRUE /\ hook'.cg = hook.cg /\ hook'.table = hook.table
            /\ hook'.obj = hook.obj /\ hook'.access = hook.access /\ hook'.range = hook.range
            /\ hook'.spans = hook.spans /\ hook'.quiet = hook.quiet /\ hook'.legal = hook.legal
            /\ hook'.i = hook.i + 1 /\ hook'.says = v
        BY <2>2, <3>1, <3>3, Zenon DEF Asked
      <3> QED BY <2>1, <2>3, <3>2, <3>4, Zenon DEF found
    <2>4. CASE ~Examined(hook)
      <3>1. hook' = [hook EXCEPT !.says = Default(hook.table)]
        BY <2>4, Zenon DEF HookRead
      <3>2. Default(hook.table) \in {"undecided", "allow", "deny"}
        BY <1>says, Zenon
      <3>3. /\ Asked' /\ hook'.on = TRUE /\ hook'.cg = hook.cg /\ hook'.table = hook.table
            /\ hook'.obj = hook.obj /\ hook'.access = hook.access /\ hook'.range = hook.range
            /\ hook'.spans = hook.spans /\ hook'.quiet = hook.quiet /\ hook'.legal = hook.legal
            /\ hook'.i = hook.i /\ hook'.says = Default(hook.table)
        BY <2>2, <3>1, <3>2, Zenon DEF Asked
      <3> QED BY <2>1, <2>4, <3>3, Zenon
    <2> QED BY <2>3, <2>4, Zenon
  <1>1. /\ UNCHANGED <<alloc, book, op, slots, net, ctx, inForce, failed>>
        /\ (hook = [on |-> FALSE] \/ Asked)'
    BY <1>facts, Zenon
  <1>first. ASSUME NEW p \in Plan, NEW t \in Tables, NEW obj, NEW access, NEW k, FirstNaming(p, t, k, obj)
            PROVE  Decides(p, t, obj, access) = RuleVerdict(t, p[t][k], obj, access)
    BY <1>first, FirstDecides
  <1>default. ASSUME NEW p \in Plan, NEW t \in Tables, NEW obj, NEW access, \A j \in 1 .. Len(p[t]) : p[t][j].obj # obj
              PROVE  Decides(p, t, obj, access) = Default(t)
    BY <1>default, Zenon DEF DecidesSound, DefaultSound
  <1>exec. ASSUME NEW p \in Plan, NEW obj, NEW access, NEW k \in 1 .. Len(p["exec"]), p["exec"][k].obj = obj
           PROVE  Decides(p, "exec", obj, access) = "allow"
    BY <1>exec, Zenon DEF DecidesSound, AllowSound
  <1>verdicts. ASSUME NEW t, NEW r, NEW obj, NEW access
               PROVE  /\ RuleVerdict(t, r, obj, access) = "undecided" <=> r.obj # obj
                      /\ Default(t) # "undecided"
                      /\ Default("exec") # "allow"
    BY <1>verdicts, Zenon DEF RuleVerdict, Default
  \* Reading one rule: a quiet hook reads the next rule of its policy; a hook that
  \* no update overlaps reads a rule of a policy that was in force, or none.
  <1>quiet. ASSUME hook.quiet
            PROVE  HookQuiet'
    <2> USE <1>quiet
    <2>1. /\ hook.on /\ hook.says = "undecided"
          /\ hook'.cg = hook.cg /\ hook'.table = hook.table /\ hook'.obj = hook.obj
          /\ hook'.access = hook.access /\ hook'.range = hook.range /\ hook'.legal = hook.legal
          /\ UNCHANGED <<book, op, slots, ctx, inForce>>
      BY <1>facts, Zenon
    <2>2. HookQuiet /\ book[hook.cg].in
      BY <2>1, Zenon DEF HookInv
    <2>3. PICK c \in Cgids, t \in Tables : c = hook.cg /\ t = hook.table
      BY <2>1, HookTypes, Zenon
    <2> DEFINE r == hook.range
               p == inForce[c]
               n == Len(p[t])
               k == hook.i
    <2>4. /\ hook.legal = {p} /\ r = ctx[c].range[t] /\ (op = Idle \/ op.cg # c)
          /\ k <= n /\ \A j \in 1 .. k : p[t][j].obj # hook.obj
      BY <2>1, <2>2, <2>3, Zenon DEF HookQuiet
    <2>5. Installed(c)
      BY <2>2, <2>3, Zenon DEF RuleInv
    <2>6. /\ r.len = n /\ n <= MaxRules
          /\ \A i \in 1 .. n : slots[t][r.base + i - 1] = {p[t][i]}
      <3>1. r = book[c].range[t] /\ Stored(t, book[c].range[t], inForce[c][t]) /\ Validates(p)
        BY <2>4, <2>5, Zenon DEF Installed
      <3>2. Stored(t, r, p[t])
        BY <3>1, Zenon
      <3> HIDE DEF r, p
      <3> QED BY <3>1, <3>2, Zenon DEF Stored, Validates, Count
    <2>7. p \in Plan /\ n \in Nat /\ k \in Nat /\ r.base \in Nat
      BY <2>1, SandboxTypes, PlanType, HookTypes, Zenon DEF Extent
    <2>8. /\ hook'.legal = {inForce'[hook'.cg]} /\ hook'.range = ctx'[hook'.cg].range[hook'.table]
          /\ (op = Idle \/ op.cg # hook.cg)'
      BY <2>1, <2>3, <2>4, Zenon DEF Idle
    <2>9. inForce'[hook'.cg] = p
      BY <2>1, <2>3, Zenon
    <2>10. MaxRules \in Nat
      BY MapsAssumption, Zenon
    <2>11. CASE k < n
      <3>1. Examined(hook)
        <4>1. k < r.len /\ k < MaxRules
          <5> HIDE DEF p, n, k, r
          <5> QED BY <2>6, <2>7, <2>10, <2>11
        <4> QED BY <4>1, Zenon DEF Examined
      <3>2. /\ hook'.i = k + 1
            /\ LET found == slots[t][r.base + k] IN
               \/ found = {} /\ hook'.says = "undecided"
               \/ \E s \in found : hook'.says = RuleVerdict(t, s, hook.obj, hook.access)
        BY <2>3, <3>1, <1>facts, Zenon
      <3>3. k + 1 \in 1 .. n /\ r.base + (k + 1) - 1 = r.base + k
        <4> HIDE DEF p, n, k, r
        <4> QED BY <2>7, <2>11
      <3>4. slots[t][r.base + k] = {p[t][k + 1]}
        <4> HIDE DEF p, n, k, r
        <4>1. slots[t][r.base + (k + 1) - 1] = {p[t][k + 1]}
          BY <2>6, <3>3, Zenon
        <4> QED BY <3>3, <4>1, Zenon
      <3>5. hook'.says = RuleVerdict(t, p[t][k + 1], hook.obj, hook.access)
        BY <3>2, <3>4, Zenon
      <3>6. CASE p[t][k + 1].obj # hook.obj
        <4>1. hook'.says = "undecided"
          BY <3>5, <3>6, <1>verdicts, ZenonT(30)
        <4>2. \A j \in 1 .. k + 1 : p[t][j].obj # hook.obj
          <5>1. \A j \in 1 .. k + 1 : j \in 1 .. k \/ j = k + 1
            BY <2>7
          <5> QED BY <2>4, <3>6, <5>1, Zenon
        <4>3. hook'.i <= Len(p[t])
          BY <3>2, <3>3
        <4> HIDE DEF p
        <4> QED BY <2>1, <2>3, <2>8, <2>9, <3>2, <4>1, <4>2, <4>3, ZenonT(30) DEF HookQuiet
      <3>7. CASE p[t][k + 1].obj = hook.obj
        <4>1. hook'.says # "undecided"
          BY <3>5, <3>7, <1>verdicts
        <4>2. PICK m \in 1 .. n : m = k + 1
          BY <3>3, Zenon
        <4>3. \A j \in 1 .. m - 1 : p[t][j].obj # hook.obj
          BY <2>4, <2>7, <4>2
        <4>4. p[t][m].obj = hook.obj
          BY <3>7, <4>2, Zenon
        <4>5. Decides(p, t, hook.obj, hook.access) = RuleVerdict(t, p[t][m], hook.obj, hook.access)
          <5>1. PICK s, obj, access : s \in Plan /\ s = p /\ obj = hook.obj /\ access = hook.access
            BY <2>7, Zenon
          <5>2. FirstNaming(s, t, m, obj)
            BY <4>3, <4>4, <5>1, Zenon DEF FirstNaming
          <5>3. Decides(s, t, obj, access) = RuleVerdict(t, s[t][m], obj, access)
            <6>1. s \in Plan
              BY <5>1, Zenon
            <6> HIDE DEF p
            <6> QED BY <6>1, <5>2, FirstDecides
          <5> QED BY <5>1, <5>3, Zenon
        <4> HIDE DEF p
        <4>6. hook'.says = Decides(inForce'[hook'.cg], hook'.table, hook'.obj, hook'.access)
          BY <2>1, <2>3, <2>9, <3>5, <4>2, <4>5, Zenon
        <4> QED BY <2>8, <4>1, <4>6, Zenon DEF HookQuiet
      <3> QED BY <3>6, <3>7, Zenon
    <2>12. CASE ~(k < n)
      <3>1. ~Examined(hook)
        <4>1. ~(k < r.len)
          BY <2>6, <2>12, Zenon
        <4> QED BY <4>1, Zenon DEF Examined
      <3>2. hook'.says = Default(t)
        BY <2>3, <3>1, <1>facts, Zenon
      <3>3. k = n
        <4> HIDE DEF p, n, k, r
        <4> QED BY <2>4, <2>7, <2>12
      <3>4. \A j \in 1 .. Len(p[t]) : p[t][j].obj # hook.obj
        BY <2>4, <3>3, Zenon
      <3> HIDE DEF p
      <3>5. Decides(p, t, hook.obj, hook.access) = Default(t)
        BY <2>7, <3>4, <1>default, Zenon
      <3>6. hook'.says # "undecided"
        BY <3>2, <1>verdicts, Zenon
      <3>7. hook'.says = Decides(inForce'[hook'.cg], hook'.table, hook'.obj, hook'.access)
        BY <2>1, <2>3, <2>9, <3>2, <3>5, Zenon
      <3> QED BY <2>8, <3>6, <3>7, Zenon DEF HookQuiet
    <2> QED BY <2>11, <2>12, Zenon
  <1>fresh. ASSUME hook.spans = 0
            PROVE  HookFresh'
    <2> USE <1>fresh
    <2>1. /\ hook.on /\ hook.says = "undecided"
          /\ hook'.cg = hook.cg /\ hook'.table = hook.table /\ hook'.obj = hook.obj
          /\ hook'.access = hook.access /\ hook'.range = hook.range /\ hook'.legal = hook.legal
          /\ UNCHANGED <<book, op, slots, ctx, inForce>>
      BY <1>facts, Zenon
    <2>2. HookFresh /\ Indices(hook.range) \subseteq Slots
      BY <2>1, Zenon DEF HookInv
    <2>3. PICK p \in hook.legal : Remnant(p)
      BY <2>2, Zenon DEF HookFresh
    <2>4. Remnant(p)'
      BY <2>1, <2>2, <2>3, RemnantStays, Zenon
    <2>5. \E q \in hook'.legal : Remnant(q)'
      BY <2>1, <2>3, <2>4, Zenon
    <2>6. op'.phase = "write" => Indices(hook'.range) \cap Indices(op'.range[hook'.table]) = {}
      BY <2>1, <2>2, Zenon DEF HookFresh
    <2>7. ASSUME hook'.table = "exec", hook'.says = "allow" PROVE Allowed(hook)'
      <3> DEFINE r == hook.range
                 k == hook.i
      <3>1. Examined(hook)
        <4>1. SUFFICES ASSUME ~Examined(hook) PROVE FALSE
          BY Zenon
        <4>2. hook'.says = Default("exec")
          BY <2>1, <2>7, <4>1, <1>facts, Zenon
        <4> QED BY <2>7, <4>2, <1>verdicts, Zenon
      <3>2. \E s \in slots["exec"][r.base + k] :
              RuleVerdict("exec", s, hook.obj, hook.access) = "allow"
        BY <2>1, <2>7, <3>1, <1>facts, Zenon
      <3>3. PICK s \in slots["exec"][r.base + k] :
              RuleVerdict("exec", s, hook.obj, hook.access) = "allow"
        BY <3>2, Zenon
      <3>4. s.obj = hook.obj
        BY <3>3, Zenon DEF RuleVerdict
      <3>5. /\ r.base \in Nat /\ k \in Nat /\ r.len \in Nat /\ k < r.len /\ p \in Plan
            /\ hook.table = "exec"
        BY <2>1, <2>7, <3>1, HookTypes, Zenon DEF Extent, Examined
      <3>6. r.len = Len(p["exec"]) /\ \A j \in 1 .. r.len : slots["exec"][r.base + j - 1] \subseteq {p["exec"][j]}
        BY <2>3, <3>5, Zenon DEF Remnant
      <3>7. PICK m \in 1 .. r.len : m = k + 1 /\ r.base + m - 1 = r.base + k
        <4> HIDE DEF r, k
        <4>1. k + 1 \in 1 .. r.len /\ r.base + (k + 1) - 1 = r.base + k
          BY <3>5
        <4> QED BY <4>1, Zenon
      <3>8. s = p["exec"][m]
        <4>1. slots["exec"][r.base + m - 1] \subseteq {p["exec"][m]}
          BY <3>6, Zenon
        <4> HIDE DEF r, k
        <4> QED BY <3>3, <3>7, <4>1, Zenon
      <3>9. Decides(p, "exec", hook.obj, hook.access) = "allow"
        <4>1. PICK obj, access : obj = hook.obj /\ access = hook.access
          BY Zenon
        <4>2. m \in 1 .. Len(p["exec"]) /\ p["exec"][m].obj = obj
          BY <3>4, <3>6, <3>8, <4>1, Zenon
        <4>3. Decides(p, "exec", obj, access) = "allow"
          BY <3>5, <4>2, <1>exec, Zenon
        <4> QED BY <4>1, <4>3, Zenon
      <3>10. Decides(p, hook'.table, hook'.obj, hook'.access) = "allow" /\ p \in hook'.legal
        BY <2>1, <2>3, <2>7, <3>9, Zenon
      <3> QED BY <3>10, Zenon DEF Allowed
    <2> QED BY <2>5, <2>6, <2>7, Zenon DEF HookFresh, Indices
  <1>hook. HookInv'
    <2>1. /\ hook.on /\ hook'.cg = hook.cg /\ hook'.range = hook.range
          /\ hook'.spans = hook.spans /\ hook'.quiet = hook.quiet /\ book' = book
      BY <1>facts, Zenon
    <2>2. book'[hook'.cg].in /\ Indices(hook'.range) \subseteq Slots
      BY <2>1, Zenon DEF HookInv
    <2>3. hook'.quiet => HookQuiet'
      BY <2>1, <1>quiet, Zenon
    <2>4. hook'.spans = 0 => HookFresh'
      BY <2>1, <1>fresh, Zenon
    <2> QED BY <2>2, <2>3, <2>4, Zenon DEF HookInv, Slots, Indices
  <1> QED BY <1>1, <1>hook, StillIInv, Zenon
LEMMA HookEndKeeps ==
  ASSUME IInv, HookEnd
  PROVE  IInv'
  <1>1. UNCHANGED <<alloc, book, op, slots, net, ctx, inForce, failed>> /\ hook' = [on |-> FALSE]
    BY Zenon DEF HookEnd, kernel, history
  <1> QED BY <1>1, HookOff, StillIInv, Zenon

LEMMA StutterKeeps ==
  ASSUME IInv, UNCHANGED vars
  PROVE  IInv'
  <1>1. UNCHANGED <<alloc, book, op, slots, net, ctx, hook, inForce, failed>>
    BY Zenon DEF vars
  <1>2. (hook = [on |-> FALSE] \/ Asked)'
    BY <1>1, Zenon DEF IInv, TypeInv, Asked
  <1>3. (op = Idle)' \/ (op # Idle /\ op'.cg = op.cg)
    BY <1>1, Zenon DEF Idle
  <1>4. HookInv'
    BY <1>1, <1>3, HookStays, Zenon DEF IInv, HookInv
  <1> QED BY <1>1, <1>2, <1>4, StillIInv, Zenon

LEMMA StepIInv ==
  ASSUME AllocSound, ReleaseSound, WritesSound, DeletesSound, DecidesSound, IInv, [Next]_vars
  PROVE  IInv'
  <1>1. ASSUME NEW c \in Cgids, Register(c) \/ BeginSetup(c) \/ Deregister(c) PROVE IInv'
    BY <1>1, RegisterKeeps, BeginSetupKeeps, DeregisterKeeps, Zenon
  <1>2. ASSUME NEW c \in Cgids, NEW p \in Plans, UpdateBegin(c, p) PROVE IInv'
    BY <1>2, UpdateBeginKeeps, Zenon
  <1>3. CASE Update
    BY <1>3, LoopKeeps, UpdateUnwindKeeps, UpdateSwapKeeps, UpdateAbandonedKeeps, DeleteDoneKeeps, Zenon DEF Update
  <1>4. ASSUME NEW c \in Cgids, NEW q \in Questions, HookBegin(c, q) PROVE IInv'
    BY <1>4, HookBeginKeeps, Zenon
  <1>5. CASE HookRead \/ HookEnd
    BY <1>5, HookReadKeeps, HookEndKeeps, Zenon
  <1> QED BY <1>1, <1>2, <1>3, <1>4, <1>5, StutterKeeps, Zenon DEF Next
=============================================================================
