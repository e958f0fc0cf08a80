----------------------------- MODULE MapsProofs -----------------------------
(***************************************************************************)
(* With the allocator (RangeProofs) and the steps of the maps (MapsSteps), *)
(* the safety properties of PolicyMaps, for every number of sandboxes,     *)
(* every set of policies, every size of the maps and any number of failing *)
(* map operations.                                                         *)
(***************************************************************************)
EXTENDS MapsSteps, RangeProofs, FiniteSetTheorems

-----------------------------------------------------------------------------
(* What the steps of PolicyMaps rely on *)

LEMMA AllocAny ==
  ASSUME NEW fl, Tidy(fl), NEW n \in Nat, ~AllocFails(fl, n)
  PROVE  LET r == RuleRange(AllocBase(fl, n), n) IN
         /\ r \in Extent /\ r.len = n
         /\ Tidy(AllocRest(fl, n))
         /\ Indices(r) \subseteq FreeIndices(fl)
         /\ FreeIndices(AllocRest(fl, n)) = FreeIndices(fl) \ Indices(r)
  <1> DEFINE b == AllocBase(fl, n)
             r == RuleRange(b, n)
  <1>1. CASE n = 0
    <2>1. b = 0 /\ AllocRest(fl, n) = fl
      BY <1>1, ZenonT(30) DEF AllocBase, AllocRest
    <2>2. Indices(r) = {} /\ r \in Extent
      BY <1>1, <2>1, EmptyRange, ZenonT(30)
    <2>3. r.len = n
      BY Zenon DEF RuleRange
    <2> QED BY <2>1, <2>2, <2>3, ZenonT(30)
  <1>2. CASE n # 0
    <2>1. /\ b \in Nat /\ b .. (b + n - 1) \subseteq FreeIndices(fl)
          /\ Tidy(AllocRest(fl, n))
          /\ FreeIndices(AllocRest(fl, n)) = FreeIndices(fl) \ (b .. (b + n - 1))
      BY <1>2, AllocTakes, AllocLeaves
    <2> HIDE DEF b
    <2>2. r \in Extent /\ r.base = b /\ r.len = n
      BY <2>1, Zenon DEF RuleRange, Extent
    <2>3. Indices(r) = b .. (b + n - 1)
      BY <2>2, ZenonT(30) DEF Indices
    <2> HIDE DEF r
    <2> QED BY <2>1, <2>2, <2>3, ZenonT(30) DEF r, b
  <1> QED BY <1>1, <1>2, ZenonT(30)

LEMMA ReleaseAny ==
  ASSUME NEW fl, Tidy(fl), NEW r \in Extent, Indices(r) \cap FreeIndices(fl) = {}
  PROVE  LET u == Release(fl, r.base, r.len)
         IN  Tidy(u) /\ FreeIndices(u) = FreeIndices(fl) \cup Indices(r)
  <1>1. CASE r.len = 0
    <2>1. r.base \in Nat /\ Indices(r) = r.base .. (r.base + r.len - 1)
      BY Zenon DEF Extent, Indices
    <2>2. Indices(r) = {}
      BY <1>1, <2>1
    <2>3. Release(fl, r.base, r.len) = fl
      BY <1>1, Zenon DEF Release
    <2> QED BY <2>2, <2>3, ZenonT(30)
  <1>2. CASE r.len # 0
    <2>1. r \in Ranges
      BY <1>2, ZenonT(30) DEF Ranges, Extent
    <2> QED BY <2>1, ReleaseReturns, ZenonT(30)
  <1> QED BY <1>1, <1>2, ZenonT(30)

LEMMA FunctionSeq ==
  ASSUME NEW S, NEW n \in Nat, NEW f \in [1 .. n -> S]
  PROVE  f \in Seq(S) /\ Range(f) = {f[i] : i \in 1 .. n}
  BY IsASeq DEF Range

LEMMA OneByOneProperties ==
  ASSUME NEW S \in SUBSET Addrs
  PROVE  OneByOne(S) \in Seq(S) /\ DOMAIN OneByOne(S) = 1 .. Cardinality(S)
         /\ Cardinality(S) \in Nat /\ Range(OneByOne(S)) = S
  <1> DEFINE n == Cardinality(S)
             s == OneByOne(S)
  <1>1. IsFiniteSet(S)
    BY MapsAssumption, FS_Subset, ZenonT(30)
  <1>2. n \in Nat /\ Bijection(1 .. n, S) # {}
    BY <1>1, FS_CardinalityType, ZenonT(30) DEF ExistsBijection
  <1> HIDE DEF n
  <1>3. s \in Bijection(1 .. n, S)
    BY <1>2, ZenonT(30) DEF OneByOne, n
  <1> HIDE DEF s
  <1>4. s \in [1 .. n -> S] /\ \A x \in S : \E i \in 1 .. n : s[i] = x
    BY <1>3, ZenonT(30) DEF Bijection, Surjection
  <1>5. s \in Seq(S) /\ Range(s) = {s[i] : i \in 1 .. n}
    BY <1>2, <1>4, FunctionSeq
  <1>6. DOMAIN s = 1 .. n
    BY <1>4, Zenon
  <1>7. Range(s) = S
    BY <1>4, <1>5, ZenonT(30)
  <1> QED BY <1>2, <1>5, <1>6, <1>7, Zenon DEF n, s

LEMMA SlotOpType ==
  ASSUME NEW t \in Tables, NEW x \in Nat, NEW rules \in SUBSET Rule
  PROVE  SlotOp(t, x, rules) \in MapOp
  BY Zenon DEF SlotOp, MapOp

LEMMA NetOpType ==
  ASSUME NEW a \in Addrs, NEW ports \in SUBSET Ports
  PROVE  NetOp(a, ports) \in MapOp
  <1>1. a \in Nat \cup Addrs /\ ports \in (SUBSET Rule) \cup (SUBSET Ports)
        /\ "net" \in Tables \cup {"net"}
    BY Zenon
  <1> QED BY <1>1, Zenon DEF NetOp, MapOp

\* The map operations of an update.
LEMMA WritesAre ==
  ASSUME NEW p \in Plan, NEW range \in Extents
  PROVE  /\ Writes(p, range) \in Seq(MapOp)
         /\ \A o : o \in Range(Writes(p, range)) <=>
              \/ \E t \in Tables : \E i \in 1 .. Len(p[t]) :
                   o = SlotOp(t, range[t].base + i - 1, {p[t][i]})
              \/ \E a \in Keys(p) : o = NetOp(a, p.net[a])
  <1> DEFINE rules(t) == [i \in 1 .. Count(p, t) |-> SlotOp(t, range[t].base + i - 1, {p[t][i]})]
             keys == OneByOne(Keys(p))
             n == Cardinality(Keys(p))
             nets == [i \in DOMAIN keys |-> NetOp(keys[i], p.net[keys[i]])]
  <1>1. ASSUME NEW t \in Tables
        PROVE  /\ rules(t) \in Seq(MapOp)
               /\ Range(rules(t)) = {SlotOp(t, range[t].base + i - 1, {p[t][i]}) : i \in 1 .. Len(p[t])}
    <2>1. Len(p[t]) \in Nat /\ \A i \in 1 .. Len(p[t]) : p[t][i] \in Rule
      BY PlanType, ZenonT(30)
    <2>2. \A i \in 1 .. Len(p[t]) : range[t].base + i - 1 \in Nat
      BY <2>1, ExtentType
    <2>3. rules(t) \in [1 .. Len(p[t]) -> MapOp]
      BY <2>1, <2>2, SlotOpType, ZenonT(30) DEF Count
    <2>4. \A i \in 1 .. Len(p[t]) : rules(t)[i] = SlotOp(t, range[t].base + i - 1, {p[t][i]})
      BY Zenon DEF Count
    <2> HIDE DEF rules
    <2>5. rules(t) \in Seq(MapOp) /\ Range(rules(t)) = {rules(t)[i] : i \in 1 .. Len(p[t])}
      BY <2>1, <2>3, FunctionSeq, Zenon
    <2> QED BY <2>4, <2>5, Zenon
  <1>2. nets \in Seq(MapOp) /\ Range(nets) = {NetOp(a, p.net[a]) : a \in Keys(p)}
    <2>1. Keys(p) \in SUBSET Addrs /\ p.net \in [Addrs -> SUBSET Ports]
      BY PlanType, Zenon
    <2>2. keys \in Seq(Keys(p)) /\ DOMAIN keys = 1 .. n /\ n \in Nat /\ Range(keys) = Keys(p)
      BY <2>1, OneByOneProperties, ZenonT(30)
    <2> HIDE DEF keys, n
    <2>3. Range(keys) = {keys[i] : i \in 1 .. n}
      BY <2>2, ZenonT(30) DEF Range
    <2>4. \A i \in 1 .. n : keys[i] \in Addrs /\ p.net[keys[i]] \in SUBSET Ports
      BY <2>1, <2>2, <2>3, ZenonT(30)
    <2>5. nets \in [1 .. n -> MapOp]
      BY <2>2, <2>4, NetOpType, ZenonT(30)
    <2>6. \A i \in 1 .. n : nets[i] = NetOp(keys[i], p.net[keys[i]])
      BY <2>2, ZenonT(30)
    <2> HIDE DEF nets
    <2>7. nets \in Seq(MapOp) /\ Range(nets) = {nets[i] : i \in 1 .. n}
      BY <2>2, <2>5, FunctionSeq, Zenon
    <2>8. ASSUME NEW o PROVE o \in Range(nets) <=> \E a \in Keys(p) : o = NetOp(a, p.net[a])
      <3>1. o \in Range(nets) <=> \E i \in 1 .. n : o = NetOp(keys[i], p.net[keys[i]])
        BY <2>6, <2>7, ZenonT(30)
      <3>2. \A a : a \in Keys(p) <=> \E i \in 1 .. n : a = keys[i]
        BY <2>2, <2>3, ZenonT(30)
      <3> QED BY <3>1, <3>2, Zenon
    <2> QED BY <2>7, <2>8, Zenon
  <1>3. Writes(p, range) = rules("fs") \o rules("exec") \o nets
    BY Zenon DEF Writes
  <1>4. "fs" \in Tables /\ "exec" \in Tables /\ \A t \in Tables : t = "fs" \/ t = "exec"
    BY Zenon DEF Tables
  <1> HIDE DEF rules, nets
  <1> DEFINE both == rules("fs") \o rules("exec")
  <1>5. both \in Seq(MapOp) /\ Range(both) = Range(rules("fs")) \cup Range(rules("exec"))
    BY <1>1, <1>4, ConcatProperties, RangeConcatenation
  <1> HIDE DEF both
  <1>6. both \o nets \in Seq(MapOp) /\ Range(both \o nets) = Range(both) \cup Range(nets)
    BY <1>2, <1>5, ConcatProperties, RangeConcatenation, SMTT(20)
  <1>7. Writes(p, range) = both \o nets
    BY <1>3, ZenonT(30) DEF both
  <1>8. ASSUME NEW o
        PROVE  o \in Range(Writes(p, range)) <=>
                 \/ \E t \in Tables : o \in Range(rules(t))
                 \/ o \in Range(nets)
    BY <1>4, <1>5, <1>6, <1>7, Zenon
  <1>9. ASSUME NEW o, NEW t \in Tables
        PROVE  o \in Range(rules(t)) <=> \E i \in 1 .. Len(p[t]) :
                                          o = SlotOp(t, range[t].base + i - 1, {p[t][i]})
    BY <1>1, Zenon
  <1>10. ASSUME NEW o PROVE o \in Range(nets) <=> \E a \in Keys(p) : o = NetOp(a, p.net[a])
    BY <1>2, Zenon
  <1> QED BY <1>6, <1>7, <1>8, <1>9, <1>10, Zenon

LEMMA DeletesAre ==
  ASSUME NEW keys \in SUBSET Addrs, NEW range \in Extents
  PROVE  /\ Deletes(range, keys) \in Seq(MapOp)
         /\ \A o : o \in Range(Deletes(range, keys)) <=>
              \/ \E t \in Tables : \E x \in Indices(range[t]) : o = SlotOp(t, x, {})
              \/ \E a \in keys : o = NetOp(a, {})
  <1> DEFINE rules(t) == [i \in 1 .. range[t].len |-> SlotOp(t, range[t].base + i - 1, {})]
             gone == OneByOne(keys)
             n == Cardinality(keys)
             nets == [i \in DOMAIN gone |-> NetOp(gone[i], {})]
  <1>1. ASSUME NEW t \in Tables
        PROVE  /\ rules(t) \in Seq(MapOp)
               /\ \A o : o \in Range(rules(t)) <=> \E x \in Indices(range[t]) : o = SlotOp(t, x, {})
    <2> DEFINE m == range[t].len
               b == range[t].base
    <2>1. m \in Nat /\ b \in Nat
      BY ExtentType, ZenonT(30)
    <2>2. \A i \in 1 .. m : SlotOp(t, b + i - 1, {}) \in MapOp
      BY <2>1, SlotOpType
    <2>3. rules(t) \in [1 .. m -> MapOp] /\ \A i \in 1 .. m : rules(t)[i] = SlotOp(t, b + i - 1, {})
      BY <2>2, ZenonT(30)
    <2>4. Indices(range[t]) = b .. (b + m - 1)
      BY Zenon DEF Indices
    <2> HIDE DEF rules, m, b
    <2>5. rules(t) \in Seq(MapOp) /\ Range(rules(t)) = {rules(t)[i] : i \in 1 .. m}
      <3>1. m \in Nat
        BY <2>1, ZenonT(30)
      <3>2. rules(t) \in [1 .. m -> MapOp]
        BY <2>3, ZenonT(30)
      <3> QED BY <3>1, <3>2, FunctionSeq, ZenonT(30)
    <2>6. \A x : x \in b .. (b + m - 1) <=> \E i \in 1 .. m : x = b + i - 1
      <3>1. ASSUME NEW x \in b .. (b + m - 1) PROVE \E i \in 1 .. m : x = b + i - 1
        <4>1. x - b + 1 \in 1 .. m /\ x = b + (x - b + 1) - 1
          BY <2>1
        <4> QED BY <4>1, ZenonT(30)
      <3>2. ASSUME NEW i \in 1 .. m PROVE b + i - 1 \in b .. (b + m - 1)
        BY <2>1
      <3> QED BY <3>1, <3>2, ZenonT(30)
    <2>7. ASSUME NEW o PROVE o \in Range(rules(t)) <=> \E i \in 1 .. m : o = SlotOp(t, b + i - 1, {})
      BY <2>3, <2>5, ZenonT(30)
    <2> QED BY <2>4, <2>5, <2>6, <2>7, Zenon
  <1>2. nets \in Seq(MapOp) /\ \A o : o \in Range(nets) <=> \E a \in keys : o = NetOp(a, {})
    <2>1. gone \in Seq(keys) /\ DOMAIN gone = 1 .. n /\ n \in Nat /\ Range(gone) = keys
      BY OneByOneProperties, ZenonT(30)
    <2> HIDE DEF gone, n
    <2>2. Range(gone) = {gone[i] : i \in 1 .. n}
      BY <2>1, ZenonT(30) DEF Range
    <2>3. nets \in [1 .. n -> MapOp] /\ \A i \in 1 .. n : nets[i] = NetOp(gone[i], {})
      BY <2>1, <2>2, NetOpType, ZenonT(30)
    <2> HIDE DEF nets
    <2>4. nets \in Seq(MapOp) /\ Range(nets) = {nets[i] : i \in 1 .. n}
      <3>1. n \in Nat
        BY <2>1, ZenonT(30)
      <3>2. nets \in [1 .. n -> MapOp]
        BY <2>3, ZenonT(30)
      <3> QED BY <3>1, <3>2, FunctionSeq, ZenonT(30)
    <2>5. ASSUME NEW o PROVE o \in Range(nets) <=> \E a \in keys : o = NetOp(a, {})
      <3>1. o \in Range(nets) <=> \E i \in 1 .. n : o = NetOp(gone[i], {})
        BY <2>3, <2>4, Zenon
      <3>2. \A a : a \in keys <=> \E i \in 1 .. n : a = gone[i]
        BY <2>1, <2>2, Zenon
      <3> QED BY <3>1, <3>2, Zenon
    <2> QED BY <2>4, <2>5, ZenonT(30)
  <1>3. Deletes(range, keys) = rules("fs") \o rules("exec") \o nets
    BY Zenon DEF Deletes
  <1>4. "fs" \in Tables /\ "exec" \in Tables /\ \A t \in Tables : t = "fs" \/ t = "exec"
    BY Zenon DEF Tables
  <1> HIDE DEF rules, nets
  <1> DEFINE both == rules("fs") \o rules("exec")
  <1>5. both \in Seq(MapOp) /\ Range(both) = Range(rules("fs")) \cup Range(rules("exec"))
    BY <1>1, <1>4, ConcatProperties, RangeConcatenation
  <1> HIDE DEF both
  <1>6. both \o nets \in Seq(MapOp) /\ Range(both \o nets) = Range(both) \cup Range(nets)
    BY <1>2, <1>5, ConcatProperties, RangeConcatenation, SMTT(20)
  <1>7. Deletes(range, keys) = both \o nets
    BY <1>3, Zenon DEF both
  <1>8. ASSUME NEW o
        PROVE  o \in Range(Deletes(range, keys)) <=>
                 \/ \E t \in Tables : o \in Range(rules(t))
                 \/ o \in Range(nets)
    BY <1>4, <1>5, <1>6, <1>7, ZenonT(30)
  <1> QED BY <1>1, <1>2, <1>6, <1>7, <1>8, ZenonT(30)

\* The first rule that names the object decides.
LEMMA DecidesFirst ==
  ASSUME NEW p \in Plan, NEW t \in Tables, NEW obj, NEW access, NEW k, FirstNaming(p, t, k, obj)
  PROVE  Decides(p, t, obj, access) = RuleVerdict(t, p[t][k], obj, access)
  <1> DEFINE naming == {i \in DOMAIN p[t] : p[t][i].obj = obj}
  <1>0. k \in 1 .. Len(p[t]) /\ p[t][k].obj = obj /\ \A j \in 1 .. k - 1 : p[t][j].obj # obj
    BY ZenonT(30) DEF FirstNaming
  <1>1. p[t] \in Seq(Rule) /\ Len(p[t]) \in Nat /\ DOMAIN p[t] = 1 .. Len(p[t])
    BY PlanType, LenProperties, ZenonT(30)
  <1>2. k \in naming /\ naming \in SUBSET Nat
    BY <1>0, <1>1
  <1>3. Min(naming) \in naming /\ Min(naming) <= k
    BY <1>2, MinIn, Zenon
  <1>4. Min(naming) \in 1 .. Len(p[t]) /\ p[t][Min(naming)].obj = obj
    BY <1>1, <1>3, ZenonT(30)
  <1>5. naming # {} /\ Decides(p, t, obj, access) = RuleVerdict(t, p[t][Min(naming)], obj, access)
    BY <1>2, ZenonT(30) DEF Decides
  <1> DEFINE m == Min(naming)
  <1>6. m \in 1 .. Len(p[t]) /\ p[t][m].obj = obj /\ m <= k /\ k \in 1 .. Len(p[t])
    BY <1>0, <1>3, <1>4, ZenonT(30)
  <1>7. Decides(p, t, obj, access) = RuleVerdict(t, p[t][m], obj, access)
    BY <1>5, ZenonT(30)
  <1> HIDE DEF m, naming
  <1>8. m \notin 1 .. k - 1
    BY <1>0, <1>6, ZenonT(30)
  <1>9. m = k
    BY <1>1, <1>6, <1>8, SMTT(20)
  <1> QED BY <1>7, <1>9, ZenonT(30)

LEMMA DecidesDefault ==
  ASSUME NEW p \in Plan, NEW t \in Tables, NEW obj, NEW access,
         \A j \in 1 .. Len(p[t]) : p[t][j].obj # obj
  PROVE  Decides(p, t, obj, access) = Default(t)
  <1>1. DOMAIN p[t] = 1 .. Len(p[t])
    BY PlanType, LenProperties, ZenonT(30)
  <1>2. {i \in DOMAIN p[t] : p[t][i].obj = obj} = {}
    BY <1>1, ZenonT(30)
  <1> QED BY <1>2, ZenonT(30) DEF Decides

\* An exec rule for the file, wherever it is in the policy, allows it.
LEMMA DecidesExec ==
  ASSUME NEW p \in Plan, NEW obj, NEW access, NEW k \in 1 .. Len(p["exec"]), p["exec"][k].obj = obj
  PROVE  Decides(p, "exec", obj, access) = "allow"
  <1> DEFINE naming == {i \in DOMAIN p["exec"] : p["exec"][i].obj = obj}
  <1>1. p["exec"] \in Seq(Rule) /\ Len(p["exec"]) \in Nat
    BY PlanType, ZenonT(30) DEF Tables
  <1>2. DOMAIN p["exec"] = 1 .. Len(p["exec"])
    BY <1>1, LenProperties, ZenonT(30)
  <1>3. k \in naming /\ naming \in SUBSET Nat
    BY <1>1, <1>2
  <1>4. Min(naming) \in naming
    BY <1>3, MinIn, Zenon
  <1>5. p["exec"][Min(naming)].obj = obj
    BY <1>4, ZenonT(30)
  <1>6. Decides(p, "exec", obj, access) = RuleVerdict("exec", p["exec"][Min(naming)], obj, access)
    BY <1>3, ZenonT(30) DEF Decides
  <1> HIDE DEF naming
  <1> QED BY <1>5, <1>6, ZenonT(30) DEF RuleVerdict

LEMMA Relied == AllocSound /\ ReleaseSound /\ WritesSound /\ DeletesSound /\ DecidesSound
  <1>1. AllocSound
    BY AllocAny, ZenonT(30) DEF AllocSound
  <1>2. ReleaseSound
    BY ReleaseAny, ZenonT(30) DEF ReleaseSound
  <1>3. WritesSound
    BY WritesAre, Zenon DEF WritesSound
  <1>4. DeletesSound
    BY DeletesAre, Zenon DEF DeletesSound
  <1>5. FirstSound
    BY DecidesFirst, ZenonT(30) DEF FirstSound
  <1>6. DefaultSound
    BY DecidesDefault, ZenonT(30) DEF DefaultSound
  <1>7. AllowSound
    BY DecidesExec, ZenonT(30) DEF AllowSound
  <1> QED BY <1>1, <1>2, <1>3, <1>4, <1>5, <1>6, <1>7, Zenon DEF DecidesSound

-----------------------------------------------------------------------------
(* The invariant of PolicyMaps and its consequences *)

LEMMA InitType ==
  ASSUME Init
  PROVE  TypeInv
  <1>1. DOMAIN alloc = Tables /\ \A t \in Tables : Tidy(alloc[t])
    <2>1. alloc = [t \in Tables |-> NewAllocator(MaxEntries)]
      BY ZenonT(30) DEF Init
    <2> DEFINE r == RuleRange(0, MaxEntries)
               fl == <<r>>
    <2>2. r \in Ranges
      BY MapsAssumption, RangeType
    <2> HIDE DEF r
    <2>3. fl \in Seq(Ranges) /\ Len(fl) = 1
      BY <2>2
    <2>4. \A i, j \in 1 .. Len(fl) : ~(i < j)
      BY <2>3
    <2>5. Tidy(fl)
      BY <2>3, <2>4, ZenonT(30) DEF Tidy
    <2>6. NewAllocator(MaxEntries) = fl
      BY Zenon DEF NewAllocator, r
    <2> QED BY <2>1, <2>5, <2>6, ZenonT(30)
  <1>2. book \in [Cgids -> [in : BOOLEAN, range : Extents, keys : SUBSET Addrs]]
    <2>1. [in |-> FALSE, range |-> NoRange, keys |-> {}]
            \in [in : BOOLEAN, range : Extents, keys : SUBSET Addrs]
      BY NoRangeType, ZenonT(30)
    <2> QED BY <2>1, ZenonT(30) DEF Init
  <1>3. ctx \in [Cgids -> [present : BOOLEAN, enforcing : BOOLEAN, range : Extents]]
    <2>1. [present |-> FALSE, enforcing |-> FALSE, range |-> NoRange]
            \in [present : BOOLEAN, enforcing : BOOLEAN, range : Extents]
      BY NoRangeType, ZenonT(30)
    <2> QED BY <2>1, ZenonT(30) DEF Init
  <1>4. slots \in [Tables -> [Slots -> SUBSET Rule]] /\ net \in [Cgids -> [Addrs -> SUBSET Ports]]
    BY Zenon DEF Init
  <1>5. inForce \in [Cgids -> Plan]
    BY DenyAllType, ZenonT(30) DEF Init
  <1>6. failed \in Seq(Faults)
    BY DEF Init
  <1>7. op = Idle /\ hook = [on |-> FALSE]
    BY Zenon DEF Init
  <1> QED BY <1>1, <1>2, <1>3, <1>4, <1>5, <1>6, <1>7, Zenon DEF TypeInv

LEMMA InitRange ==
  ASSUME Init
  PROVE  RangeInv
  <1>1. MaxEntries \in Nat /\ op = Idle /\ \A c \in Cgids : ~book[c].in
    BY MapsAssumption, ZenonT(30) DEF Init
  <1>2. ASSUME NEW t \in Tables PROVE Free(t) = Slots
    <2> DEFINE r == RuleRange(0, MaxEntries)
               fl == <<r>>
    <2>1. alloc[t] = fl
      BY Zenon DEF Init, NewAllocator
    <2>2. FreeIndices(fl) = Indices(r)
      BY DEF FreeIndices
    <2>3. Indices(r) = 0 .. (MaxEntries - 1)
      BY <1>1 DEF Indices, RuleRange
    <2> QED BY <2>1, <2>2, <2>3, ZenonT(30) DEF Free, Slots
  <1>3. \A t \in Tables : OpIdx(t) = {}
    BY <1>1, Zenon DEF OpIdx
  <1> QED BY <1>1, <1>2, <1>3, ZenonT(30) DEF RangeInv

LEMMA InitIInv ==
  ASSUME Init
  PROVE  IInv
  <1>1. \A c \in Cgids : ~book[c].in
    BY Zenon DEF Init
  <1>2. op = Idle /\ hook = [on |-> FALSE] /\ failed = <<>>
    BY Zenon DEF Init
  <1>3. RuleInv
    BY <1>1, ZenonT(30) DEF RuleInv
  <1>4. OpInv
    BY <1>2, ZenonT(30) DEF OpInv, Idle
  <1>5. NetInv
    <2>1. \A c \in Cgids : Settled(c)
      BY <1>1, ZenonT(30) DEF Settled, Init
    <2> QED BY <1>1, <1>2, <2>1, ZenonT(30) DEF NetInv, Keyed, Idle
  <1>6. HookInv
    BY <1>2, ZenonT(30) DEF HookInv
  <1> QED BY <1>3, <1>4, <1>5, <1>6, InitType, InitRange, ZenonT(30) DEF IInv

LEMMA MapsInvariant == Spec => []IInv
  <1>1. Init => IInv
    BY InitIInv, ZenonT(30)
  <1>2. IInv /\ [Next]_vars => IInv'
    BY Relied, StepIInv, ZenonT(30)
  <1> QED BY <1>1, <1>2, PTL DEF Spec

\* The context of a registered sandbox points at exactly the rules of its last
\* completed update_policy, through every interleaving of updates, failures and
\* take-downs, for any number of sandboxes and any size of the rule maps.
THEOREM RulesIntact == Spec => []InstalledRulesIntact
  <1>1. IInv => InstalledRulesIntact
    <2>1. SUFFICES ASSUME IInv, NEW c \in Cgids, NEW t \in Tables, book[c].in
                   PROVE  LET r == ctx[c].range[t] IN
                          /\ r.len = Len(inForce[c][t])
                          /\ \A i \in 1 .. r.len : slots[t][r.base + i - 1] = {inForce[c][t][i]}
      BY ZenonT(30) DEF InstalledRulesIntact
    <2>2. Installed(c)
      BY <2>1, Zenon DEF IInv, RuleInv
    <2>3. ctx[c].range = book[c].range /\ Stored(t, book[c].range[t], inForce[c][t])
      BY <2>2, ZenonT(30) DEF Installed
    <2>4. Stored(t, ctx[c].range[t], inForce[c][t])
      BY <2>3, ZenonT(30)
    <2> QED BY <2>4, ZenonT(30) DEF Stored
  <1> QED BY <1>1, MapsInvariant, PTL

\* No index of a rule map is held by two sandboxes, or held and free, and none
\* is lost unless the swap of a context fails.
THEOREM MapsConserved == Spec => []RangesConserved
  <1>1. ASSUME IInv PROVE RangesConserved
    <2>0. RangeInv
      BY <1>1, ZenonT(30) DEF IInv
    <2>1. ASSUME NEW h \in Holders, NEW t \in Tables
          PROVE  \/ h \in Cgids /\ book[h].in /\ h # "op" /\ Held(h, t) = BookIdx(h, t)
                 \/ h = "op" /\ Held(h, t) = OpIdx(t)
      BY MapsAssumption, ZenonT(30) DEF Holders, Held, BookIdx, OpIdx
    <2>2. ASSUME NEW t \in Tables, NEW h \in Holders
          PROVE  /\ Held(h, t) \cap FreeIndices(alloc[t]) = {}
                 /\ \A k \in Holders \ {h} : Held(h, t) \cap Held(k, t) = {}
      <3>1. FreeIndices(alloc[t]) = Free(t)
        BY Zenon DEF Free
      <3>2. Held(h, t) \cap Free(t) = {}
        <4>1. CASE h = "op" /\ Held(h, t) = OpIdx(t)
          BY <2>0, <4>1, ZenonT(30) DEF RangeInv
        <4>2. CASE h \in Cgids /\ book[h].in /\ h # "op" /\ Held(h, t) = BookIdx(h, t)
          BY <2>0, <4>2, ZenonT(30) DEF RangeInv
        <4> QED BY <2>1, <4>1, <4>2, ZenonT(30)
      <3>3. ASSUME NEW k \in Holders \ {h} PROVE Held(h, t) \cap Held(k, t) = {}
        <4>1. h # k /\ k \in Holders
          BY Zenon
        <4>2. CASE h = "op"
          <5>1. Held(h, t) = OpIdx(t)
            BY <2>1, <4>2, Zenon
          <5>2. k \in Cgids /\ book[k].in /\ Held(k, t) = BookIdx(k, t)
            BY <2>1, <4>1, <4>2, ZenonT(30)
          <5> QED BY <2>0, <5>1, <5>2, SMTT(20) DEF RangeInv
        <4>3. CASE h # "op"
          <5>1. h \in Cgids /\ book[h].in /\ Held(h, t) = BookIdx(h, t)
            BY <2>1, <4>3, ZenonT(30)
          <5>2. CASE k = "op"
            <6>1. Held(k, t) = OpIdx(t)
              BY <2>1, <4>1, <5>2, ZenonT(30)
            <6> QED BY <2>0, <5>1, <6>1, ZenonT(30) DEF RangeInv
          <5>3. CASE k # "op"
            <6>1. k \in Cgids /\ book[k].in /\ Held(k, t) = BookIdx(k, t)
              BY <2>1, <4>1, <5>3, ZenonT(30)
            <6> QED BY <2>0, <4>1, <5>1, <6>1, ZenonT(30) DEF RangeInv
          <5> QED BY <5>2, <5>3, ZenonT(30)
        <4> QED BY <4>2, <4>3, ZenonT(30)
      <3> QED BY <3>1, <3>2, <3>3, ZenonT(30)
    <2>3. ASSUME op = Idle, "swap" \notin Range(failed), NEW t \in Tables
          PROVE  FreeIndices(alloc[t]) \cup UNION {Held(h, t) : h \in Holders} = Slots
      <3>1. OpIdx(t) = {}
        BY <2>3, Zenon DEF OpIdx
      <3>2. Free(t) \subseteq Slots /\ \A h \in Holders : Held(h, t) \subseteq Slots
        <4>1. Free(t) \subseteq Slots /\ \A c \in Cgids : book[c].in => BookIdx(c, t) \subseteq Slots
          BY <2>0, ZenonT(30) DEF RangeInv
        <4> QED BY <2>1, <3>1, <4>1, ZenonT(30)
      <3>3. ASSUME NEW x \in Slots PROVE x \in Free(t) \/ \E h \in Holders : x \in Held(h, t)
        <4>1. x \in Free(t) \/ \E c \in Cgids : book[c].in /\ x \in BookIdx(c, t)
          BY <2>0, <2>3, <3>1, ZenonT(30) DEF RangeInv
        <4>2. \A c \in Cgids : book[c].in => c \in Holders /\ Held(c, t) = BookIdx(c, t)
          BY <2>1, MapsAssumption, ZenonT(30) DEF Holders
        <4> QED BY <4>1, <4>2, ZenonT(30)
      <3> QED BY <3>2, <3>3, ZenonT(30) DEF Free
    <2> QED BY <2>2, <2>3, ZenonT(30) DEF RangesConserved, AllAccountedFor
  <1>2. IInv => RangesConserved
    BY <1>1, ZenonT(30)
  <1> QED BY <1>2, MapsInvariant, PTL

\* Between operations none of which has failed, a sandbox can reach exactly the
\* destinations of its policy, although update_policy rewrites net rules in place.
THEOREM NetFollows == Spec => []NetFollowsPolicy
  <1>1. ASSUME IInv, op = Idle, failed = <<>>, NEW c \in Cgids, book[c].in
        PROVE  net[c] = inForce[c].net
    <2>1. \A a \in Addrs : net[c][a] = inForce[c].net[a]
      BY <1>1, Zenon DEF IInv, NetInv, Settled
    <2>2. net[c] \in [Addrs -> SUBSET Ports] /\ inForce[c].net \in [Addrs -> SUBSET Ports]
      BY <1>1, SandboxTypes, PlanType, ZenonT(30) DEF IInv
    <2> QED BY <2>1, <2>2
  <1>2. IInv => NetFollowsPolicy
    BY <1>1, ZenonT(30) DEF NetFollowsPolicy
  <1> QED BY <1>2, MapsInvariant, PTL

\* A hook invocation whose sandbox is not updated while it runs decides as the
\* first rule of the whole policy does, whatever other sandboxes' updates do.
THEOREM QuietDecides == Spec => []QuietDecisionExact
  <1>1. IInv => QuietDecisionExact
    BY ZenonT(30) DEF IInv, HookInv, HookQuiet, QuietDecisionExact
  <1> QED BY <1>1, MapsInvariant, PTL

\* An execve that is being checked while its sandbox's policy is replaced is
\* allowed only if the old or the new policy allows it, as long as no second
\* update begins before the hook returns.
THEOREM ExecKept == Spec => []ExecNeverLooser
  <1>1. IInv => ExecNeverLooser
    BY Zenon DEF IInv, HookInv, HookFresh, ExecNeverLooser, InflightExecNeverLooser
  <1> QED BY <1>1, MapsInvariant, PTL
=============================================================================
