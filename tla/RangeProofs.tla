----------------------------- MODULE RangeProofs -----------------------------
(***************************************************************************)
(* The allocator of rule indices implements IndexPool, and IndexPool keeps *)
(* its promise, for every size of map and of request.                      *)
(***************************************************************************)
EXTENDS RuleAllocator, SequenceTheorems, WellFoundedInduction, TLAPS

-----------------------------------------------------------------------------
(* Least elements, and sequences with an element less or more *)

LEMMA MinIn ==
  ASSUME NEW S \in SUBSET Nat, S # {}
  PROVE  Min(S) \in S /\ \A y \in S : Min(S) <= y
  <1> DEFINE R == OpToRel(<, Nat)
  <1>1. \A x, y \in Nat : y < x => <<y, x>> \in R
    BY Zenon DEF OpToRel
  <1>2. IsWellFoundedOn(R, Nat)
    BY NatLessThanWellFounded, Zenon
  <1> HIDE DEF R
  <1>3. PICK x \in S : \A y \in S : ~(<<y, x>> \in R)
    BY <1>2, WFMin, Zenon
  <1>4. ASSUME NEW y \in S PROVE x =< y
    <2>1. x \in Nat /\ y \in Nat
      BY Zenon
    <2>2. ~(y < x)
      BY <1>1, <1>3, <2>1, Zenon
    <2> QED BY <2>1, <2>2
  <1> QED BY <1>4, Zenon DEF Min

LEMMA Through ==
  \A a, b, c, e \in Nat : a < b /\ b + c <= e => a < e /\ a <= e
  OBVIOUS

LEMMA CutProperties ==
  ASSUME NEW S, NEW s \in Seq(S), NEW pos \in 1 .. Len(s)
  PROVE  LET u == SubSeq(s, 1, pos - 1) \o SubSeq(s, pos + 1, Len(s)) IN
         /\ u \in Seq(S) /\ Len(u) = Len(s) - 1
         /\ \A i \in 1 .. pos - 1 : u[i] = s[i]
         /\ \A i \in pos .. Len(s) - 1 : u[i] = s[i + 1]
  <1> DEFINE n == Len(s)
             a == SubSeq(s, 1, pos - 1)
             b == SubSeq(s, pos + 1, n)
             u == a \o b
  <1>n. n \in Nat /\ pos \in Nat /\ pos >= 1 /\ pos <= n /\ \A i \in 1 .. n : s[i] \in S
    BY LenProperties, ElementOfSeq
  <1>1. /\ a \in Seq(S) /\ Len(a) = pos - 1
        /\ \A i \in 1 .. pos - 1 : a[i] = s[i]
    <2>1. 1 \in Int /\ pos - 1 \in Int /\ \A i \in 1 .. pos - 1 : s[i] \in S
      BY <1>n
    <2> HIDE DEF n
    <2>2. /\ a \in Seq(S) /\ Len(a) = (IF 1 <= pos - 1 THEN pos - 1 - 1 + 1 ELSE 0)
          /\ \A i \in 1 .. pos - 1 - 1 + 1 : a[i] = s[1 + i - 1]
      BY <2>1, SubSeqProperties
    <2> HIDE DEF a
    <2> QED BY <1>n, <2>2
  <1>2. /\ b \in Seq(S) /\ Len(b) = n - pos
        /\ \A i \in 1 .. n - pos : b[i] = s[pos + i]
    <2>1. pos + 1 \in Int /\ n \in Int /\ \A i \in pos + 1 .. n : s[i] \in S
      BY <1>n
    <2> HIDE DEF n
    <2>2. /\ b \in Seq(S) /\ Len(b) = (IF pos + 1 <= n THEN n - (pos + 1) + 1 ELSE 0)
          /\ \A i \in 1 .. n - (pos + 1) + 1 : b[i] = s[(pos + 1) + i - 1]
      BY <2>1, SubSeqProperties
    <2> HIDE DEF b
    <2> QED BY <1>n, <2>2
  <1> HIDE DEF a, b
  <1>3. /\ u \in Seq(S) /\ Len(u) = (pos - 1) + (n - pos)
        /\ \A i \in 1 .. (pos - 1) + (n - pos) : u[i] = IF i <= pos - 1 THEN a[i] ELSE b[i - (pos - 1)]
    <2>1. /\ u \in Seq(S) /\ Len(u) = Len(a) + Len(b)
          /\ \A i \in 1 .. Len(a) + Len(b) : u[i] = IF i <= Len(a) THEN a[i] ELSE b[i - Len(a)]
      BY <1>1, <1>2, ConcatProperties, Zenon
    <2> HIDE DEF u, n
    <2> QED BY <1>1, <1>2, <2>1, Zenon
  <1> HIDE DEF n, u
  <1>4. \A i \in 1 .. pos - 1 : u[i] = s[i]
    BY <1>n, <1>1, <1>3
  <1>5. ASSUME NEW i \in pos .. n - 1 PROVE u[i] = s[i + 1]
    <2>1. i \in 1 .. (pos - 1) + (n - pos) /\ ~(i <= pos - 1) /\ i - (pos - 1) \in 1 .. n - pos
          /\ pos + (i - (pos - 1)) = i + 1
      BY <1>n
    <2> QED BY <1>2, <1>3, <2>1, Zenon
  <1>6. Len(u) = n - 1
    BY <1>n, <1>3
  <1> QED BY <1>3, <1>4, <1>5, <1>6, Zenon DEF u, n, a, b

Splice(s, pos, r) == Append(SubSeq(s, 1, pos - 1), r) \o SubSeq(s, pos, Len(s))

LEMMA SpliceProperties ==
  ASSUME NEW S, NEW s \in Seq(S), NEW r \in S, NEW pos \in 1 .. Len(s) + 1
  PROVE  LET u == Splice(s, pos, r) IN
         /\ u \in Seq(S) /\ Len(u) = Len(s) + 1
         /\ \A i \in 1 .. pos - 1 : u[i] = s[i]
         /\ u[pos] = r
         /\ \A i \in pos .. Len(s) : u[i + 1] = s[i]
  <1> DEFINE n == Len(s)
             a == SubSeq(s, 1, pos - 1)
             b == SubSeq(s, pos, n)
             v == Append(a, r)
             u == v \o b
  <1>n. n \in Nat /\ pos \in Nat /\ pos >= 1 /\ pos <= n + 1 /\ \A i \in 1 .. n : s[i] \in S
    BY LenProperties, ElementOfSeq
  <1>1. /\ a \in Seq(S) /\ Len(a) = pos - 1
        /\ \A i \in 1 .. pos - 1 : a[i] = s[i]
    <2>1. 1 \in Int /\ pos - 1 \in Int /\ \A i \in 1 .. pos - 1 : s[i] \in S
      BY <1>n
    <2> HIDE DEF n
    <2>2. /\ a \in Seq(S) /\ Len(a) = (IF 1 <= pos - 1 THEN pos - 1 - 1 + 1 ELSE 0)
          /\ \A i \in 1 .. pos - 1 - 1 + 1 : a[i] = s[1 + i - 1]
      BY <2>1, SubSeqProperties
    <2> HIDE DEF a
    <2> QED BY <1>n, <2>2
  <1>2. /\ b \in Seq(S) /\ Len(b) = n + 1 - pos
        /\ \A i \in 1 .. n + 1 - pos : b[i] = s[pos + i - 1]
    <2>1. pos \in Int /\ n \in Int /\ \A i \in pos .. n : s[i] \in S
      BY <1>n
    <2> HIDE DEF n
    <2>2. /\ b \in Seq(S) /\ Len(b) = (IF pos <= n THEN n - pos + 1 ELSE 0)
          /\ \A i \in 1 .. n - pos + 1 : b[i] = s[pos + i - 1]
      BY <2>1, SubSeqProperties
    <2> HIDE DEF b
    <2> QED BY <1>n, <2>2
  <1> HIDE DEF a, b
  <1>3. /\ v \in Seq(S) /\ Len(v) = pos
        /\ \A i \in 1 .. pos - 1 : v[i] = s[i]
        /\ v[pos] = r
    <2>1. /\ v \in Seq(S) /\ Len(v) = Len(a) + 1
          /\ \A i \in 1 .. Len(a) : v[i] = a[i]
          /\ v[Len(a) + 1] = r
      BY <1>1, AppendProperties
    <2> HIDE DEF v
    <2>2. Len(a) + 1 = pos
      BY <1>n, <1>1
    <2> QED BY <1>1, <2>1, <2>2, Zenon
  <1> HIDE DEF v
  <1>4. /\ u \in Seq(S) /\ Len(u) = pos + (n + 1 - pos)
        /\ \A i \in 1 .. pos + (n + 1 - pos) : u[i] = IF i <= pos THEN v[i] ELSE b[i - pos]
    BY <1>2, <1>3, ConcatProperties
  <1> HIDE DEF n, u
  <1>5. (\A i \in 1 .. pos - 1 : u[i] = s[i]) /\ u[pos] = r
    BY <1>n, <1>3, <1>4
  <1>6. ASSUME NEW i \in pos .. n PROVE u[i + 1] = s[i]
    <2>1. i + 1 \in 1 .. pos + (n + 1 - pos) /\ ~(i + 1 <= pos) /\ (i + 1) - pos \in 1 .. n + 1 - pos
          /\ pos + ((i + 1) - pos) - 1 = i
      BY <1>n
    <2> QED BY <1>2, <1>4, <2>1, Zenon
  <1>7. Len(u) = n + 1
    BY <1>n, <1>4
  <1> QED BY <1>4, <1>5, <1>6, <1>7, Zenon DEF Splice, u, v, n, a, b

-----------------------------------------------------------------------------
(* The indices of a range and of a free list *)

LEMMA RangeIndices ==
  ASSUME NEW r \in Ranges, NEW x
  PROVE  x \in Indices(r) <=> x \in Nat /\ r.base <= x /\ x < r.base + r.len
  <1>1. r.base \in Nat /\ r.len \in Nat
    BY Zenon DEF Ranges
  <1> QED BY <1>1 DEF Indices

LEMMA RangeType ==
  ASSUME NEW b \in Nat, NEW n \in Nat, n > 0
  PROVE  RuleRange(b, n) \in Ranges /\ RuleRange(b, n).base = b /\ RuleRange(b, n).len = n
  BY DEF RuleRange, Ranges

LEMMA FreeMember ==
  ASSUME NEW fl \in Seq(Ranges), NEW x
  PROVE  x \in FreeIndices(fl) <=>
           \E i \in 1 .. Len(fl) : x \in Nat /\ fl[i].base <= x /\ x < fl[i].base + fl[i].len
  <1>1. DOMAIN fl = 1 .. Len(fl) /\ \A i \in 1 .. Len(fl) : fl[i] \in Ranges
    BY LenProperties, ElementOfSeq, Zenon
  <1>2. x \in FreeIndices(fl) <=> \E i \in 1 .. Len(fl) : x \in Indices(fl[i])
    BY <1>1, Zenon DEF FreeIndices
  <1> QED BY <1>1, <1>2, RangeIndices, Zenon

LEMMA ListFacts ==
  ASSUME NEW fl \in Seq(Ranges)
  PROVE  /\ Len(fl) \in Nat /\ DOMAIN fl = 1 .. Len(fl)
         /\ \A i \in 1 .. Len(fl) : /\ fl[i] \in Ranges /\ fl[i].base \in Nat
                                    /\ fl[i].len \in Nat /\ fl[i].len > 0
  <1>1. Len(fl) \in Nat /\ DOMAIN fl = 1 .. Len(fl) /\ \A i \in 1 .. Len(fl) : fl[i] \in Ranges
    BY LenProperties, ElementOfSeq, Zenon
  <1>2. \A r \in Ranges : r.base \in Nat /\ r.len \in Nat /\ r.len > 0
    BY DEF Ranges
  <1> QED BY <1>1, <1>2, Zenon

-----------------------------------------------------------------------------
(* alloc *)

\* Consecutive free indices lie in one range: a tidy list has a gap after
\* every range.
LEMMA BlockInOneRange ==
  ASSUME NEW fl, Tidy(fl), NEW b \in Nat, NEW count \in Nat, count > 0,
         b .. (b + count - 1) \subseteq FreeIndices(fl)
  PROVE  \E i \in 1 .. Len(fl) : fl[i].base <= b /\ b + count <= fl[i].base + fl[i].len
  <1>t. fl \in Seq(Ranges)
    BY Zenon DEF Tidy
  <1>l. Len(fl) \in Nat /\ \A i \in 1 .. Len(fl) : fl[i].base \in Nat /\ fl[i].len \in Nat
    BY <1>t, ListFacts, Zenon
  <1>m. \A x : x \in FreeIndices(fl) <=>
          \E i \in 1 .. Len(fl) : x \in Nat /\ fl[i].base <= x /\ x < fl[i].base + fl[i].len
    BY <1>t, FreeMember, Zenon
  <1>1. b \in FreeIndices(fl)
    OBVIOUS
  <1>2. PICK i \in 1 .. Len(fl) : fl[i].base <= b /\ b < fl[i].base + fl[i].len
    BY <1>1, <1>m, Zenon
  <1> DEFINE e == fl[i].base + fl[i].len
  <1>3. e \in Nat
    BY <1>l
  <1>4. e \notin FreeIndices(fl)
    <2> SUFFICES ASSUME NEW j \in 1 .. Len(fl), fl[j].base <= e, e < fl[j].base + fl[j].len
                 PROVE  FALSE
      BY <1>m, Zenon
    <2>1. /\ i < j => fl[i].base + fl[i].len < fl[j].base
          /\ j < i => fl[j].base + fl[j].len < fl[i].base
      BY Zenon DEF Tidy
    <2> QED BY <1>l, <2>1, SMTT(20)
  <1>5. ~(e \in b .. (b + count - 1))
    BY <1>4, Zenon
  <1>6. b < e
    BY <1>2, Zenon
  <1> QED BY <1>2, <1>3, <1>5, <1>6

LEMMA FirstFit ==
  ASSUME NEW fl \in Seq(Ranges), NEW count \in Nat, Fitting(fl, count) # {}
  PROVE  LET pos == Position(fl, count) IN
         /\ pos \in 1 .. Len(fl) /\ fl[pos].len >= count
         /\ \A i \in 1 .. Len(fl) : i < pos => fl[i].len < count
  <1> DEFINE F == Fitting(fl, count)
  <1>1. DOMAIN fl = 1 .. Len(fl) /\ \A i \in 1 .. Len(fl) : fl[i].len \in Nat
    BY ListFacts, Zenon
  <1>2. F \in SUBSET Nat /\ F # {} /\ F = {i \in 1 .. Len(fl) : fl[i].len >= count}
    BY <1>1, ListFacts DEF Fitting
  <1>3. Min(F) \in F /\ \A y \in F : Min(F) <= y
    BY <1>2, MinIn, Zenon
  <1>4. Min(F) \in 1 .. Len(fl) /\ fl[Min(F)].len >= count
    BY <1>2, <1>3, Zenon
  <1>5. ASSUME NEW i \in 1 .. Len(fl), i < Min(F) PROVE fl[i].len < count
    <2>1. i \notin F
      BY <1>3, <1>4, <1>5
    <2> QED BY <1>1, <1>2, <2>1
  <1> QED BY <1>4, <1>5, Zenon DEF Position

\* What alloc hands out is the lowest block of free indices.
LEMMA AllocTakes ==
  ASSUME NEW fl, Tidy(fl), NEW count \in Nat, count > 0, ~AllocFails(fl, count)
  PROVE  LET b == AllocBase(fl, count) IN
         /\ b \in Nat
         /\ b .. (b + count - 1) \subseteq FreeIndices(fl)
         /\ \A c \in Nat : c < b => ~(c .. (c + count - 1) \subseteq FreeIndices(fl))
  <1> DEFINE pos == Position(fl, count)
             b == AllocBase(fl, count)
  <1>t. fl \in Seq(Ranges)
    BY Zenon DEF Tidy
  <1>l. Len(fl) \in Nat /\ \A i \in 1 .. Len(fl) : fl[i].base \in Nat /\ fl[i].len \in Nat
    BY <1>t, ListFacts, Zenon
  <1>1. /\ pos \in 1 .. Len(fl) /\ fl[pos].len >= count
        /\ \A i \in 1 .. Len(fl) : i < pos => fl[i].len < count
    BY <1>t, FirstFit, Zenon DEF AllocFails
  <1>2. b = fl[pos].base
    BY DEF AllocBase
  <1> HIDE DEF pos, b
  <1>3. ASSUME NEW x \in b .. (b + count - 1) PROVE x \in FreeIndices(fl)
    <2>1. x \in Nat /\ fl[pos].base <= x /\ x < fl[pos].base + fl[pos].len
      BY <1>l, <1>1, <1>2
    <2> QED BY <1>t, <1>1, <2>1, FreeMember, Zenon
  <1>4. ASSUME NEW c \in Nat, c < b, c .. (c + count - 1) \subseteq FreeIndices(fl)
        PROVE  FALSE
    <2>1. PICK i \in 1 .. Len(fl) : fl[i].base <= c /\ c + count <= fl[i].base + fl[i].len
      BY <1>4, BlockInOneRange, Zenon
    <2>2. fl[i].base \in Nat /\ fl[i].len \in Nat /\ fl[pos].base \in Nat
      BY <1>l, <1>1, Zenon
    <2>3. fl[i].len >= count
      BY <2>1, <2>2, SMTT(20)
    <2>4. ~(i < pos)
      BY <1>1, <2>2, <2>3
    <2>5. pos < i => fl[pos].base + fl[pos].len < fl[i].base
      BY <1>1, Zenon DEF Tidy
    <2>6. fl[pos].len \in Nat /\ pos \in Nat /\ i \in Nat
      BY <1>l, <1>1
    <2> QED BY <1>2, <1>4, <2>1, <2>2, <2>4, <2>5, <2>6, SMTT(20)
  <1> QED BY <1>l, <1>1, <1>2, <1>3, <1>4, Zenon DEF b

\* alloc fails only when no block of that size is free.
LEMMA AllocRefuses ==
  ASSUME NEW fl, Tidy(fl), NEW count \in Nat, AllocFails(fl, count), NEW b \in Nat
  PROVE  ~(b .. (b + count - 1) \subseteq FreeIndices(fl))
  <1> SUFFICES ASSUME b .. (b + count - 1) \subseteq FreeIndices(fl)
               PROVE  FALSE
    BY Zenon
  <1>t. fl \in Seq(Ranges)
    BY Zenon DEF Tidy
  <1>1. PICK i \in 1 .. Len(fl) : fl[i].base <= b /\ b + count <= fl[i].base + fl[i].len
    BY BlockInOneRange, Zenon DEF AllocFails
  <1>2. fl[i].base \in Nat /\ fl[i].len \in Nat /\ DOMAIN fl = 1 .. Len(fl)
    BY <1>t, ListFacts, Zenon
  <1>3. fl[i].len >= count
    BY <1>1, <1>2
  <1> QED BY <1>2, <1>3, Zenon DEF AllocFails, Fitting

\* The list alloc leaves is tidy, and lacks exactly the block.
LEMMA AllocLeaves ==
  ASSUME NEW fl, Tidy(fl), NEW count \in Nat, count > 0, ~AllocFails(fl, count)
  PROVE  LET b == AllocBase(fl, count)
             u == AllocRest(fl, count)
         IN  Tidy(u) /\ FreeIndices(u) = FreeIndices(fl) \ (b .. (b + count - 1))
  <1> DEFINE pos == Position(fl, count)
             b == AllocBase(fl, count)
             u == AllocRest(fl, count)
             In(x, r) == r.base <= x /\ x < r.base + r.len
  <1>t. fl \in Seq(Ranges)
    BY ZenonT(30) DEF Tidy
  <1>l. Len(fl) \in Nat /\ \A i \in 1 .. Len(fl) : fl[i].base \in Nat /\ fl[i].len \in Nat
    BY <1>t, ListFacts, ZenonT(30)
  <1>g. \A i, j \in 1 .. Len(fl) : i < j => fl[i].base + fl[i].len < fl[j].base
    BY Zenon DEF Tidy
  <1>1. pos \in 1 .. Len(fl) /\ fl[pos].len >= count /\ pos \in Nat
    BY <1>t, FirstFit DEF AllocFails
  <1>2. b = fl[pos].base
    BY DEF AllocBase
  <1>m. \A x : x \in FreeIndices(fl) <=> \E i \in 1 .. Len(fl) : x \in Nat /\ In(x, fl[i])
    BY <1>t, FreeMember, Zenon
  <1>u. u = IF fl[pos].len = count THEN SubSeq(fl, 1, pos - 1) \o SubSeq(fl, pos + 1, Len(fl))
            ELSE [fl EXCEPT ![pos] = RuleRange(@.base + count, @.len - count)]
    BY DEF AllocRest
  <1> HIDE DEF pos, b, u
  <1>d. ASSUME NEW i \in 1 .. Len(fl), i # pos, NEW x \in Nat, In(x, fl[i])
        PROVE  ~(x \in b .. (b + count - 1))
    <2>1. /\ i < pos => fl[i].base + fl[i].len < fl[pos].base
          /\ pos < i => fl[pos].base + fl[pos].len < fl[i].base
      BY <1>g, <1>1, Zenon
    <2>2. /\ fl[i].base \in Nat /\ fl[i].len \in Nat /\ fl[pos].base \in Nat /\ fl[pos].len \in Nat
          /\ i \in Nat
      BY <1>l, <1>1
    <2>3. fl[i].base <= x /\ x < fl[i].base + fl[i].len /\ pos \in Nat /\ fl[pos].len >= count /\ i # pos
      BY <1>d, <1>1, Zenon
    <2>4. CASE i < pos
      <3>1. x < b
        BY <1>2, <2>1, <2>2, <2>3, <2>4
      <3> QED BY <1>2, <2>2, <3>1
    <2>5. CASE pos < i
      <3>0. fl[pos].base + fl[pos].len < fl[i].base
        BY <2>1, <2>5, Zenon
      <3>1. b + count <= x
        BY <1>2, <2>2, <2>3, <3>0
      <3> QED BY <1>2, <2>2, <3>1
    <2> QED BY <2>2, <2>3, <2>4, <2>5
  <1>3. CASE fl[pos].len = count
    <2>1. /\ u \in Seq(Ranges) /\ Len(u) = Len(fl) - 1
          /\ \A i \in 1 .. pos - 1 : u[i] = fl[i]
          /\ \A i \in pos .. Len(fl) - 1 : u[i] = fl[i + 1]
      BY <1>t, <1>1, <1>3, <1>u, CutProperties, Zenon
    <2>2. ASSUME NEW i \in 1 .. Len(u), NEW j \in 1 .. Len(u), i < j
          PROVE  u[i].base + u[i].len < u[j].base
      <3>1. CASE j < pos
        <4>1. i \in 1 .. pos - 1 /\ j \in 1 .. pos - 1
          BY <1>1, <2>2, <3>1
        <4>2. i \in 1 .. Len(fl) /\ j \in 1 .. Len(fl)
          BY <1>1, <1>l, <4>1
        <4> QED BY <1>g, <2>1, <2>2, <4>1, <4>2, Zenon
      <3>2. CASE i < pos /\ ~(j < pos)
        <4>0. i \in 1 .. pos - 1 /\ j \in pos .. Len(fl) - 1
          BY <1>1, <1>l, <2>1, <3>2
        <4>1. u[i] = fl[i] /\ u[j] = fl[j + 1]
          BY <2>1, <4>0, Zenon
        <4>2. i \in 1 .. Len(fl) /\ j + 1 \in 1 .. Len(fl) /\ i < j + 1
          BY <1>1, <1>l, <2>1, <2>2
        <4> QED BY <4>1, <4>2, <1>g, Zenon
      <3>3. CASE ~(i < pos)
        <4>0. Len(u) = Len(fl) - 1 /\ pos \in 1 .. Len(fl) /\ Len(fl) \in Nat
          BY <1>1, <1>l, <2>1, Zenon
        <4>r. i \in pos .. Len(fl) - 1 /\ j \in pos .. Len(fl) - 1
          BY <2>2, <3>3, <4>0
        <4>1. u[i] = fl[i + 1] /\ u[j] = fl[j + 1]
          BY <2>1, <4>r, Zenon
        <4>2. i + 1 \in 1 .. Len(fl) /\ j + 1 \in 1 .. Len(fl) /\ i + 1 < j + 1
          BY <1>1, <1>l, <2>1, <2>2
        <4> QED BY <4>1, <4>2, <1>g, Zenon
      <3> QED BY <3>1, <3>2, <3>3, Zenon
    <2>3. Tidy(u)
      BY <2>1, <2>2, Zenon DEF Tidy
    <2>4. \A x : x \in FreeIndices(u) <=> \E i \in 1 .. Len(u) : x \in Nat /\ In(x, u[i])
      BY <2>1, FreeMember, Zenon
    <2>5. ASSUME NEW x \in FreeIndices(u)
          PROVE  x \in FreeIndices(fl) /\ ~(x \in b .. (b + count - 1))
      <3>1. PICK i \in 1 .. Len(u) : x \in Nat /\ In(x, u[i])
        BY <2>4, Zenon
      <3>2. PICK k \in 1 .. Len(fl) : k # pos /\ u[i] = fl[k]
        <4>1. CASE i < pos
          BY <1>1, <1>l, <2>1, <4>1
        <4>2. CASE ~(i < pos)
          <5>1. i + 1 \in 1 .. Len(fl) /\ i + 1 # pos /\ i \in pos .. Len(fl) - 1
            BY <1>1, <1>l, <2>1, <4>2
          <5> QED BY <2>1, <5>1, Zenon
        <4> QED BY <4>1, <4>2, Zenon
      <3> HIDE DEF In
      <3> QED BY <1>m, <1>d, <3>1, <3>2, Zenon
    <2>6. ASSUME NEW x \in FreeIndices(fl), ~(x \in b .. (b + count - 1))
          PROVE  x \in FreeIndices(u)
      <3>1. PICK k \in 1 .. Len(fl) : x \in Nat /\ In(x, fl[k])
        BY <1>m, Zenon
      <3>2. fl[pos].base \in Nat /\ fl[pos].len \in Nat
        BY <1>l, <1>1, Zenon
      <3>3. k # pos
        BY <1>2, <1>3, <2>6, <3>1, <3>2
      <3>4. PICK i \in 1 .. Len(u) : u[i] = fl[k]
        <4>1. CASE k < pos
          <5>1. k \in 1 .. Len(u) /\ u[k] = fl[k]
            BY <1>1, <1>l, <2>1, <4>1
          <5> QED BY <5>1, Zenon
        <4>2. CASE k > pos
          <5>1. k - 1 \in 1 .. Len(u) /\ k - 1 \in pos .. Len(fl) - 1 /\ (k - 1) + 1 = k
            BY <1>1, <1>l, <2>1, <4>2
          <5> QED BY <2>1, <5>1, Zenon
        <4> QED BY <1>1, <3>3, <4>1, <4>2
      <3> HIDE DEF In
      <3> QED BY <2>4, <3>1, <3>4, Zenon
    <2> QED BY <2>3, <2>5, <2>6, Zenon DEF u, b
  <1>4. CASE fl[pos].len # count
    <2> DEFINE r == RuleRange(fl[pos].base + count, fl[pos].len - count)
    <2>1. /\ r \in Ranges /\ r.base = fl[pos].base + count /\ r.len = fl[pos].len - count
      <3>1. fl[pos].base + count \in Nat /\ fl[pos].len - count \in Nat /\ fl[pos].len - count > 0
        BY <1>l, <1>1, <1>4
      <3> QED BY <3>1, RangeType, Zenon
    <2>2. u = [fl EXCEPT ![pos] = r]
      BY <1>u, <1>4, Zenon
    <2> HIDE DEF r
    <2>3. /\ u \in Seq(Ranges) /\ Len(u) = Len(fl) /\ u[pos] = r
          /\ \A i \in 1 .. Len(fl) : i # pos => u[i] = fl[i]
      BY <1>t, <1>1, <2>1, <2>2, ExceptSeq
    <2>4. ASSUME NEW i \in 1 .. Len(fl), NEW j \in 1 .. Len(fl), i < j
          PROVE  u[i].base + u[i].len < u[j].base
      <3>1. fl[i].base + fl[i].len < fl[j].base
        BY <1>g, <2>4, Zenon
      <3>2. fl[i].base \in Nat /\ fl[i].len \in Nat /\ fl[j].base \in Nat /\ i # j
        BY <1>l, <2>4
      <3>3. CASE i = pos
        <4>1. u[j] = fl[j] /\ u[i] = r
          BY <2>3, <2>4, <3>2, <3>3, Zenon
        <4>2. r.base = fl[i].base + count /\ r.len = fl[i].len - count
          BY <2>1, <3>3, Zenon
        <4>3. u[i].base + u[i].len = fl[i].base + fl[i].len
          BY <3>2, <4>1, <4>2, SMTT(20)
        <4> QED BY <3>1, <4>1, <4>3, Zenon
      <3>4. CASE j = pos
        <4>1. u[i] = fl[i] /\ u[j].base = fl[j].base + count
          BY <2>1, <2>3, <2>4, <3>2, <3>4, Zenon
        <4> QED BY <3>1, <3>2, <4>1, SMTT(20)
      <3>5. CASE i # pos /\ j # pos
        BY <2>3, <3>1, <3>5, Zenon
      <3> QED BY <3>3, <3>4, <3>5, Zenon
    <2>5. Tidy(u)
      BY <2>3, <2>4, Zenon DEF Tidy
    <2>6. \A x : x \in FreeIndices(u) <=> \E i \in 1 .. Len(fl) : x \in Nat /\ In(x, u[i])
      BY <2>3, FreeMember, Zenon
    <2>7. ASSUME NEW x \in Nat
          PROVE  In(x, r) <=> In(x, fl[pos]) /\ ~(x \in b .. (b + count - 1))
      <3>1. fl[pos].base \in Nat /\ fl[pos].len \in Nat
        BY <1>l, <1>1, Zenon
      <3> QED BY <1>1, <1>2, <2>1, <3>1, SMTT(20)
    <2> HIDE DEF In
    <2>8. ASSUME NEW x
          PROVE  x \in FreeIndices(u) <=> x \in FreeIndices(fl) /\ ~(x \in b .. (b + count - 1))
      <3>1. ASSUME NEW i \in 1 .. Len(fl), x \in Nat
            PROVE  In(x, u[i]) <=> In(x, fl[i]) /\ ~(x \in b .. (b + count - 1))
        <4>1. CASE i = pos
          BY <2>3, <2>7, <3>1, <4>1, Zenon
        <4>2. CASE i # pos
          BY <1>d, <2>3, <3>1, <4>2, Zenon
        <4> QED BY <4>1, <4>2, Zenon
      <3> QED BY <1>m, <2>6, <3>1, Zenon
    <2> QED BY <2>5, <2>8, Zenon DEF u, b
  <1> QED BY <1>3, <1>4, Zenon

-----------------------------------------------------------------------------
(* release *)

\* A range that overlaps none goes in where the list stays sorted.
LEMMA InsertedSorted ==
  ASSUME NEW fl, Tidy(fl), NEW r \in Ranges, Indices(r) \cap FreeIndices(fl) = {}
  PROVE  LET u == Inserted(fl, r)
         IN  Sorted(u) /\ FreeIndices(u) = FreeIndices(fl) \cup Indices(r)
  <1> DEFINE n == Len(fl)
             T == {i \in 1 .. n + 1 : i <= n => fl[i].base >= r.base}
             pos == Min(T)
             u == Inserted(fl, r)
             In(x, q) == q.base <= x /\ x < q.base + q.len
  <1>t. fl \in Seq(Ranges)
    BY Zenon DEF Tidy
  <1>n. n \in Nat
    BY <1>t, ListFacts, Zenon
  <1>l. \A i \in 1 .. n : fl[i].base \in Nat /\ fl[i].len \in Nat /\ fl[i].len > 0
    BY <1>t, ListFacts, Zenon
  <1>g. \A i, j \in 1 .. n : i < j => fl[i].base + fl[i].len < fl[j].base
    BY Zenon DEF Tidy
  <1>r. r.base \in Nat /\ r.len \in Nat /\ r.len > 0
    BY DEF Ranges
  <1>m. \A x : x \in FreeIndices(fl) <=> \E i \in 1 .. n : x \in Nat /\ In(x, fl[i])
    BY <1>t, FreeMember, Zenon
  <1>x. \A x : x \in Indices(r) <=> x \in Nat /\ In(x, r)
    BY RangeIndices, Zenon
  <1>1. /\ pos \in 1 .. n + 1 /\ pos \in Nat
        /\ pos <= n => fl[pos].base >= r.base
        /\ \A i \in 1 .. n : i < pos => ~(fl[i].base >= r.base)
    <2> HIDE DEF n
    <2>1. T \in SUBSET Nat /\ n + 1 \in T
      BY <1>n
    <2>2. Min(T) \in T /\ \A y \in T : Min(T) <= y
      BY <2>1, MinIn, Zenon
    <2>3. pos \in 1 .. n + 1 /\ (pos <= n => fl[pos].base >= r.base)
      BY <2>2, Zenon
    <2>4. ASSUME NEW i \in 1 .. n, i < pos, fl[i].base >= r.base PROVE FALSE
      <3>1. i \in T
        BY <1>n, <2>4
      <3>2. pos <= i
        BY <2>2, <3>1, Zenon
      <3> QED BY <1>n, <2>3, <2>4, <3>2
    <2> QED BY <1>n, <2>3, <2>4
  <1>2. u = Splice(fl, pos, r)
    BY Zenon DEF Inserted, Splice
  <1> HIDE DEF pos, u, T
  <1>3. /\ u \in Seq(Ranges) /\ Len(u) = n + 1
        /\ \A i \in 1 .. pos - 1 : u[i] = fl[i]
        /\ u[pos] = r
        /\ \A i \in pos .. n : u[i + 1] = fl[i]
    <2>1. pos \in 1 .. Len(fl) + 1
      BY <1>1, Zenon
    <2> QED BY <1>t, <1>2, <2>1, SpliceProperties, SMTT(20)
  <1> HIDE DEF n
  <1>4. ASSUME NEW i \in 1 .. n, i < pos PROVE fl[i].base + fl[i].len <= r.base
    <2>1. fl[i].base \in Nat /\ fl[i].len \in Nat /\ fl[i].base < r.base
      BY <1>1, <1>l, <1>r, <1>4
    <2>2. ~In(r.base, fl[i])
      <3>1. In(r.base, r)
        BY <1>r
      <3> HIDE DEF In
      <3> QED BY <1>m, <1>x, <1>r, <3>1, Zenon
    <2> QED BY <1>r, <2>1, <2>2
  <1>5. ASSUME NEW i \in 1 .. n, ~(i < pos) PROVE r.base + r.len <= fl[i].base
    <2>1. fl[i].base \in Nat /\ fl[i].len \in Nat /\ fl[i].len > 0
      BY <1>l, Zenon
    <2>2. fl[i].base >= r.base
      <3>1. CASE i = pos
        BY <1>1, <1>n, <3>1
      <3>2. CASE pos < i
        <4>1. pos \in 1 .. n /\ pos <= n
          BY <1>1, <1>n, <3>2
        <4>2. fl[pos].base + fl[pos].len < fl[i].base /\ fl[pos].base >= r.base
          BY <1>1, <1>g, <3>2, <4>1, Zenon
        <4>3. fl[pos].base \in Nat /\ fl[pos].len \in Nat
          BY <1>l, <4>1, Zenon
        <4> QED BY <1>r, <2>1, <4>2, <4>3
      <3> QED BY <1>1, <1>n, <1>5, <3>1, <3>2
    <2>3. ~In(fl[i].base, r)
      <3>1. In(fl[i].base, fl[i])
        BY <2>1
      <3> HIDE DEF In
      <3> QED BY <1>m, <1>x, <2>1, <3>1, Zenon
    <2> QED BY <1>r, <2>1, <2>2, <2>3
  <1>6. ASSUME NEW i \in 1 .. n + 1, NEW j \in 1 .. n + 1, i < j
        PROVE  u[i].base + u[i].len <= u[j].base
    <2>1. CASE j < pos
      <3>1. i \in 1 .. pos - 1 /\ j \in 1 .. pos - 1 /\ i \in 1 .. n /\ j \in 1 .. n
        BY <1>1, <1>n, <1>6, <2>1
      <3>2. u[i] = fl[i] /\ u[j] = fl[j] /\ fl[i].base + fl[i].len < fl[j].base
        BY <1>3, <1>g, <1>6, <3>1, Zenon
      <3>3. fl[i].base \in Nat /\ fl[i].len \in Nat /\ fl[j].base \in Nat
        BY <1>l, <3>1, Zenon
      <3> QED BY <3>2, <3>3
    <2>2. CASE j = pos
      <3>1. i \in 1 .. pos - 1 /\ i \in 1 .. n /\ i < pos
        BY <1>1, <1>n, <1>6, <2>2
      <3> QED BY <1>3, <1>4, <2>2, <3>1, Zenon
    <2>3. CASE i < pos /\ pos < j
      <3>1. i \in 1 .. pos - 1 /\ i \in 1 .. n /\ j - 1 \in pos .. n /\ j - 1 \in 1 .. n /\ i < j - 1
            /\ (j - 1) + 1 = j
        BY <1>1, <1>n, <1>6, <2>3
      <3>2. u[i] = fl[i] /\ u[j] = fl[j - 1] /\ fl[i].base + fl[i].len < fl[j - 1].base
        BY <1>3, <1>g, <3>1, Zenon
      <3>3. fl[i].base \in Nat /\ fl[i].len \in Nat /\ fl[j - 1].base \in Nat
        BY <1>l, <3>1, Zenon
      <3> QED BY <3>2, <3>3
    <2>4. CASE i = pos
      <3>1. j - 1 \in pos .. n /\ j - 1 \in 1 .. n /\ ~(j - 1 < pos) /\ (j - 1) + 1 = j
        BY <1>1, <1>n, <1>6, <2>4
      <3> QED BY <1>3, <1>5, <2>4, <3>1, Zenon
    <2>5. CASE pos < i
      <3>1. i - 1 \in pos .. n /\ i - 1 \in 1 .. n /\ j - 1 \in pos .. n /\ j - 1 \in 1 .. n
            /\ i - 1 < j - 1 /\ (j - 1) + 1 = j /\ (i - 1) + 1 = i
        BY <1>1, <1>n, <1>6, <2>5
      <3>2. u[i] = fl[i - 1] /\ u[j] = fl[j - 1] /\ fl[i - 1].base + fl[i - 1].len < fl[j - 1].base
        BY <1>3, <1>g, <3>1, Zenon
      <3>3. fl[i - 1].base \in Nat /\ fl[i - 1].len \in Nat /\ fl[j - 1].base \in Nat
        BY <1>l, <3>1, Zenon
      <3> QED BY <3>2, <3>3
    <2> QED BY <1>1, <1>n, <1>6, <2>1, <2>2, <2>3, <2>4, <2>5
  <1>7. Sorted(u)
    BY <1>3, <1>6, Zenon DEF Sorted
  <1>8. \A x : x \in FreeIndices(u) <=> \E i \in 1 .. n + 1 : x \in Nat /\ In(x, u[i])
    BY <1>3, FreeMember, Zenon
  <1> HIDE DEF In
  <1>9. ASSUME NEW x, x \in FreeIndices(u) PROVE x \in FreeIndices(fl) \/ x \in Indices(r)
    <2>1. PICK i \in 1 .. n + 1 : x \in Nat /\ In(x, u[i])
      BY <1>8, <1>9, Zenon
    <2>2. CASE i < pos
      <3>1. i \in 1 .. pos - 1 /\ i \in 1 .. n
        BY <1>1, <1>n, <2>2
      <3> QED BY <1>3, <1>m, <2>1, <3>1, Zenon
    <2>3. CASE i = pos
      BY <1>3, <1>x, <2>1, <2>3, Zenon
    <2>4. CASE pos < i
      <3>1. i - 1 \in pos .. n /\ i - 1 \in 1 .. n /\ (i - 1) + 1 = i
        BY <1>1, <1>n, <2>4
      <3>2. u[i] = fl[i - 1]
        BY <1>3, <3>1, Zenon
      <3> QED BY <1>m, <2>1, <3>1, <3>2, Zenon
    <2> QED BY <1>1, <1>n, <2>2, <2>3, <2>4
  <1>10. ASSUME NEW x, x \in FreeIndices(fl) PROVE x \in FreeIndices(u)
    <2>1. PICK i \in 1 .. n : x \in Nat /\ In(x, fl[i])
      BY <1>m, <1>10, Zenon
    <2>2. CASE i < pos
      <3>1. i \in 1 .. pos - 1 /\ i \in 1 .. n + 1
        BY <1>1, <1>n, <2>2
      <3> QED BY <1>3, <1>8, <2>1, <3>1, Zenon
    <2>3. CASE ~(i < pos)
      <3>1. i \in pos .. n /\ i + 1 \in 1 .. n + 1
        BY <1>1, <1>n, <2>3
      <3>2. u[i + 1] = fl[i]
        BY <1>3, <3>1, Zenon
      <3> QED BY <1>8, <2>1, <3>1, <3>2, Zenon
    <2> QED BY <2>2, <2>3, Zenon
  <1>11. ASSUME NEW x, x \in Indices(r) PROVE x \in FreeIndices(u)
    BY <1>1, <1>3, <1>8, <1>x, <1>11, Zenon
  <1> QED BY <1>7, <1>9, <1>10, <1>11, Zenon DEF u

\* What the merge loop has done after k ranges: it holds their indices, is
\* tidy, and ends where the last of them ends.
Merged(ranges, k, d) ==
  /\ Tidy(d)
  /\ FreeIndices(d) = UNION {Indices(ranges[i]) : i \in 1 .. k}
  /\ k = 0 => d = <<>>
  /\ k > 0 => /\ Len(d) > 0
              /\ d[Len(d)].base + d[Len(d)].len = ranges[k].base + ranges[k].len

LEMMA MergeOneStep ==
  ASSUME NEW s, Sorted(s), NEW k \in 1 .. Len(s), NEW d, Merged(s, k - 1, d)
  PROVE  Merged(s, k, MergeOne(d, s[k]))
  <1> DEFINE r == s[k]
             n == Len(d)
             u == MergeOne(d, r)
             In(x, q) == q.base <= x /\ x < q.base + q.len
  <1>s. s \in Seq(Ranges) /\ k \in Nat /\ k >= 1
    BY DEF Sorted
  <1>r. r \in Ranges /\ r.base \in Nat /\ r.len \in Nat /\ r.len > 0
    BY <1>s, ListFacts, Zenon
  <1>t. d \in Seq(Ranges)
    BY Zenon DEF Merged, Tidy
  <1>n. n \in Nat
    BY <1>t, ListFacts, Zenon
  <1>l. \A i \in 1 .. n : d[i].base \in Nat /\ d[i].len \in Nat /\ d[i].len > 0
    BY <1>t, ListFacts, Zenon
  <1>g. \A i, j \in 1 .. n : i < j => d[i].base + d[i].len < d[j].base
    BY Zenon DEF Merged, Tidy
  <1>m. \A x : x \in FreeIndices(d) <=> \E i \in 1 .. n : x \in Nat /\ In(x, d[i])
    BY <1>t, FreeMember, Zenon
  <1>x. \A x : x \in Indices(r) <=> x \in Nat /\ In(x, r)
    BY <1>r, RangeIndices, Zenon
  <1>1. n > 0 => d[n].base + d[n].len <= r.base
    <2> SUFFICES ASSUME n > 0 PROVE d[n].base + d[n].len <= r.base
      BY Zenon
    <2>1. k - 1 > 0
      <3> SUFFICES ASSUME k - 1 = 0 PROVE FALSE
        BY <1>s
      <3>1. d = <<>>
        BY Zenon DEF Merged
      <3> QED BY <3>1
    <2>2. d[n].base + d[n].len = s[k - 1].base + s[k - 1].len
      BY <2>1, Zenon DEF Merged
    <2>3. k - 1 \in 1 .. Len(s) /\ k - 1 < k
      BY <1>s, <2>1
    <2>4. s[k - 1].base + s[k - 1].len <= s[k].base
      BY <2>3, Zenon DEF Sorted
    <2> QED BY <2>2, <2>4, Zenon
  <1>2. \A i \in 1 .. n : d[i].base + d[i].len <= r.base
    <2> SUFFICES ASSUME NEW i \in 1 .. n PROVE d[i].base + d[i].len <= r.base
      BY Zenon
    <2>1. n \in 1 .. n /\ n > 0 /\ (i = n \/ i < n)
      BY <1>n
    <2>2. d[n].base \in Nat /\ d[n].len \in Nat /\ d[i].base \in Nat /\ d[i].len \in Nat
      BY <1>l, <2>1, Zenon
    <2>3. CASE i = n
      BY <1>1, <2>1, <2>3, Zenon
    <2>4. CASE i < n
      <3>1. d[i].base + d[i].len < d[n].base
        BY <1>g, <2>1, <2>4, Zenon
      <3>2. d[n].base + d[n].len <= r.base
        BY <1>1, <2>1, Zenon
      <3>3. d[i].base + d[i].len \in Nat
        BY <2>2, SMTT(20)
      <3> QED BY <1>r, <2>2, <3>1, <3>2, <3>3, Through, Zenon
    <2> QED BY <2>1, <2>3, <2>4, Zenon
  <1>3. UNION {Indices(s[i]) : i \in 1 .. k} = FreeIndices(d) \cup Indices(r)
    <2>1. \A i : i \in 1 .. k <=> i \in 1 .. k - 1 \/ i = k
      BY <1>s
    <2>2. FreeIndices(d) = UNION {Indices(s[i]) : i \in 1 .. k - 1}
      BY Zenon DEF Merged
    <2> HIDE DEF u
    <2> QED BY <2>1, <2>2, Zenon
  <1>4. SUFFICES /\ Tidy(u) /\ FreeIndices(u) = FreeIndices(d) \cup Indices(r)
                 /\ Len(u) > 0 /\ u[Len(u)].base + u[Len(u)].len = r.base + r.len
    BY <1>3, <1>4, <1>s DEF Merged
  <1>5. CASE n > 0 /\ d[n].base + d[n].len = r.base
    <2> DEFINE q == RuleRange(d[n].base, d[n].len + r.len)
    <2>n. n \in 1 .. n
      BY <1>n, <1>5
    <2>1. q \in Ranges /\ q.base = d[n].base /\ q.len = d[n].len + r.len
      <3>1. d[n].base \in Nat /\ d[n].len + r.len \in Nat /\ d[n].len + r.len > 0
        BY <1>l, <1>r, <2>n, SMTT(20)
      <3> QED BY <3>1, RangeType, Zenon
    <2>2. u = [d EXCEPT ![n] = q]
      BY <1>5, Zenon DEF MergeOne
    <2> HIDE DEF q, u
    <2>3. /\ u \in Seq(Ranges) /\ Len(u) = n /\ u[n] = q
          /\ \A i \in 1 .. n : i # n => u[i] = d[i]
      BY <1>t, <2>n, <2>1, <2>2, ExceptSeq
    <2> HIDE DEF n, r
    <2>4. ASSUME NEW i \in 1 .. n, NEW j \in 1 .. n, i < j
          PROVE  u[i].base + u[i].len < u[j].base
      <3>1. d[i].base + d[i].len < d[j].base /\ i # n
        BY <1>n, <1>g, <2>4
      <3> QED BY <2>1, <2>3, <3>1, Zenon
    <2>5. Tidy(u)
      BY <2>3, <2>4, Zenon DEF Tidy
    <2>6. \A x : x \in FreeIndices(u) <=> \E i \in 1 .. n : x \in Nat /\ In(x, u[i])
      BY <2>3, FreeMember, Zenon
    <2>7. ASSUME NEW x \in Nat PROVE In(x, q) <=> In(x, d[n]) \/ In(x, r)
      <3>1. d[n].base \in Nat /\ d[n].len \in Nat
        BY <1>l, <2>n, Zenon
      <3>2. q.base + q.len = r.base + r.len /\ r.base >= d[n].base
        BY <1>5, <1>r, <2>1, <3>1, SMTT(20)
      <3>3. In(x, q) <=> d[n].base <= x /\ x < r.base + r.len
        BY <2>1, <3>2, Zenon
      <3>4. In(x, d[n]) <=> d[n].base <= x /\ x < r.base
        BY <1>5, Zenon
      <3>5. In(x, r) <=> r.base <= x /\ x < r.base + r.len
        BY Zenon
      <3> HIDE DEF In
      <3> QED BY <1>r, <3>1, <3>2, <3>3, <3>4, <3>5
    <2>8. u[Len(u)].base + u[Len(u)].len = r.base + r.len
      <3>1. d[n].base \in Nat /\ d[n].len \in Nat
        BY <1>l, <2>n, Zenon
      <3> QED BY <1>5, <1>r, <2>1, <2>3, <3>1, SMTT(20)
    <2> HIDE DEF In
    <2>9. ASSUME NEW x
          PROVE  x \in FreeIndices(u) <=> x \in FreeIndices(d) \/ x \in Indices(r)
      BY <1>m, <1>x, <2>n, <2>3, <2>6, <2>7, Zenon
    <2> QED BY <1>5, <2>3, <2>5, <2>8, <2>9, Zenon
  <1>6. CASE ~(n > 0 /\ d[n].base + d[n].len = r.base)
    <2>1. u = Append(d, r)
      BY <1>6, Zenon DEF MergeOne
    <2> HIDE DEF u
    <2>2. /\ u \in Seq(Ranges) /\ Len(u) = n + 1 /\ u[n + 1] = r
          /\ \A i \in 1 .. n : u[i] = d[i]
      BY <1>t, <1>r, <2>1, AppendProperties
    <2> HIDE DEF n, r
    <2>3. \A i : i \in 1 .. n + 1 <=> i \in 1 .. n \/ i = n + 1
      BY <1>n
    <2>4. ASSUME NEW i \in 1 .. n + 1, NEW j \in 1 .. n + 1, i < j
          PROVE  u[i].base + u[i].len < u[j].base
      <3>1. i \in 1 .. n /\ u[i] = d[i]
        BY <1>n, <2>2, <2>4
      <3>2. CASE j \in 1 .. n
        BY <1>g, <2>2, <2>4, <3>1, <3>2, Zenon
      <3>3. CASE j = n + 1
        <4>1. d[i].base + d[i].len <= r.base /\ d[i].base \in Nat /\ d[i].len \in Nat
          BY <1>2, <1>l, <3>1, Zenon
        <4>2. CASE i = n
          <5>1. n > 0
            BY <1>n, <3>1
          <5> QED BY <1>6, <1>r, <2>2, <3>1, <3>3, <4>1, <4>2, <5>1, SMTT(20)
        <4>3. CASE i # n
          <5>1. i < n /\ n \in 1 .. n
            BY <1>n, <3>1, <4>3
          <5>2. d[i].base + d[i].len < d[n].base /\ d[n].base + d[n].len <= r.base
            BY <1>g, <1>2, <3>1, <5>1, Zenon
          <5>3. d[n].base \in Nat /\ d[n].len \in Nat
            BY <1>l, <5>1, Zenon
          <5>4. d[i].base + d[i].len \in Nat
            BY <4>1, SMTT(20)
          <5>5. d[i].base + d[i].len < r.base
            BY <1>r, <5>2, <5>3, <5>4, Through, Zenon
          <5> QED BY <2>2, <3>1, <3>3, <5>5, Zenon
        <4> QED BY <4>2, <4>3, Zenon
      <3> QED BY <2>3, <3>2, <3>3, Zenon
    <2>5. Tidy(u)
      BY <2>2, <2>4, Zenon DEF Tidy
    <2>6. \A x : x \in FreeIndices(u) <=> \E i \in 1 .. n + 1 : x \in Nat /\ In(x, u[i])
      BY <2>2, FreeMember, Zenon
    <2> HIDE DEF In
    <2>7. ASSUME NEW x
          PROVE  x \in FreeIndices(u) <=> x \in FreeIndices(d) \/ x \in Indices(r)
      BY <1>m, <1>x, <2>2, <2>3, <2>6, Zenon
    <2>8. Len(u) > 0 /\ u[Len(u)].base + u[Len(u)].len = r.base + r.len
      BY <1>n, <2>2
    <2> QED BY <2>5, <2>7, <2>8, Zenon
  <1> QED BY <1>5, <1>6, Zenon

\* The lists the merge loop goes through, as a function of the ranges done.
Steps(ranges, m, g) ==
  g = [k \in 0 .. m |-> IF k = 0 THEN <<>> ELSE MergeOne(g[k - 1], ranges[k])]

LEMMA StepsExist ==
  ASSUME NEW s, NEW L \in Nat
  PROVE  \E g : Steps(s, L, g)
  <1> DEFINE Bad == {m \in Nat : ~\E g : Steps(s, m, g)}
  <1> SUFFICES ASSUME Bad # {} PROVE FALSE
    BY Zenon
  <1>1. Bad \in SUBSET Nat
    BY Zenon
  <1>2. PICK m \in Bad : \A y \in Bad : m <= y
    <2> HIDE DEF Bad
    <2> QED BY <1>1, MinIn, Zenon
  <1>3. m # 0
    <2>1. Steps(s, 0, [k \in 0 .. 0 |-> <<>>])
      BY DEF Steps
    <2> QED BY <1>2, <2>1, Zenon
  <1>4. m \in Nat /\ m - 1 \in Nat /\ m - 1 \notin Bad
    <2>1. m \in Nat
      BY Zenon
    <2>2. m - 1 \in Nat /\ ~(m <= m - 1)
      BY <1>3, <2>1
    <2> HIDE DEF Bad
    <2> QED BY <1>2, <2>1, <2>2, Zenon
  <1>5. PICK g : Steps(s, m - 1, g)
    BY <1>4, Zenon
  <1> DEFINE h == [k \in 0 .. m |-> IF k = m THEN MergeOne(g[m - 1], s[m]) ELSE g[k]]
  <1>6. Steps(s, m, h)
    <2>1. ASSUME NEW k \in 0 .. m
          PROVE  h[k] = IF k = 0 THEN <<>> ELSE MergeOne(h[k - 1], s[k])
      <3>1. CASE k = m
        <4>1. h[k] = MergeOne(g[m - 1], s[m]) /\ m - 1 \in 0 .. m /\ m - 1 # m
          BY <1>4, <3>1
        <4>2. h[m - 1] = g[m - 1]
          BY <4>1, Zenon
        <4> QED BY <1>3, <3>1, <4>1, <4>2, Zenon
      <3>2. CASE k # m
        <4>1. k \in 0 .. m - 1 /\ h[k] = g[k]
          BY <1>4, <3>2
        <4>2. g[k] = IF k = 0 THEN <<>> ELSE MergeOne(g[k - 1], s[k])
          BY <1>5, <4>1, Zenon DEF Steps
        <4>3. k # 0 => k - 1 \in 0 .. m /\ k - 1 # m
          BY <1>4, <3>2
        <4>4. k # 0 => h[k - 1] = g[k - 1]
          BY <4>3, Zenon
        <4> QED BY <4>1, <4>2, <4>4, Zenon
      <3> QED BY <3>1, <3>2, Zenon
    <2> QED BY <2>1, Zenon DEF Steps
  <1> QED BY <1>6, Zenon

\* Merging a sorted list keeps its indices and leaves a gap after every range.
LEMMA CoalesceTidies ==
  ASSUME NEW s, Sorted(s)
  PROVE  Tidy(Coalesce(s)) /\ FreeIndices(Coalesce(s)) = FreeIndices(s)
  <1> DEFINE L == Len(s)
             done == CHOOSE g : Steps(s, L, g)
             Bad == {m \in 0 .. L : ~Merged(s, m, done[m])}
  <1>s. s \in Seq(Ranges) /\ L \in Nat /\ DOMAIN s = 1 .. L
    BY ListFacts, Zenon DEF Sorted
  <1>1. Coalesce(s) = done[L]
    BY Zenon DEF Coalesce, Steps
  <1>2. Steps(s, L, done)
    BY <1>s, StepsExist, Zenon
  <1>3. done[0] = <<>> /\ \A k \in 1 .. L : done[k] = MergeOne(done[k - 1], s[k])
    <2> HIDE DEF done, L
    <2>1. ASSUME NEW k \in 0 .. L
          PROVE  done[k] = IF k = 0 THEN <<>> ELSE MergeOne(done[k - 1], s[k])
      BY <1>2, Zenon DEF Steps
    <2>2. 0 \in 0 .. L /\ \A k \in 1 .. L : k \in 0 .. L /\ k # 0
      BY <1>s
    <2> QED BY <2>1, <2>2, Zenon
  <1> HIDE DEF done
  <1>4. Merged(s, 0, <<>>)
    <2>1. Tidy(<<>>) /\ FreeIndices(<<>>) = {}
      BY DEF Tidy, FreeIndices
    <2>2. UNION {Indices(s[i]) : i \in 1 .. 0} = {}
      OBVIOUS
    <2> QED BY <2>1, <2>2 DEF Merged
  <1>5. Bad = {}
    <2> SUFFICES ASSUME Bad # {} PROVE FALSE
      BY Zenon
    <2>1. Bad \in SUBSET Nat
      BY <1>s
    <2>2. PICK m \in Bad : \A y \in Bad : m <= y
      <3> HIDE DEF Bad
      <3> QED BY <2>1, MinIn, Zenon
    <2>3. m \in 0 .. L /\ ~Merged(s, m, done[m])
      BY Zenon
    <2>4. m # 0
      BY <1>3, <1>4, <2>3, Zenon
    <2>5. m \in 1 .. L /\ m - 1 \in 0 .. L /\ ~(m <= m - 1)
      BY <1>s, <2>3, <2>4
    <2>6. m - 1 \notin Bad
      <3> HIDE DEF Bad
      <3> QED BY <2>2, <2>5, Zenon
    <2>7. Merged(s, m - 1, done[m - 1])
      BY <2>5, <2>6, Zenon
    <2>8. Merged(s, m, MergeOne(done[m - 1], s[m]))
      BY <2>5, <2>7, MergeOneStep, Zenon
    <2> QED BY <1>3, <2>3, <2>5, <2>8, Zenon
  <1>6. Merged(s, L, done[L])
    BY <1>s, <1>5
  <1> QED BY <1>s, <1>1, <1>6, Zenon DEF Merged, FreeIndices

\* release gives the indices of the range back, and keeps the list tidy.
LEMMA ReleaseReturns ==
  ASSUME NEW fl, Tidy(fl), NEW r \in Ranges, Indices(r) \cap FreeIndices(fl) = {}
  PROVE  LET u == Release(fl, r.base, r.len)
         IN  Tidy(u) /\ FreeIndices(u) = FreeIndices(fl) \cup Indices(r)
  <1>1. RuleRange(r.base, r.len) = r /\ r.len # 0
    BY Zenon DEF RuleRange, Ranges
  <1>2. Release(fl, r.base, r.len) = Coalesce(Inserted(fl, r))
    BY <1>1, Zenon DEF Release
  <1> QED BY <1>2, InsertedSorted, CoalesceTidies, Zenon

-----------------------------------------------------------------------------
(* IndexPool keeps its promise *)

Idx == FreeIndices(free)
Blocks == {<<r.base, r.len>> : r \in live}
PInv == Pool!PTypeOK /\ Pool!Disjoint /\ Pool!Conserved

LEMMA InitPInv ==
  ASSUME Pool!PInit
  PROVE  PInv
  <1>1. Idx = 0 .. (Capacity - 1) /\ Blocks = {} /\ refused = 0
    BY Zenon DEF Pool!PInit, Idx, Blocks
  <1>2. \A b : b \notin Blocks
    BY <1>1, Zenon
  <1> QED BY <1>1, <1>2, AllocatorAssumption
          DEF PInv, Pool!PTypeOK, Pool!Disjoint, Pool!Conserved, Idx, Blocks

LEMMA TakePInv ==
  ASSUME PInv, NEW base \in 0 .. Capacity, NEW count \in 1 .. MaxCount, Pool!Take(base, count)
  PROVE  PInv'
  <1> DEFINE new == <<base, count>>
             B(b) == Pool!Block(b)
  <1>1. /\ B(new) \subseteq Idx
        /\ Idx' = Idx \ B(new)
        /\ Blocks' = Blocks \cup {new}
        /\ refused' = 0
    BY Zenon DEF Pool!Take, Pool!Fits, Pool!Block, Idx, Blocks
  <1>2. new \in Nat \X (1 .. MaxCount)
    OBVIOUS
  <1>p. /\ Idx \subseteq 0 .. (Capacity - 1)
        /\ Blocks \subseteq (Nat \X (1 .. MaxCount))
        /\ \A b \in Blocks : B(b) \subseteq 0 .. (Capacity - 1)
        /\ \A b \in Blocks : B(b) \cap Idx = {}
        /\ \A a, b \in Blocks : a # b => B(a) \cap B(b) = {}
        /\ \A i \in 0 .. (Capacity - 1) : i \in Idx \/ \E b \in Blocks : i \in B(b)
    BY Zenon DEF PInv, Pool!PTypeOK, Pool!Disjoint, Pool!Conserved, Idx, Blocks
  <1> HIDE DEF new, B
  <1>3. /\ Idx' \subseteq 0 .. (Capacity - 1)
        /\ Blocks' \subseteq (Nat \X (1 .. MaxCount))
        /\ \A b \in Blocks' : B(b) \subseteq 0 .. (Capacity - 1)
    BY <1>1, <1>2, <1>p, Zenon
  <1>4. refused' \in 0 .. MaxCount
    BY <1>1, AllocatorAssumption
  <1>5. \A b \in Blocks' : B(b) \cap Idx' = {}
    BY <1>1, <1>p, Zenon
  <1>6. \A a, b \in Blocks' : a # b => B(a) \cap B(b) = {}
    <2>1. \A b \in Blocks : B(b) \cap B(new) = {} /\ B(new) \cap B(b) = {}
      BY <1>1, <1>p, Zenon
    <2> QED BY <1>1, <1>p, <2>1, Zenon
  <1>7. \A i \in 0 .. (Capacity - 1) : i \in Idx' \/ \E b \in Blocks' : i \in B(b)
    BY <1>1, <1>p, Zenon
  <1> QED BY <1>3, <1>4, <1>5, <1>6, <1>7, Zenon
          DEF PInv, Pool!PTypeOK, Pool!Disjoint, Pool!Conserved, Idx, Blocks, B, Pool!Block

LEMMA ReturnPInv ==
  ASSUME PInv, NEW d \in Blocks, Pool!Return(d)
  PROVE  PInv'
  <1> DEFINE B(b) == Pool!Block(b)
  <1>1. Idx' = Idx \cup B(d) /\ Blocks' = Blocks \ {d} /\ refused' = 0
    BY Zenon DEF Pool!Return, Idx, Blocks
  <1>p. /\ Idx \subseteq 0 .. (Capacity - 1)
        /\ Blocks \subseteq (Nat \X (1 .. MaxCount))
        /\ \A b \in Blocks : B(b) \subseteq 0 .. (Capacity - 1)
        /\ \A b \in Blocks : B(b) \cap Idx = {}
        /\ \A a, b \in Blocks : a # b => B(a) \cap B(b) = {}
        /\ \A i \in 0 .. (Capacity - 1) : i \in Idx \/ \E b \in Blocks : i \in B(b)
    BY Zenon DEF PInv, Pool!PTypeOK, Pool!Disjoint, Pool!Conserved, Idx, Blocks
  <1> HIDE DEF B
  <1>2. /\ Idx' \subseteq 0 .. (Capacity - 1)
        /\ Blocks' \subseteq (Nat \X (1 .. MaxCount))
        /\ \A b \in Blocks' : B(b) \subseteq 0 .. (Capacity - 1)
    BY <1>1, <1>p, Zenon
  <1>3. refused' \in 0 .. MaxCount
    BY <1>1, AllocatorAssumption
  <1>4. \A b \in Blocks' : B(b) \cap Idx' = {}
    BY <1>1, <1>p, Zenon
  <1>5. \A a, b \in Blocks' : a # b => B(a) \cap B(b) = {}
    BY <1>1, <1>p, Zenon
  <1>6. \A i \in 0 .. (Capacity - 1) : i \in Idx' \/ \E b \in Blocks' : i \in B(b)
    BY <1>1, <1>p, Zenon
  <1> QED BY <1>2, <1>3, <1>4, <1>5, <1>6, Zenon
          DEF PInv, Pool!PTypeOK, Pool!Disjoint, Pool!Conserved, Idx, Blocks, B, Pool!Block

LEMMA PoolKeeps ==
  ASSUME PInv, [Pool!PNext]_<<Idx, Blocks, refused>>
  PROVE  PInv'
  <1>1. CASE UNCHANGED <<Idx, Blocks, refused>>
    BY <1>1, Zenon DEF PInv, Pool!PTypeOK, Pool!Disjoint, Pool!Conserved, Idx, Blocks
  <1>2. ASSUME NEW count \in 1 .. MaxCount, Pool!Refuse(count) PROVE PInv'
    <2>1. Idx' = Idx /\ Blocks' = Blocks /\ refused' \in 0 .. MaxCount
      BY <1>2, AllocatorAssumption DEF Pool!Refuse, Idx, Blocks
    <2> QED BY <2>1, Zenon DEF PInv, Pool!PTypeOK, Pool!Disjoint, Pool!Conserved, Idx, Blocks
  <1> QED BY <1>1, <1>2, TakePInv, ReturnPInv, Zenon DEF Pool!PNext, Idx, Blocks

\* The promise a rule map's allocator makes to update_policy, for every size of
\* map and of policy: indices are neither shared between sandboxes nor lost.
THEOREM PoolKeepsPromise == Pool!PSpec => [](Pool!Disjoint /\ Pool!Conserved)
  <1>1. Pool!PInit => PInv
    BY InitPInv, Zenon
  <1>2. PInv /\ [Pool!PNext]_<<FreeIndices(free), Blocks, refused>> => PInv'
    BY PoolKeeps, Zenon DEF Idx
  <1>3. PInv => Pool!Disjoint /\ Pool!Conserved
    BY Zenon DEF PInv
  <1> QED BY <1>1, <1>2, <1>3, PTL DEF Pool!PSpec, Blocks

-----------------------------------------------------------------------------
(* RuleAllocator implements IndexPool *)

AInv == Tidy(free) /\ live \subseteq Ranges /\ PInv

LEMMA InitMaps ==
  ASSUME AInit
  PROVE  Pool!PInit /\ AInv
  <1>1. Capacity \in Nat /\ Capacity > 0
    BY AllocatorAssumption
  <1> DEFINE r == RuleRange(0, Capacity)
  <1>2. r \in Ranges /\ r.base = 0 /\ r.len = Capacity
    BY <1>1, RangeType, Zenon
  <1>3. free = <<r>> /\ live = {} /\ refused = 0
    BY Zenon DEF AInit, NewAllocator
  <1> HIDE DEF r
  <1>4. free \in Seq(Ranges) /\ Len(free) = 1 /\ free[1] = r /\ DOMAIN free = {1}
    BY <1>2, <1>3
  <1>5. Tidy(free)
    <2>1. \A i, j \in 1 .. Len(free) : ~(i < j)
      BY <1>4
    <2> QED BY <1>4, <2>1, Zenon DEF Tidy
  <1>6. FreeIndices(free) = 0 .. (Capacity - 1)
    <2>1. FreeIndices(free) = Indices(r)
      BY <1>4, Zenon DEF FreeIndices
    <2> QED BY <1>1, <1>2, <2>1 DEF Indices
  <1>7. Pool!PInit
    BY <1>3, <1>6, Zenon DEF Pool!PInit
  <1> QED BY <1>3, <1>5, <1>7, InitPInv, Zenon DEF AInv

LEMMA AllocMaps ==
  ASSUME AInv, NEW count \in 1 .. MaxCount, AllocOk(count)
  PROVE  /\ \E base \in 0 .. Capacity : Pool!Take(base, count)
         /\ Tidy(free)' /\ live' \subseteq Ranges
  <1> DEFINE b == AllocBase(free, count)
             r == RuleRange(b, count)
  <1>c. count \in Nat /\ count > 0 /\ Capacity \in Nat /\ count # 0
    BY AllocatorAssumption
  <1>t. Tidy(free) /\ ~AllocFails(free, count)
    BY Zenon DEF AInv, AllocOk
  <1>1. /\ b \in Nat /\ b .. (b + count - 1) \subseteq FreeIndices(free)
        /\ \A c \in Nat : c < b => ~(c .. (c + count - 1) \subseteq FreeIndices(free))
    BY <1>c, <1>t, AllocTakes, Zenon
  <1>2. /\ free' = AllocRest(free, count)
        /\ live' = live \cup {r} /\ refused' = 0
    BY <1>c, Zenon DEF AllocOk
  <1>3. Tidy(free)' /\ FreeIndices(free)' = FreeIndices(free) \ (b .. (b + count - 1))
    <2>1. Tidy(AllocRest(free, count))
          /\ FreeIndices(AllocRest(free, count)) = FreeIndices(free) \ (b .. (b + count - 1))
      BY <1>c, <1>t, AllocLeaves, Zenon
    <2>2. Tidy(free)' = Tidy(free') /\ FreeIndices(free)' = FreeIndices(free')
      BY Zenon DEF Tidy, FreeIndices
    <2> QED BY <1>2, <2>1, <2>2, Zenon
  <1> HIDE DEF b
  <1>4. r \in Ranges /\ r.base = b /\ r.len = count
    BY <1>c, <1>1, RangeType, Zenon
  <1>5. live' \subseteq Ranges
    BY <1>2, <1>4, Zenon DEF AInv
  <1>6. b \in 0 .. Capacity
    <2>1. b \in b .. (b + count - 1)
      BY <1>c, <1>1
    <2>2. FreeIndices(free) \subseteq 0 .. (Capacity - 1)
      BY Zenon DEF AInv, PInv, Pool!PTypeOK
    <2>3. b \in 0 .. (Capacity - 1)
      BY <1>1, <2>1, <2>2, Zenon
    <2> QED BY <1>c, <2>3
  <1>7. {<<q.base, q.len>> : q \in live}' = {<<q.base, q.len>> : q \in live} \cup {<<b, count>>}
    <2> HIDE DEF r
    <2>1. <<r.base, r.len>> = <<b, count>>
      BY <1>4, Zenon
    <2> QED BY <1>2, <2>1, Zenon
  <1>8. Pool!Block(<<b, count>>) = b .. (b + count - 1)
    BY Zenon DEF Pool!Block
  <1>9. \A c \in 0 .. (b - 1) : ~(c .. (c + count - 1) \subseteq FreeIndices(free))
    BY <1>1
  <1>10. Pool!Take(b, count)
    BY <1>1, <1>2, <1>3, <1>7, <1>8, <1>9, Zenon DEF Pool!Take, Pool!Fits
  <1> QED BY <1>3, <1>5, <1>6, <1>10, Zenon

LEMMA ErrMaps ==
  ASSUME AInv, NEW count \in 1 .. MaxCount, AllocErr(count)
  PROVE  Pool!Refuse(count)
  <1>c. count \in Nat /\ Capacity \in Nat
    BY AllocatorAssumption
  <1>1. \A b \in Nat : ~(b .. (b + count - 1) \subseteq FreeIndices(free))
    BY <1>c, AllocRefuses, Zenon DEF AInv, AllocErr
  <1>2. \A b \in 0 .. Capacity : ~Pool!Fits(b, count)
    BY <1>c, <1>1 DEF Pool!Fits
  <1> QED BY <1>2, Zenon DEF Pool!Refuse, AllocErr

LEMMA ReleaseMaps ==
  ASSUME AInv, NEW r \in live, ReleaseRange(r)
  PROVE  /\ \E b \in Blocks : Pool!Return(b)
         /\ Tidy(free)' /\ live' \subseteq Ranges
  <1> DEFINE b == <<r.base, r.len>>
  <1>r. r \in Ranges /\ b \in Blocks
    BY Zenon DEF AInv, Blocks
  <1>1. Pool!Block(b) = Indices(r)
    BY Zenon DEF Pool!Block, Indices
  <1>2. Indices(r) \cap FreeIndices(free) = {}
    <2>1. \A d \in Blocks : Pool!Block(d) \cap FreeIndices(free) = {}
      BY Zenon DEF AInv, PInv, Pool!Disjoint, Blocks
    <2> QED BY <1>r, <1>1, <2>1, Zenon
  <1>3. free' = Release(free, r.base, r.len) /\ live' = live \ {r} /\ refused' = 0
    BY Zenon DEF ReleaseRange
  <1>4. Tidy(free)' /\ FreeIndices(free)' = FreeIndices(free) \cup Indices(r)
    <2>1. LET u == Release(free, r.base, r.len)
          IN  Tidy(u) /\ FreeIndices(u) = FreeIndices(free) \cup Indices(r)
      BY <1>r, <1>2, ReleaseReturns, Zenon DEF AInv
    <2>2. Tidy(free)' = Tidy(free') /\ FreeIndices(free)' = FreeIndices(free')
      BY Zenon DEF Tidy, FreeIndices
    <2> QED BY <1>3, <2>1, <2>2, Zenon
  <1>5. {<<q.base, q.len>> : q \in live}' = {<<q.base, q.len>> : q \in live} \ {b}
    <2>1. ASSUME NEW q \in live, q # r PROVE <<q.base, q.len>> # b
      <3>1. q \in Ranges /\ r \in Ranges
        BY Zenon DEF AInv
      <3>2. q.base # r.base \/ q.len # r.len
        BY <2>1, <3>1 DEF Ranges
      <3> QED BY <3>2, Zenon
    <2> HIDE DEF b
    <2>2. ASSUME NEW q \in live, <<q.base, q.len>> # b PROVE q # r
      BY <2>2, Zenon DEF b
    <2> QED BY <1>3, <2>1, <2>2, Zenon
  <1> HIDE DEF b
  <1>6. Pool!Return(b)
    BY <1>1, <1>3, <1>4, <1>5, Zenon DEF Pool!Return
  <1> QED BY <1>r, <1>3, <1>4, <1>6, Zenon DEF AInv

LEMMA StepMaps ==
  ASSUME AInv, [ANext]_avars
  PROVE  [Pool!PNext]_<<FreeIndices(free), {<<r.base, r.len>> : r \in live}, refused>> /\ AInv'
  <1> DEFINE M == [Pool!PNext]_<<FreeIndices(free), {<<r.base, r.len>> : r \in live}, refused>>
  <1>1. SUFFICES M /\ Tidy(free)' /\ live' \subseteq Ranges
    BY <1>1, PoolKeeps, Zenon DEF AInv, Idx, Blocks
  <1>2. CASE UNCHANGED avars
    <2>1. free' = free /\ live' = live /\ refused' = refused
      BY <1>2, Zenon DEF avars
    <2> QED BY <2>1, Zenon DEF AInv, Tidy, FreeIndices
  <1>3. CASE AllocOk(0)
    <2>1. free' = free /\ live' = live /\ refused' = refused
      BY <1>3, Zenon DEF AllocOk, AllocRest
    <2> QED BY <2>1, ZenonT(30) DEF AInv, Tidy, FreeIndices
  <1>4. ASSUME NEW count \in 1 .. MaxCount, AllocOk(count)
        PROVE  M /\ Tidy(free)' /\ live' \subseteq Ranges
    BY <1>4, AllocMaps, Zenon DEF Pool!PNext
  <1>5. ASSUME NEW count \in 1 .. MaxCount, AllocErr(count)
        PROVE  M /\ Tidy(free)' /\ live' \subseteq Ranges
    <2>1. free' = free /\ live' = live
      BY <1>5, Zenon DEF AllocErr
    <2>2. M
      BY <1>5, ErrMaps, Zenon DEF Pool!PNext
    <2>3. Tidy(free)' /\ live' \subseteq Ranges
      BY <2>1, Zenon DEF AInv, Tidy
    <2> QED BY <2>2, <2>3, Zenon
  <1>6. ASSUME NEW r \in live, ReleaseRange(r)
        PROVE  M /\ Tidy(free)' /\ live' \subseteq Ranges
    BY <1>6, ReleaseMaps, Zenon DEF Pool!PNext, Blocks
  <1>7. ~AllocErr(0)
    BY DEF AllocErr, AllocFails
  <1>8. \A count \in 0 .. MaxCount : count = 0 \/ count \in 1 .. MaxCount
    BY AllocatorAssumption
  <1> HIDE DEF M
  <1> QED BY <1>2, <1>3, <1>4, <1>5, <1>6, <1>7, <1>8, Zenon DEF ANext

\* RuleAllocator's first fit on a coalesced free list implements the pool of
\* indices: alloc takes the lowest free block and fails only when there is none.
THEOREM AllocatorRefines == ASpec => RefinesPool
  <1>1. AInit => Pool!PInit /\ AInv
    BY InitMaps, Zenon
  <1>2. AInv /\ [ANext]_avars =>
          [Pool!PNext]_<<FreeIndices(free), {<<r.base, r.len>> : r \in live}, refused>> /\ AInv'
    BY StepMaps, Zenon
  <1> QED BY <1>1, <1>2, PTL DEF ASpec, RefinesPool, Pool!PSpec
=============================================================================
