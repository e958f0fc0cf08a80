----------------------------- MODULE RuleRanges -----------------------------
(***************************************************************************)
(* The free list of RuleAllocator (aivisor-bpf maps.rs): a sequence of     *)
(* [base, len] ranges of indices of one BPF rule map, sorted by base and   *)
(* coalesced.  alloc is first fit; release merges neighbours.              *)
(***************************************************************************)
EXTENDS Integers, Sequences, FiniteSets, FiniteSetsExt

RuleRange(base, len) == [base |-> base, len |-> len]
Indices(r) == r.base .. (r.base + r.len - 1)
FreeIndices(free) == UNION {Indices(free[i]) : i \in DOMAIN free}

NewAllocator(capacity) == <<RuleRange(0, capacity)>>

\* The ranges that are long enough; alloc takes the first.
Fitting(free, count) == {i \in DOMAIN free : free[i].len >= count}
Position(free, count) == Min(Fitting(free, count))
AllocFails(free, count) == count > 0 /\ Fitting(free, count) = {}

\* alloc: the base handed out...
AllocBase(free, count) == IF count = 0 THEN 0 ELSE free[Position(free, count)].base

\* ... and the free list it leaves.
AllocRest(free, count) ==
  LET pos == Position(free, count) IN
  IF count = 0 THEN free
  ELSE IF free[pos].len = count THEN SubSeq(free, 1, pos - 1) \o SubSeq(free, pos + 1, Len(free))
  ELSE [free EXCEPT ![pos] = RuleRange(@.base + count, @.len - count)]

\* The range released goes in front of the first one that starts no lower.
Inserted(free, r) ==
  LET pos == Min({i \in 1 .. Len(free) + 1 : i <= Len(free) => free[i].base >= r.base})
  IN  Append(SubSeq(free, 1, pos - 1), r) \o SubSeq(free, pos, Len(free))

\* The merge loop of release: one more range for the list it has done so far.
MergeOne(done, r) ==
  LET n == Len(done) IN
  IF n > 0 /\ done[n].base + done[n].len = r.base
    THEN [done EXCEPT ![n] = RuleRange(@.base, @.len + r.len)]
    ELSE Append(done, r)
Coalesce(ranges) ==
  LET done[n \in 0 .. Len(ranges)] == IF n = 0 THEN <<>> ELSE MergeOne(done[n - 1], ranges[n])
  IN  done[Len(ranges)]

Release_NoMerge(free, base, count) ==
  IF count = 0 THEN free ELSE Inserted(free, RuleRange(base, count))
Release(free, base, count) ==
  IF count = 0 THEN free ELSE Coalesce(Inserted(free, RuleRange(base, count)))

-----------------------------------------------------------------------------
(* Free lists as the allocator keeps them *)

Ranges == [base : Nat, len : Nat \ {0}]

\* Sorted by base, without overlap...
Sorted(fl) ==
  /\ fl \in Seq(Ranges)
  /\ \A i, j \in 1 .. Len(fl) : i < j => fl[i].base + fl[i].len <= fl[j].base

\* ... and with a gap between any two ranges.
Tidy(fl) ==
  /\ fl \in Seq(Ranges)
  /\ \A i, j \in 1 .. Len(fl) : i < j => fl[i].base + fl[i].len < fl[j].base
=============================================================================
