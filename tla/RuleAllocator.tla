---------------------------- MODULE RuleAllocator ----------------------------
(***************************************************************************)
(* RuleAllocator (aivisor-bpf maps.rs) as a state machine: clients alloc   *)
(* ranges of up to MaxCount indices of one rule map and release them in    *)
(* any order.  Shown to implement IndexPool.                               *)
(***************************************************************************)
EXTENDS RuleRanges

CONSTANTS
  Capacity,   \* max_entries of the rule map
  MaxCount    \* the largest range a client asks for

ASSUME AllocatorAssumption == Capacity \in Nat \ {0} /\ MaxCount \in 1 .. Capacity

VARIABLES
  free,      \* RuleAllocator.free
  live,      \* the non-empty ranges the clients hold
  refused    \* the count whose alloc returned Err last, or 0

avars == <<free, live, refused>>

AInit ==
  /\ free = NewAllocator(Capacity)
  /\ live = {}
  /\ refused = 0

AllocOk(count) ==
  /\ ~AllocFails(free, count)
  /\ live' = live \cup (IF count = 0 THEN {} ELSE {RuleRange(AllocBase(free, count), count)})
  /\ free' = AllocRest(free, count)
  /\ refused' = IF count = 0 THEN refused ELSE 0

AllocErr(count) ==
  /\ AllocFails(free, count)
  /\ refused' = count
  /\ UNCHANGED <<free, live>>

ReleaseRange(r) ==
  /\ free' = Release(free, r.base, r.len)
  /\ live' = live \ {r}
  /\ refused' = 0

ANext ==
  \/ \E count \in 0 .. MaxCount : AllocOk(count) \/ AllocErr(count)
  \/ \E r \in live : ReleaseRange(r)

ASpec == AInit /\ [][ANext]_avars

-----------------------------------------------------------------------------
Pool == INSTANCE IndexPool WITH
  pool <- FreeIndices(free), blocks <- {<<r.base, r.len>> : r \in live}

\* First fit on the coalesced list implements the pool of indices: each alloc
\* takes the lowest free block, and fails only when there is none.
RefinesPool == Pool!PSpec
=============================================================================
