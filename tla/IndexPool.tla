------------------------------ MODULE IndexPool ------------------------------
(***************************************************************************)
(* What a rule map's allocator promises: a pool of indices from which      *)
(* blocks of consecutive indices are handed out and taken back.  No index  *)
(* is in two blocks, none is lost, and a request is refused only when no   *)
(* block of that size is free.                                             *)
(***************************************************************************)
EXTENDS Integers

CONSTANTS Capacity, MaxCount

VARIABLES
  pool,      \* the free indices
  blocks,    \* the blocks handed out, as <<base, count>> pairs with count > 0
  refused    \* the size of the request refused last, or 0

Block(b) == b[1] .. (b[1] + b[2] - 1)
Fits(base, count) == base .. (base + count - 1) \subseteq pool

PInit ==
  /\ pool = 0 .. (Capacity - 1)
  /\ blocks = {}
  /\ refused = 0

\* The lowest block that fits.
Take(base, count) ==
  /\ Fits(base, count)
  /\ \A b \in 0 .. (base - 1) : ~Fits(b, count)
  /\ pool' = pool \ Block(<<base, count>>)
  /\ blocks' = blocks \cup {<<base, count>>}
  /\ refused' = 0

Refuse(count) ==
  /\ \A b \in 0 .. Capacity : ~Fits(b, count)
  /\ refused' = count
  /\ UNCHANGED <<pool, blocks>>

Return(b) ==
  /\ pool' = pool \cup Block(b)
  /\ blocks' = blocks \ {b}
  /\ refused' = 0

PNext ==
  \/ \E base \in 0 .. Capacity, count \in 1 .. MaxCount : Take(base, count)
  \/ \E count \in 1 .. MaxCount : Refuse(count)
  \/ \E b \in blocks : Return(b)

PSpec == PInit /\ [][PNext]_<<pool, blocks, refused>>

\* Blocks lie within the map, as RuleAllocator::alloc hands them out.
PTypeOK ==
  /\ pool \subseteq 0 .. (Capacity - 1)
  /\ blocks \subseteq (Nat \X (1 .. MaxCount))
  /\ \A b \in blocks : Block(b) \subseteq 0 .. (Capacity - 1)
  /\ refused \in 0 .. MaxCount

\* No index is both free and in a block, or in two blocks: a rule written for
\* one sandbox is never overwritten by the rules of another.
Disjoint ==
  /\ \A b \in blocks : Block(b) \cap pool = {}
  /\ \A a, b \in blocks : a # b => Block(a) \cap Block(b) = {}

\* Every index is free or in a block: churning sandboxes never exhausts the map.
Conserved == \A i \in 0 .. (Capacity - 1) : i \in pool \/ \E b \in blocks : i \in Block(b)
=============================================================================
