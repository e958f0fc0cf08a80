------------------------------ MODULE WarmPool ------------------------------
(***************************************************************************)
(* The warm pool of aivisord (warmpool.rs): refill() provisions sandboxes  *)
(* outside the pool's mutex while acquire() takes them out, and entries    *)
(* grow too old to be handed out.  The daemon (daemon.rs) starts one       *)
(* refill task.                                                            *)
(*                                                                         *)
(* SandboxManager::create() draws a fresh UUID.  An identifier that is in  *)
(* neither the pool nor a client's hands may stand for a new one here, as  *)
(* nobody can tell the two apart.                                          *)
(***************************************************************************)
EXTENDS Integers, Sequences, Functions

CONSTANTS
  Ids,           \* sandbox ids
  Clients,       \* callers of acquire
  Refillers,     \* tasks running refill
  TargetDepth,   \* WarmPoolInner.target_depth
  MaxCold        \* where the model stops counting cold fallbacks

ASSUME PoolAssumption == TargetDepth \in Nat \ {0} /\ MaxCold \in Nat \ {0}

VARIABLES
  entries,    \* WarmPoolInner.entries: ids in the order they were pushed
  aged,       \* how many entries, from the front, have reached max_age
  cold,       \* cold_fallback_count
  needed,     \* the loop counter of each refill, 0 between refills
  held        \* the ids each client owns

poolVars == <<entries, aged, cold, needed, held>>

PoolInit ==
  /\ entries = <<>>
  /\ aged = 0
  /\ cold = 0
  /\ needed = [r \in Refillers |-> 0]
  /\ held = [k \in Clients |-> {}]

-----------------------------------------------------------------------------
\* refill reads the depth under the lock, and lets go of it.
Missing_All == TargetDepth
Missing == IF Len(entries) < TargetDepth THEN TargetDepth - Len(entries) ELSE 0

RefillBegin(r) ==
  /\ needed[r] = 0
  /\ Missing > 0
  /\ needed' = [needed EXCEPT ![r] = Missing]
  /\ UNCHANGED <<entries, aged, cold, held>>

InUse == Range(entries) \cup UNION {held[k] : k \in Clients}

\* One turn of the loop: create(), then the push.
Provision(r, id) ==
  /\ needed[r] > 0
  /\ id \notin InUse
  /\ entries' = Append(entries, id)
  /\ needed' = [needed EXCEPT ![r] = @ - 1]
  /\ UNCHANGED <<aged, cold, held>>

\* create() fails and refill returns the error; what it has pushed stays.  The
\* task logs it and calls refill again at the next tick.
ProvisionFails_TaskDies(r) ==
  /\ needed[r] > 0
  /\ needed' = [needed EXCEPT ![r] = -1]
  /\ UNCHANGED <<entries, aged, cold, held>>
ProvisionFails(r) ==
  /\ needed[r] > 0
  /\ needed' = [needed EXCEPT ![r] = 0]
  /\ UNCHANGED <<entries, aged, cold, held>>

\* Entries are pushed in the order of their creation, so they age in that order.
GrowOld ==
  /\ aged < Len(entries)
  /\ aged' = aged + 1
  /\ UNCHANGED <<entries, cold, needed, held>>

\* The retain of acquire.
Retained_All == entries
Retained == SubSeq(entries, aged + 1, Len(entries))

\* What pop leaves behind.
Popped_Kept(s) == s
Popped(s) == SubSeq(s, 1, Len(s) - 1)

Acquire(k) ==
  /\ aged' = 0
  /\ IF Retained # <<>>
       THEN /\ entries' = Popped(Retained)
            /\ held' = [held EXCEPT ![k] = @ \cup {Retained[Len(Retained)]}]
            /\ UNCHANGED cold
       ELSE /\ entries' = <<>>
            /\ cold' = IF cold < MaxCold THEN cold + 1 ELSE cold
            /\ UNCHANGED held
  /\ UNCHANGED needed

\* A client is done with a sandbox and destroys it.
Dispose(k, id) ==
  /\ id \in held[k]
  /\ held' = [held EXCEPT ![k] = @ \ {id}]
  /\ UNCHANGED <<entries, aged, cold, needed>>

PoolNext ==
  \/ \E r \in Refillers : RefillBegin(r) \/ ProvisionFails(r) \/ \E id \in Ids : Provision(r, id)
  \/ GrowOld
  \/ \E k \in Clients : Acquire(k) \/ \E id \in Ids : Dispose(k, id)

PoolSpec == PoolInit /\ [][PoolNext]_poolVars

\* The ticker keeps calling refill, create() succeeds every so often, and
\* clients finish with their sandboxes.  Nobody has to acquire.
FairPoolSpec ==
  /\ PoolSpec
  /\ \A r \in Refillers :
       /\ WF_poolVars(RefillBegin(r))
       /\ SF_poolVars(\E id \in Ids : Provision(r, id))
  /\ \A k \in Clients : SF_poolVars(\E id \in Ids : Dispose(k, id))

-----------------------------------------------------------------------------
\* "A pooled sandbox is single-use": no sandbox is in the pool twice, in the pool
\* and in a client's hands, or in the hands of two clients, however acquires
\* interleave with the pushes of a refill.
SingleUse ==
  /\ IsInjective(entries)
  /\ \A k \in Clients : held[k] \cap Range(entries) = {}
  /\ \A j, k \in Clients : j # k => held[j] \cap held[k] = {}

\* refill computes what is missing before it provisions, while the pool changes
\* under it: with one refill task the pool still never exceeds its target.
DepthBounded == Len(entries) <= TargetDepth

\* retain runs before pop, under one lock: an entry that has reached max_age is
\* never handed out, and one that has not is never dropped, it stays in the pool
\* or goes to a client.
OnlyExpiredDropped ==
  [][/\ \A i \in 1 .. aged : \A k \in Clients : entries[i] \notin held'[k]
     /\ \A i \in aged + 1 .. Len(entries) :
          entries[i] \in Range(entries') \cup UNION {held'[k] : k \in Clients}]_poolVars

\* The pool does not stay empty while clients are served: what refill counted
\* before the pool was drained does not stop it from filling it again.
Refills == (entries = <<>>) ~> (entries # <<>>)
=============================================================================
