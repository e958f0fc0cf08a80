------------------------------- MODULE Loader -------------------------------
(***************************************************************************)
(* Loading the BPF programs: aivisor-bpf/src/loader.rs and the process-    *)
(* wide handle of aivisor-runtime/src/bpf.rs.  A daemon and a command line *)
(* tool, each a process of its own, load the five objects one map, link    *)
(* and pin at a time, create sandboxes, and may be killed at any step.     *)
(*                                                                         *)
(* What ends with the process: its links, its allocators, its registry.    *)
(* What stays in the kernel: pinned maps, pinned programs, the cgroup      *)
(* attachments, and the tasks of its sandboxes.                            *)
(***************************************************************************)
EXTENDS Integers, Sequences, FiniteSets, Functions

CONSTANTS Processes,  \* programs that construct a SandboxManager
          Cgroups,    \* one per sandbox ever created
          SharedMaps, \* the names of SHARED_MAPS the model tells apart, a sequence
          MaxExits,   \* bound on the number of processes that end
          MaxFaults   \* bound on the number of failing steps

ASSUME LoaderAssumption ==
  /\ SharedMaps \in Seq(Range(SharedMaps)) /\ "sandboxes" \in Range(SharedMaps)
  /\ MaxExits \in Nat /\ MaxFaults \in Nat

VARIABLES
  stage,  \* ENFORCEMENT of each process: "unset", "loading", "opening", "up", "refused"
  at,     \* the next step of each process in LoadOrder
  pins,   \* map name -> the map pinned under PIN_DIR, 0 when there is none
  made,   \* the number of maps created so far
  maps,   \* process -> object -> map name -> the map that object resolved, 0 before
  links,  \* process -> the objects whose LSM programs are attached
  progs,  \* cgroup hook -> the maps of the program pinned under its name, a sequence of at most one
  handle, \* process -> the maps its BpfManager opened
  used,   \* process -> the rule indices its allocator has handed out
  state,  \* sandbox -> "none", "attaching", "live", "stranded", "gone"
  owner,  \* sandbox -> the process that created it, a sequence of at most one
  book,   \* sandbox -> the maps it is registered in
  hooks,  \* sandbox -> cgroup hook -> the maps of the attached program, at most one
  index,  \* sandbox -> its rule index, 0 before the first policy
  slot,   \* rule index -> the sandbox whose rule was written there last
  exits, faults,
  disturbed \* history: the processes whose load met a fault or another load

loadVars == <<stage, at, pins, made, maps, links, progs, handle, used>>
sandboxVars == <<state, owner, book, hooks, index, slot>>
bounds == <<exits, faults, disturbed>>
vars == <<loadVars, sandboxVars, bounds>>

-----------------------------------------------------------------------------
(* load_and_attach *)

Objects == <<"fs", "exec", "net", "priv", "task">>
Hooks == <<"connect4", "connect6">>
Names == Range(SharedMaps)
NoMaps == [m \in Names |-> 0]

\* Per object: resolve every shared map, attach the LSM programs and, for the
\* object that has them, replace the pin of each cgroup program.
ReplacePin(o, h) == <<<<"unpin", o, h>>, <<"pin", o, h>>>>
ObjectSteps(o) ==
  [i \in DOMAIN SharedMaps |-> <<"map", o, SharedMaps[i]>>]
    \o <<<<"attach", o, o>>>>
    \o (IF o = "net" THEN ReplacePin(o, Hooks[1]) \o ReplacePin(o, Hooks[2]) ELSE <<>>)
LoadOrder ==
  ObjectSteps(Objects[1]) \o ObjectSteps(Objects[2]) \o ObjectSteps(Objects[3])
    \o ObjectSteps(Objects[4]) \o ObjectSteps(Objects[5])

\* Mutant: the map of the contexts is left out of the list of shared maps, so every
\* object gets its own.
Resolves_OwnContexts(m) == IF m # "sandboxes" /\ pins[m] # 0 THEN pins[m] ELSE made + 1
\* libbpf opens the map pinned under the name; only without one does it create
\* a map, and pins it.
Resolves(m) == IF pins[m] # 0 THEN pins[m] ELSE made + 1

ResolveMap(p, o, m) ==
  LET id == Resolves(m)
  IN  /\ maps' = [maps EXCEPT ![p][o][m] = id]
      /\ made' = IF id > made THEN id ELSE made
      /\ pins' = IF pins[m] = 0 THEN [pins EXCEPT ![m] = id] ELSE pins
      /\ UNCHANGED <<links, progs>>

AttachLsm(p, o) ==
  /\ links' = [links EXCEPT ![p] = @ \cup {o}]
  /\ UNCHANGED <<maps, made, pins, progs>>

\* Mutant: the pin of an earlier load stays.
StalePinRemoved_Kept(h) == progs
StalePinRemoved(h) == [progs EXCEPT ![h] = <<>>]

RemoveStalePin(h) ==
  /\ progs' = StalePinRemoved(h)
  /\ UNCHANGED <<maps, made, pins, links>>

\* BPF_OBJ_PIN refuses a name that exists.
PinProgram(p, o, h) ==
  /\ progs[h] = <<>>
  /\ progs' = [progs EXCEPT ![h] = <<maps[p][o]>>]
  /\ UNCHANGED <<maps, made, pins, links>>

Loads(p) ==
  LET step == LoadOrder[at[p]]
  IN  /\ stage[p] = "loading"
      /\ \/ step[1] = "map" /\ ResolveMap(p, step[2], step[3])
         \/ step[1] = "attach" /\ AttachLsm(p, step[2])
         \/ step[1] = "unpin" /\ RemoveStalePin(step[3])
         \/ step[1] = "pin" /\ PinProgram(p, step[2], step[3])

Load(p) ==
  /\ Loads(p)
  /\ at' = [at EXCEPT ![p] = @ + 1]
  /\ stage' = IF at[p] = Len(LoadOrder) THEN [stage EXCEPT ![p] = "opening"] ELSE stage
  /\ UNCHANGED <<handle, used, sandboxVars, bounds>>

\* The first SandboxManager::new of the process.
Start(p) ==
  /\ stage[p] = "unset"
  /\ stage' = [stage EXCEPT ![p] = "loading"]
  /\ at' = [at EXCEPT ![p] = 1]
  /\ disturbed' =
       LET others == {q \in Processes \ {p} : stage[q] = "loading"}
       IN  IF others = {} THEN disturbed \ {p} ELSE disturbed \cup others \cup {p}
  /\ UNCHANGED <<pins, made, maps, links, progs, handle, used, sandboxVars, exits, faults>>

\* Any error drops the objects and links collected so far; what is pinned stays.
\* ENFORCEMENT keeps the error, so no later call of this process tries again.
LoadAborts(p) ==
  /\ stage' = [stage EXCEPT ![p] = "refused"]
  /\ maps' = [maps EXCEPT ![p] = [o \in Range(Objects) |-> NoMaps]]
  /\ links' = [links EXCEPT ![p] = {}]
  /\ UNCHANGED <<at, pins, made, progs, handle, used, sandboxVars, exits>>

\* A step of load_and_attach fails: the name of the pin is taken, or the kernel refuses.
LoadFails(p) ==
  /\ stage[p] = "loading"
  /\ LoadAborts(p)
  /\ \/ /\ LoadOrder[at[p]][1] = "pin" /\ progs[LoadOrder[at[p]][3]] # <<>>
        /\ UNCHANGED <<faults, disturbed>>
     \/ /\ faults < MaxFaults
        /\ faults' = faults + 1
        /\ disturbed' = disturbed \cup {p}

\* Mutant: without mem::forget the links end with the closure.
LinksKept_Dropped(p) == {}
LinksKept(p) == links[p]

\* BpfManager::new: the pinned maps, with allocators that start empty.
OpenMaps(p) ==
  /\ stage[p] = "opening"
  /\ links' = [links EXCEPT ![p] = LinksKept(p)]
  /\ \/ /\ \A m \in Names : pins[m] # 0
        /\ stage' = [stage EXCEPT ![p] = "up"]
        /\ handle' = [handle EXCEPT ![p] = pins]
        /\ used' = [used EXCEPT ![p] = {}]
        /\ UNCHANGED <<faults, disturbed>>
     \/ /\ faults < MaxFaults
        /\ faults' = faults + 1
        /\ disturbed' = disturbed \cup {p}
        /\ stage' = [stage EXCEPT ![p] = "refused"]
        /\ UNCHANGED <<handle, used>>
  /\ UNCHANGED <<at, pins, made, maps, progs, sandboxVars, exits>>

\* The process ends without running destructors; a new one may take its place.
\* A sandbox still being created is left behind, empty and registered.
Exit(p) ==
  /\ stage[p] # "unset" /\ exits < MaxExits
  /\ exits' = exits + 1
  /\ stage' = [stage EXCEPT ![p] = "unset"]
  /\ maps' = [maps EXCEPT ![p] = [o \in Range(Objects) |-> NoMaps]]
  /\ links' = [links EXCEPT ![p] = {}]
  /\ used' = [used EXCEPT ![p] = {}]
  /\ owner' = [c \in Cgroups |-> IF owner[c] = <<p>> THEN <<>> ELSE owner[c]]
  /\ state' = [c \in Cgroups |-> IF owner[c] = <<p>> /\ state[c] = "attaching"
                                 THEN "stranded" ELSE state[c]]
  /\ UNCHANGED <<at, pins, made, progs, handle, book, hooks, index, slot, faults, disturbed>>

-----------------------------------------------------------------------------
(* Sandboxes: SandboxManager::create, exec's update_policy and destroy, as far
   as they touch what the loader set up. *)

\* register_sandbox writes the context to the map the manager opened.
Register(p, c) ==
  /\ stage[p] = "up" /\ state[c] = "none"
  /\ state' = [state EXCEPT ![c] = "attaching"]
  /\ owner' = [owner EXCEPT ![c] = <<p>>]
  /\ book' = [book EXCEPT ![c] = handle[p]]
  /\ UNCHANGED <<loadVars, hooks, index, slot, bounds>>

Attached(c) == {h \in Range(Hooks) : hooks[c][h] # <<>>}
NextHook(c) == Hooks[Cardinality(Attached(c)) + 1]

AllAttached(c) == Attached(c) = Range(Hooks)

\* attach_cgroup_program, by the pin of the hook.
AttachHook(c) ==
  /\ state[c] = "attaching" /\ ~AllAttached(c)
  /\ progs[NextHook(c)] # <<>>
  /\ hooks' = [hooks EXCEPT ![c][NextHook(c)] = progs[NextHook(c)]]
  /\ UNCHANGED <<loadVars, state, owner, book, index, slot, bounds>>

Insert(c) ==
  /\ state[c] = "attaching" /\ AllAttached(c)
  /\ state' = [state EXCEPT ![c] = "live"]
  /\ UNCHANGED <<loadVars, owner, book, hooks, index, slot, bounds>>

Removed(c) ==
  /\ state' = [state EXCEPT ![c] = "gone"]
  /\ owner' = [owner EXCEPT ![c] = <<>>]
  /\ hooks' = [hooks EXCEPT ![c] = [h \in Range(Hooks) |-> <<>>]]

\* The pin is missing, between another load's remove and its pin, or the attach
\* fails: the hooks attached so far are dropped and the context deregistered.
AttachFails(c) ==
  /\ state[c] = "attaching" /\ ~AllAttached(c)
  /\ Removed(c)
  /\ \/ progs[NextHook(c)] = <<>> /\ UNCHANGED faults
     \/ faults < MaxFaults /\ faults' = faults + 1
  /\ UNCHANGED <<loadVars, book, index, slot, exits, disturbed>>

\* The first update_policy: the lowest free index of this process's allocator.
Install(c) ==
  /\ state[c] = "live" /\ owner[c] # <<>> /\ index[c] = 0
  /\ LET p == owner[c][1]
         i == CHOOSE j \in DOMAIN slot : /\ j \notin used[p]
                                         /\ \A k \in 1 .. j - 1 : k \in used[p]
     IN  /\ index' = [index EXCEPT ![c] = i]
         /\ slot' = [slot EXCEPT ![i] = <<c>>]
         /\ used' = [used EXCEPT ![p] = @ \cup {i}]
  /\ UNCHANGED <<stage, at, pins, made, maps, links, progs, handle, state, owner, book, hooks, bounds>>

\* A cgroup that cannot be emptied keeps its context, and with it the index.
Destroy(c) ==
  /\ state[c] = "live" /\ owner[c] # <<>>
  /\ Removed(c)
  /\ \/ /\ used' = [used EXCEPT ![owner[c][1]] = @ \ {index[c]}]
        /\ index' = [index EXCEPT ![c] = 0]
        /\ UNCHANGED faults
     \/ /\ faults < MaxFaults /\ faults' = faults + 1
        /\ UNCHANGED <<used, index>>
  /\ UNCHANGED <<stage, at, pins, made, maps, links, progs, handle, book, slot, exits, disturbed>>

-----------------------------------------------------------------------------

Init ==
  /\ stage = [p \in Processes |-> "unset"]
  /\ at = [p \in Processes |-> 1]
  /\ pins = NoMaps /\ made = 0
  /\ maps = [p \in Processes |-> [o \in Range(Objects) |-> NoMaps]]
  /\ links = [p \in Processes |-> {}]
  /\ progs = [h \in Range(Hooks) |-> <<>>]
  /\ handle = [p \in Processes |-> NoMaps]
  /\ used = [p \in Processes |-> {}]
  /\ state = [c \in Cgroups |-> "none"]
  /\ owner = [c \in Cgroups |-> <<>>]
  /\ book = [c \in Cgroups |-> NoMaps]
  /\ hooks = [c \in Cgroups |-> [h \in Range(Hooks) |-> <<>>]]
  /\ index = [c \in Cgroups |-> 0]
  /\ slot = [i \in 1 .. Cardinality(Cgroups) |-> <<>>]
  /\ exits = 0 /\ faults = 0 /\ disturbed = {}

Next ==
  \/ \E p \in Processes :
       \/ Start(p) \/ Load(p) \/ LoadFails(p) \/ OpenMaps(p) \/ Exit(p)
       \/ \E c \in Cgroups : Register(p, c)
  \/ \E c \in Cgroups : AttachHook(c) \/ Insert(c) \/ AttachFails(c) \/ Install(c) \/ Destroy(c)

Spec == Init /\ [][Next]_vars

-----------------------------------------------------------------------------
(* Properties *)

\* load_and_attach sets the pin path before the load so that "the five objects
\* share state": a sandbox, also one that outlived its manager, is registered in
\* the very maps consulted by every attached LSM program of every process and by
\* both of its cgroup hooks, whatever loads crashed, failed or ran at once.
ProgramsSeeSandbox ==
  \A c \in Cgroups : state[c] = "live" =>
    /\ \A p \in Processes : \A o \in links[p] : maps[p][o] = book[c]
    /\ \A h \in Range(Hooks) : hooks[c][h] = <<book[c]>>

\* enforcement() "fails closed": a process that manages a sandbox has the programs
\* of all five objects attached for as long as it lives.
EnforcedWhileManaged ==
  \A c \in Cgroups, p \in Processes :
    owner[c] = <<p>> => stage[p] = "up" /\ links[p] = Range(Objects)

\* A load that met no failing step and ran beside no other load is never refused,
\* whatever pins killed or failed loads left behind: ENFORCEMENT caches a refusal
\* for the life of the process, so a stale pin would disable it for good.
CleanLoadSucceeds ==
  \A p \in Processes : stage[p] = "refused" => p \in disturbed

\* bpf.rs loads once because separate managers would hand out "overlapping index
\* ranges in the same shared kernel maps - so one sandbox would enforce another's
\* rules": the rule a live sandbox's context points at is its own.
OwnRules ==
  \A c \in Cgroups : state[c] = "live" /\ index[c] # 0 => slot[index[c]] = <<c>>
=============================================================================
