----------------------------- MODULE Confinement -----------------------------
(***************************************************************************)
(* What layer 5 promises about one manager's sandboxes, with no launch     *)
(* protocol in it.  Every sandbox has a gate.  A payload may start only    *)
(* behind a closed gate and only when it is alone, and the gate may be     *)
(* opened (for the mounts of the next launch, or because the sandbox is    *)
(* gone) only when no payload is behind it.  manager.rs states this twice: *)
(* "One payload at a time" in exec, "the BPF context is removed LAST" in   *)
(* destroy.                                                                *)
(***************************************************************************)
CONSTANTS Sandboxes, Callers

VARIABLES
  gate,      \* "open" or "closed" for each sandbox
  running    \* the payloads behind each gate

gvars == <<gate, running>>

GInit ==
  /\ gate = [s \in Sandboxes |-> "open"]
  /\ running = [s \in Sandboxes |-> {}]

Close(s) ==
  /\ gate' = [gate EXCEPT ![s] = "closed"]
  /\ UNCHANGED running

Open(s) ==
  /\ running[s] = {}
  /\ gate' = [gate EXCEPT ![s] = "open"]
  /\ UNCHANGED running

Start(s, c) ==
  /\ gate[s] = "closed"
  /\ running[s] = {}
  /\ running' = [running EXCEPT ![s] = {c}]
  /\ UNCHANGED gate

Stop(s) ==
  /\ running' = [running EXCEPT ![s] = {}]
  /\ UNCHANGED gate

GNext ==
  \E s \in Sandboxes : Close(s) \/ Open(s) \/ Stop(s) \/ \E c \in Callers : Start(s, c)

GSpec == GInit /\ [][GNext]_gvars
=============================================================================
