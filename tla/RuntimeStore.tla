---------------------------- MODULE RuntimeStore ----------------------------
(***************************************************************************)
(* What the runtime cache promises to the adapters that share it, with no  *)
(* lock, no staging and no files: the runtime of a version appears whole,  *)
(* in one step; only the user changes or removes it; and an adapter starts *)
(* its backend from a runtime it has seen whole.                           *)
(***************************************************************************)
CONSTANTS
  Launchers,  \* adapter processes
  Versions,   \* digests of embedded payloads
  VersionOf

VARIABLES
  store,   \* of each version: "absent", "whole" or "damaged"
  seen,    \* launchers that have seen their version whole
  started  \* launchers that run their backend

vars == <<store, seen, started>>

Init ==
  /\ store = [v \in Versions |-> "absent"]
  /\ seen = {} /\ started = {}

\* A launcher installs its version.
Install(l) ==
  /\ store[VersionOf[l]] = "absent"
  /\ store' = [store EXCEPT ![VersionOf[l]] = "whole"] /\ seen' = seen \cup {l}
  /\ UNCHANGED started

\* The user.
Damage(v) ==
  /\ store[v] # "absent" /\ store' = [store EXCEPT ![v] = "damaged"]
  /\ UNCHANGED <<seen, started>>

Clear(v) ==
  /\ store[v] # "absent" /\ store' = [store EXCEPT ![v] = "absent"]
  /\ UNCHANGED <<seen, started>>

See(l) ==
  /\ store[VersionOf[l]] = "whole" /\ seen' = seen \cup {l}
  /\ UNCHANGED <<store, started>>

Start(l) ==
  /\ l \in seen /\ store[VersionOf[l]] # "absent" /\ started' = started \cup {l}
  /\ UNCHANGED <<store, seen>>

\* A process that fails or dies forgets what it has seen.
End(l) ==
  /\ seen' = seen \ {l} /\ started' = started \ {l}
  /\ UNCHANGED store

Next ==
  \/ \E v \in Versions : Damage(v) \/ Clear(v)
  \/ \E l \in Launchers : Install(l) \/ See(l) \/ Start(l) \/ End(l)

Spec == Init /\ [][Next]_vars
=============================================================================
