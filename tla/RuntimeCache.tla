---------------------------- MODULE RuntimeCache ----------------------------
(***************************************************************************)
(* How an adapter process gets the Codex runtime embedded in it:           *)
(* src/src/backend/runtime_cache.rs (the directory and its lock),          *)
(* embedded.rs (installation) and executable.rs (the check before launch). *)
(*                                                                         *)
(* Adapters of one user share a directory, with a runtime for each version *)
(* of the payload.  Whoever holds the lock looks whether its runtime is    *)
(* there; if not it extracts it file by file beside, verifies it and       *)
(* renames it into place.  Any process may be killed at any point, which   *)
(* releases its lock and leaves what it was extracting.                    *)
(***************************************************************************)
EXTENDS Integers, FiniteSets

CONSTANTS
  Launchers, Versions, VersionOf,
  Files,      \* those of a payload
  Required,   \* the entry point and the helpers
  MaxStarts   \* bound: starts of a process

ASSUME CacheAssumption ==
  /\ "none" \notin Launchers
  /\ VersionOf \in [Launchers -> Versions]
  /\ Required \subseteq Files /\ Required # {} /\ MaxStarts \in Nat

VARIABLES
  at,        \* where each process is
  starts,    \* how often it was started
  lock,      \* who holds .install.lock
  present,   \* versions with a directory in the cache
  content,   \* the sound files of each
  staging,   \* the files each process has extracted
  litter,    \* processes that were killed and left a staging directory
  damaged,   \* history: versions the user has touched since they were installed
  faults     \* history: processes that met a disk error, or waited too long

cacheVars == <<at, starts, lock, present, content, staging, litter, damaged, faults>>

Nobody == "none"
Away == {"new", "running", "failed", "killed"}
Places == Away \union {"waiting", "inspect", "extract", "rename", "check"}

CacheInit ==
  /\ at = [l \in Launchers |-> "new"] /\ starts = [l \in Launchers |-> 0]
  /\ lock = Nobody
  /\ present = {} /\ content = [v \in Versions |-> {}]
  /\ staging = [l \in Launchers |-> {}] /\ litter = {}
  /\ damaged = {} /\ faults = {}

Goes(l, place) == at' = [at EXCEPT ![l] = place]

\* The lock file is closed when install returns, or when the process ends.
Release(l) == lock' = IF lock = l THEN Nobody ELSE lock

\* The payload's digest and manifest are checked before the cache is touched;
\* an executable's own payload is sound.
Launch(l) ==
  /\ at[l] \in {"new", "failed", "killed"} /\ starts[l] < MaxStarts
  /\ starts' = [starts EXCEPT ![l] = @ + 1]
  /\ Goes(l, "waiting")
  /\ faults' = faults \ {l} /\ staging' = [staging EXCEPT ![l] = {}]
  /\ UNCHANGED <<lock, present, content, litter, damaged>>

\* Mutant: whoever polls goes on without the lock.
TryLockAlways(l) ==
  /\ at[l] = "waiting"
  /\ lock' = l /\ Goes(l, "inspect")
  /\ UNCHANGED <<starts, present, content, staging, litter, damaged, faults>>

\* Tried every 50 milliseconds.
TryLock(l) ==
  /\ at[l] = "waiting" /\ lock = Nobody
  /\ lock' = l /\ Goes(l, "inspect")
  /\ UNCHANGED <<starts, present, content, staging, litter, damaged, faults>>

\* Two minutes are over.
LockTimesOut(l) ==
  /\ at[l] = "waiting" /\ lock # Nobody
  /\ Goes(l, "failed") /\ faults' = faults \union {l}
  /\ UNCHANGED <<starts, lock, present, content, staging, litter, damaged>>

\* Mutant: the executables are enough.
VerifiedAny(files) == Required \subseteq files
Verified(files) == files = Files

\* Mutant: a process that finds a damaged runtime waits for its repair.
InspectAgain(l) ==
  LET v == VersionOf[l]
  IN /\ at[l] = "inspect"
     /\ \/ v \in present /\ Verified(content[v]) /\ Goes(l, "check") /\ Release(l)
        \/ v \in present /\ ~Verified(content[v]) /\ Goes(l, "waiting") /\ Release(l)
        \/ v \notin present /\ Goes(l, "extract") /\ UNCHANGED lock
     /\ UNCHANGED <<starts, present, content, staging, litter, damaged, faults>>

\* A runtime that is there is verified, and never repaired.
Inspect(l) ==
  LET v == VersionOf[l]
  IN /\ at[l] = "inspect"
     /\ \/ v \in present /\ Verified(content[v]) /\ Goes(l, "check") /\ Release(l)
        \/ v \in present /\ ~Verified(content[v]) /\ Goes(l, "failed") /\ Release(l)
        \/ v \notin present /\ Goes(l, "extract") /\ UNCHANGED lock
     /\ UNCHANGED <<starts, present, content, staging, litter, damaged, faults>>

\* One file is written, given its mode and synced.
Extract(l, f) ==
  /\ at[l] = "extract" /\ f \notin staging[l]
  /\ staging' = [staging EXCEPT ![l] = @ \union {f}]
  /\ UNCHANGED <<at, starts, lock, present, content, litter, damaged, faults>>

\* An error drops the temporary directory.
DiskFails(l) ==
  /\ at[l] \in {"inspect", "extract", "rename"}
  /\ Goes(l, "failed") /\ Release(l)
  /\ staging' = [staging EXCEPT ![l] = {}] /\ faults' = faults \union {l}
  /\ UNCHANGED <<starts, present, content, litter, damaged>>

Verify(l) ==
  /\ at[l] = "extract" /\ Verified(staging[l])
  /\ Goes(l, "rename")
  /\ UNCHANGED <<starts, lock, present, content, staging, litter, damaged, faults>>

\* A directory is not renamed over another that has files in it.
Rename(l) ==
  LET v == VersionOf[l]
  IN /\ at[l] = "rename" /\ staging' = [staging EXCEPT ![l] = {}] /\ Release(l)
     /\ \/ /\ v \notin present
           /\ present' = present \union {v} /\ content' = [content EXCEPT ![v] = staging[l]]
           /\ damaged' = damaged \ {v} /\ Goes(l, "check")
        \/ /\ v \in present /\ Goes(l, "failed")
           /\ UNCHANGED <<present, content, damaged>>
     /\ UNCHANGED <<starts, litter, faults>>

\* Outside the lock: every executable is there and not empty.
ValidatePackage(l) ==
  LET v == VersionOf[l]
  IN /\ at[l] = "check"
     /\ \/ v \in present /\ Required \subseteq content[v] /\ Goes(l, "running")
        \/ ~(v \in present /\ Required \subseteq content[v]) /\ Goes(l, "failed")
     /\ UNCHANGED <<starts, lock, present, content, staging, litter, damaged, faults>>

\* The process is killed, or its backend has ended.
Kill(l) ==
  /\ at[l] \notin {"new", "failed", "killed"}
  /\ Goes(l, "killed") /\ Release(l)
  /\ litter' = IF at[l] \in {"extract", "rename"} THEN litter \union {l} ELSE litter
  /\ UNCHANGED <<starts, present, content, staging, damaged, faults>>

\* The user spoils a file, and removes a directory of which an error told.
Spoil(v, f) ==
  /\ v \in present /\ f \in content[v]
  /\ content' = [content EXCEPT ![v] = @ \ {f}] /\ damaged' = damaged \union {v}
  /\ UNCHANGED <<at, starts, lock, present, staging, litter, faults>>

Clean(v) ==
  /\ v \in present /\ v \in damaged
  /\ present' = present \ {v} /\ content' = [content EXCEPT ![v] = {}]
  /\ UNCHANGED <<at, starts, lock, staging, litter, damaged, faults>>

Installs(l) ==
  \/ TryLock(l) \/ Inspect(l) \/ Verify(l) \/ Rename(l) \/ ValidatePackage(l)
  \/ \E f \in Files : Extract(l, f)

CacheNext ==
  \/ \E l \in Launchers : Launch(l) \/ Installs(l) \/ LockTimesOut(l) \/ DiskFails(l) \/ Kill(l)
  \/ \E v \in Versions : Clean(v) \/ \E f \in Files : Spoil(v, f)

CacheSpec == CacheInit /\ [][CacheNext]_cacheVars

\* A process that is not killed goes on, and polls for the lock until it is
\* free or the deadline has passed.
CacheFairness == \A l \in Launchers : WF_cacheVars(Installs(l)) /\ WF_cacheVars(TryLock(l) \/ LockTimesOut(l))

FairCacheSpec == CacheSpec /\ CacheFairness

-----------------------------------------------------------------------------
\* Every variable has the type of what it stands for.
CacheTypeOK ==
  /\ at \in [Launchers -> Places]
  /\ starts \in [Launchers -> 0..MaxStarts]
  /\ lock \in Launchers \union {Nobody}
  /\ present \subseteq Versions /\ damaged \subseteq Versions
  /\ content \in [Versions -> SUBSET Files] /\ staging \in [Launchers -> SUBSET Files]
  /\ litter \subseteq Launchers /\ faults \subseteq Launchers

\* The processes that share the cache behave as one store in which a runtime
\* appears whole, changes by the user's hand only, and is run only after it was
\* seen whole (README.md:81-86, embedded_tests.rs:32), whoever is killed when.
Store == INSTANCE RuntimeStore WITH
  store   <- [v \in Versions |-> IF v \notin present THEN "absent"
                                 ELSE IF content[v] = Files THEN "whole" ELSE "damaged"],
  seen    <- {l \in Launchers : at[l] \in {"check", "running"}},
  started <- {l \in Launchers : at[l] = "running"}

StoreSpec == Store!Spec

\* A launch fails for a reason only: it met a disk error or waited too long, or
\* the user touched the runtime.  Concurrent launches never fail each other.
FailsForCause ==
  [][\A l \in Launchers : at[l] # "failed" /\ at'[l] = "failed"
       => l \in faults' \/ VersionOf[l] \in damaged]_cacheVars

\* Whoever waits, extracts or checks comes to an end, killed holders included.
LaunchEnds == \A l \in Launchers : at[l] \notin Away ~> at[l] \in Away
=============================================================================
