---------------------------- MODULE SettingsSync ----------------------------
(***************************************************************************)
(* Effective settings of one session: src/src/server/controls.rs, the      *)
(* settings part of events.rs, resume in lifecycle.rs, turn/start and the  *)
(* history mutations of extension_requests.rs, and Configuration           *)
(* (src/src/config.rs).                                                    *)
(*                                                                         *)
(* Codex accepts a mutation of the settings first and makes it effective   *)
(* later, which it reports by a full notification, unless nothing changed. *)
(* The session keeps a copy, and remembers a mutation it has asked for     *)
(* until the copy shows it.  One request at a time holds the session's     *)
(* gate; the session's worker applies notifications meanwhile, unless the  *)
(* delivery lock is held.  The answer to a resume covers some settings.    *)
(***************************************************************************)
EXTENDS Integers, Sequences, SequencesExt

CONSTANTS
  Fields,        \* settings: the model, the collaboration mode
  Covered,       \* those an answer to thread/resume contains
  Values,
  MaxSettings,   \* bound: requests
  MaxReported    \* bound: settings notifications and resume answers

ASSUME SettingsAssumption ==
  /\ Covered \subseteq Fields /\ {MaxSettings, MaxReported} \subseteq Nat
  /\ "none" \notin Values

VARIABLES
  asked,       \* requests so far; the last may hold the gate
  phase,       \* what that one is at
  want,        \* what it asks for: a kind, and settings to change
  said,        \* how it ended
  locked,      \* whether it holds the delivery lock
  fence,       \* the position its synchronization waits for
  loop,        \* where in reconcile_settings it is
  woken,       \* whether Session.changed has notified it there
  reply,       \* what the backend has answered it
  open,        \* SessionData.open
  cached,      \* SessionData.configuration.settings
  generation,  \* settings_generation
  pending,     \* pending_settings, with the request it is of
  overlay,     \* settings_overlay
  cutoff,      \* settings_cutoff
  requests,    \* those the backend has not read
  queued,      \* mutations it has accepted, not yet effective
  effective,   \* its settings
  reported,    \* how many notifications and answers with settings it has printed
  updates,     \* settings notifications on their way
  refused,     \* history: requests refused after their time was up
  uncertain    \* history: a revert or resume ended without its notifications

requestVars == <<asked, want>>
lockVars    == <<locked, fence>>
loopVars    == <<loop, woken>>
sessionVars == <<open, cached, generation, overlay, cutoff>>
backendVars == <<queued, effective, reported, updates>>
settingsVars ==
  <<requestVars, phase, said, lockVars, loopVars, reply, sessionVars, pending, requests,
    backendVars, refused, uncertain>>

Unset == "none"

\* What a request changes: one setting, or nothing.
NoPatch == [f \in {} |-> Unset]
Patches == {NoPatch} \union UNION {[{f} -> Values] : f \in Fields}
Mutations == {"set_config", "update", "turn"}
Operations == Mutations \union {"resume", "revert"}
Settings == [Fields -> Values]
Nothing == [generation |-> 0, patch |-> NoPatch, by |-> 0]
Says(what) == [what |-> what, at |-> 0, settings |-> NoPatch]

\* Mutations the backend has not made effective yet.
Outstanding == ToSet(requests) \union ToSet(queued)

SettingsTypeOK ==
  /\ asked \in 0 .. MaxSettings
  /\ phase \in {"idle", "before", "decide", "record", "asked", "after", "fence", "lock",
                "last"}
  /\ want \in [kind : Operations \union {Unset}, patch : Patches]
  /\ said \in {Unset, "ok", "noop", "error"}
  /\ locked \in BOOLEAN /\ fence \in 0 .. reported
  /\ loop \in {Unset, "looking", "looked", "waiting"} /\ woken \in BOOLEAN
  /\ \/ reply \in {Says(Unset), Says("accepted"), Says("refused")}
     \/ reply \in [what : {"resumed"}, at : 1 .. reported, settings : Settings]
  /\ open \in BOOLEAN
  /\ cached \in [Fields -> Values \union {Unset}]
  /\ generation \in Nat
  /\ pending \in [generation : Nat, patch : Patches, by : 0 .. asked]
  /\ overlay \in [Covered -> Values]
  /\ cutoff \in 0 .. reported
  /\ {requests, queued} \subseteq Seq([by : Nat, kind : Operations, patch : Patches])
  /\ \A m \in Outstanding : m.by \in 1 .. asked
  /\ effective \in Settings
  /\ reported \in 0 .. MaxReported
  /\ updates \in Seq([at : Nat, settings : Settings])
  /\ \A k \in DOMAIN updates : updates[k].at \in 1 .. reported
  /\ refused \subseteq 1 .. asked
  /\ uncertain \in BOOLEAN

\* A session as session/new leaves it: what the answer covered is known.
SettingsInit ==
  /\ asked = 0 /\ phase = "idle" /\ said = Unset
  /\ want = [kind |-> Unset, patch |-> NoPatch]
  /\ locked = FALSE /\ fence = 0 /\ loop = Unset /\ woken = FALSE /\ reply = Says(Unset)
  /\ open = TRUE
  /\ effective \in Settings
  /\ cached = [f \in Fields |-> IF f \in Covered THEN effective[f] ELSE Unset]
  /\ generation = 0 /\ pending = Nothing
  /\ overlay = [f \in Covered |-> effective[f]] /\ cutoff = 0
  /\ requests = <<>> /\ queued = <<>> /\ reported = 0
  /\ updates = <<>> /\ refused = {} /\ uncertain = FALSE

----------------------------------------------------------------------------
(* Configuration: settings_match, which is_settings_noop and set_config use too *)

Matches(settings, patch) == \A f \in DOMAIN patch : settings[f] = patch[f]

Over(settings, patch) ==
  [f \in DOMAIN settings |-> IF f \in DOMAIN patch THEN patch[f] ELSE settings[f]]

----------------------------------------------------------------------------
(* The way of a request *)

Moves(from, to) == phase = from /\ phase' = to

\* It answers and lets go of its locks.
Returns(how) ==
  /\ phase' = "idle" /\ said' = how
  /\ want' = [kind |-> Unset, patch |-> NoPatch] /\ UNCHANGED asked
  /\ locked' = FALSE /\ fence' = 0 /\ loop' = Unset /\ woken' = FALSE

\* A request gets the gate.  All but a resume are refused in a session that is closed.
Begins(kind, patch) ==
  /\ asked < MaxSettings /\ asked' = asked + 1 /\ said' = Unset
  /\ kind = "resume" \/ open
  /\ (patch = NoPatch) = (kind \in {"resume", "revert"}) \/ kind = "turn"
  /\ Moves("idle", IF kind \in Mutations THEN "before" ELSE "fence")
  /\ want' = [kind |-> kind, patch |-> patch]
  /\ fence' = IF kind \in Mutations THEN 0 ELSE reported
  /\ UNCHANGED <<locked, loopVars, reply, sessionVars, pending, requests, backendVars,
                 refused, uncertain>>

\* synchronize_session: what was printed before has been delivered.
Synced == \A k \in DOMAIN updates : updates[k].at > fence

PassSync ==
  /\ Synced
  /\ \/ /\ Moves("fence", IF want.kind = "resume" THEN "lock" ELSE "before")
        /\ fence' = 0 /\ UNCHANGED <<requestVars, said, locked, loopVars>>
     \/ phase = "last" /\ Returns("ok")
  /\ UNCHANGED <<reply, sessionVars, pending, requests, backendVars, refused, uncertain>>

\* It takes too long.
SyncTimesOut ==
  /\ phase \in {"fence", "last"} /\ Returns("error")
  /\ uncertain' = (uncertain \/ phase = "last")
  /\ UNCHANGED <<reply, sessionVars, pending, requests, backendVars, refused>>

\* reconcile_settings, before and after the call to the backend.
Reconciles == phase \in {"before", "after"}

Reconciled ==
  \/ phase = "after" /\ Returns("ok")
  \/ /\ phase = "before"
     /\ phase' = CASE want.kind = "set_config" -> "decide"
                  [] want.kind = "revert" -> "lock"
                  [] OTHER -> "record"
     /\ loop' = Unset /\ woken' = FALSE
     /\ UNCHANGED <<requestVars, said, lockVars>>

Shown == generation > pending.generation /\ Matches(cached, pending.patch)

\* Nothing is pending, or Notified::enable registers for what comes from here on.
Enable ==
  /\ Reconciles /\ loop = Unset
  /\ \/ pending = Nothing /\ Reconciled
     \/ /\ pending # Nothing /\ loop' = "looking"
        /\ UNCHANGED <<requestVars, phase, said, lockVars, woken>>
  /\ UNCHANGED <<reply, sessionVars, pending, requests, backendVars, refused, uncertain>>

Look ==
  /\ Reconciles /\ loop = "looking"
  /\ \/ Shown /\ pending' = Nothing /\ Reconciled
     \/ /\ ~Shown /\ loop' = "looked"
        /\ UNCHANGED <<requestVars, phase, said, lockVars, woken, pending>>
  /\ UNCHANGED <<reply, sessionVars, requests, backendVars, refused, uncertain>>

\* The connection is not down, so it waits.
Wait ==
  /\ loop = "looked" /\ loop' = "waiting"
  /\ UNCHANGED <<requestVars, phase, said, lockVars, woken, reply, sessionVars, pending,
                 requests, backendVars, refused, uncertain>>

Wake ==
  /\ loop = "waiting" /\ woken /\ loop' = "looking" /\ woken' = FALSE
  /\ UNCHANGED <<requestVars, phase, said, lockVars, reply, sessionVars, pending,
                 requests, backendVars, refused, uncertain>>

\* Its time is up, or the connection is down; the mutation stays pending.
ReconcileFails ==
  /\ loop # Unset /\ Returns("error")
  /\ UNCHANGED <<reply, sessionVars, pending, requests, backendVars, refused, uncertain>>

\* set_config answers at once if the option has that value.
Decide ==
  /\ \/ phase = "decide" /\ Matches(cached, want.patch) /\ Returns("noop")
     \/ /\ Moves("decide", "record") /\ ~Matches(cached, want.patch)
        /\ UNCHANGED <<requestVars, said, lockVars, loopVars>>
  /\ UNCHANGED <<reply, sessionVars, pending, requests, backendVars, refused, uncertain>>

\* record_settings_change: Codex does not report what it does not change.
Recorded ==
  IF Matches(cached, want.patch) THEN pending
  ELSE [generation |-> generation, patch |-> want.patch, by |-> asked]

Sent == [by |-> asked, kind |-> want.kind, patch |-> want.patch]

Record ==
  /\ Moves("record", "asked")
  /\ pending' = Recorded /\ requests' = Append(requests, Sent)
  /\ UNCHANGED <<requestVars, said, lockVars, loopVars, reply, sessionVars, backendVars,
                 refused, uncertain>>

\* A resume or a revert, with the delivery lock.  A resume detaches the thread first.
AskLocked ==
  /\ Moves("lock", "asked") /\ locked' = TRUE
  /\ open' = (open /\ want.kind # "resume")
  /\ requests' = Append(requests, Sent)
  /\ UNCHANGED <<requestVars, said, fence, loopVars, reply, cached, generation, overlay,
                 cutoff, pending, backendVars, refused, uncertain>>

----------------------------------------------------------------------------
(* The answer *)

\* Mutant: whatever failed is not waited for any longer.
GivenUp == want.kind \in Mutations
\* A refused mutation will not become effective; one without an answer may.
Refused == reply.what = "refused" /\ want.kind \in Mutations

\* An error, or no answer in time.
AnswerFails ==
  /\ phase = "asked" /\ reply.what \in {Unset, "refused"}
  /\ reply' = Says(Unset) /\ Returns("error")
  /\ pending' = IF Refused THEN Nothing ELSE pending
  /\ uncertain' = (uncertain \/ (want.kind = "revert" /\ reply.what = Unset))
  /\ UNCHANGED <<sessionVars, requests, backendVars, refused>>

Accepted ==
  /\ reply.what = "accepted" /\ want.kind \in Mutations
  /\ Moves("asked", "after") /\ reply' = Says(Unset)
  /\ UNCHANGED <<requestVars, said, lockVars, loopVars, sessionVars, pending, requests,
                 backendVars, refused, uncertain>>

Reverted ==
  /\ reply.what = "accepted" /\ want.kind = "revert"
  /\ Moves("asked", "last") /\ reply' = Says(Unset)
  /\ locked' = FALSE /\ fence' = reported
  /\ UNCHANGED <<requestVars, said, loopVars, sessionVars, pending, requests, backendVars,
                 refused, uncertain>>

Resumed ==
  /\ reply.what = "resumed"
  /\ Moves("asked", "last") /\ reply' = Says(Unset)
  /\ locked' = FALSE /\ fence' = reported
  /\ open' = TRUE
  /\ overlay' = [f \in Covered |-> reply.settings[f]]
  /\ cached' = Over(cached, overlay')   \* what it does not cover stays as observed
  /\ cutoff' = reply.at
  /\ pending' = Nothing
  /\ UNCHANGED <<requestVars, said, loopVars, generation, requests, backendVars, refused,
                 uncertain>>

----------------------------------------------------------------------------
(* The session's worker: thread/settings/updated *)

\* Mutant: a notification from before the answer replaces what the answer said.
ObservedAll(e) == e.settings
Observed(e) == IF e.at <= cutoff THEN Over(e.settings, overlay) ELSE e.settings

\* Mutant: only one that waits is told, not one that is about to.
HearsLate == loop = "waiting"
Hears == loop # Unset

Deliver ==
  /\ updates # <<>> /\ ~locked
  /\ updates' = Tail(updates)
  /\ cached' = Observed(Head(updates)) /\ generation' = generation + 1
  /\ woken' = (woken \/ Hears)
  /\ UNCHANGED <<requestVars, phase, said, lockVars, loop, reply, open, overlay, cutoff,
                 pending, requests, queued, effective, reported, refused, uncertain>>

----------------------------------------------------------------------------
(* Codex *)

\* It reads the next request and answers; a late answer finds nobody.
Reads(kinds, answer) ==
  /\ requests # <<>> /\ Head(requests).kind \in kinds /\ requests' = Tail(requests)
  /\ reply' = IF Head(requests).by = asked /\ phase = "asked" THEN answer ELSE reply

\* What becomes effective is reported if it changes anything.
Applies(settings) ==
  /\ effective' = settings
  /\ \/ settings = effective /\ UNCHANGED <<reported, updates>>
     \/ /\ settings # effective /\ reported < MaxReported /\ reported' = reported + 1
        /\ updates' = Append(updates, [at |-> reported + 1, settings |-> settings])

BackendRefuses ==
  /\ Reads(Operations, Says("refused"))
  /\ refused' = refused \union IF reply' = reply THEN {Head(requests).by} ELSE {}
  /\ UNCHANGED <<requestVars, phase, said, lockVars, loopVars, sessionVars, pending,
                 backendVars, uncertain>>

BackendAccepts ==
  /\ Reads(Mutations, Says("accepted"))
  /\ queued' = Append(queued, Head(requests))
  /\ UNCHANGED <<requestVars, phase, said, lockVars, loopVars, sessionVars, pending,
                 effective, reported, updates, refused, uncertain>>

BackendApplies ==
  /\ queued # <<>> /\ queued' = Tail(queued)
  /\ Applies(Over(effective, Head(queued).patch))
  /\ UNCHANGED <<requestVars, phase, said, lockVars, loopVars, reply, sessionVars,
                 pending, requests, refused, uncertain>>

\* A revert may restore settings.
BackendReverts(patch) ==
  /\ Reads({"revert"}, Says("accepted")) /\ queued = <<>>
  /\ Applies(Over(effective, patch))
  /\ UNCHANGED <<requestVars, phase, said, lockVars, loopVars, sessionVars, pending,
                 queued, refused, uncertain>>

\* A resume may change what its answer covers, without a notification.
BackendResumes(settings) ==
  /\ queued = <<>> /\ reported < MaxReported
  /\ \A f \in Fields \ Covered : settings[f] = effective[f]
  /\ Reads({"resume"}, [what |-> "resumed", at |-> reported + 1, settings |-> settings])
  /\ effective' = settings /\ reported' = reported + 1
  /\ UNCHANGED <<requestVars, phase, said, lockVars, loopVars, sessionVars, pending,
                 queued, updates, refused, uncertain>>

----------------------------------------------------------------------------
SettingsNext ==
  \/ \E kind \in Operations, patch \in Patches : Begins(kind, patch)
  \/ PassSync \/ SyncTimesOut
  \/ Enable \/ Look \/ Wait \/ Wake \/ ReconcileFails
  \/ Decide \/ Record \/ AskLocked
  \/ AnswerFails \/ Accepted \/ Reverted \/ Resumed
  \/ Deliver
  \/ BackendRefuses \/ BackendAccepts \/ BackendApplies
  \/ \E patch \in Patches : BackendReverts(patch)
  \/ \E settings \in Settings : BackendResumes(settings)

SettingsSpec == SettingsInit /\ [][SettingsNext]_settingsVars

----------------------------------------------------------------------------
(* Properties *)

\* A settings call is answered with success, also as nothing to do, only when what it
\* asked for is effective and nothing on its way to the backend or queued there changes it
\* (README: "an acknowledged-but-not-yet-effective backend setting is not treated as a
\* successful local no-op").  Not promised behind a revert or resume whose outcome or
\* notifications the session has not seen.
EffectiveWhenAnswered ==
  [][said' \in {"ok", "noop"} /\ said = Unset /\ want.kind \in Mutations /\ ~uncertain
     => /\ Matches(effective, want.patch)
        /\ \A m \in Outstanding : Matches(Over(want.patch, m.patch), want.patch)]_settingsVars

\* When everything has been delivered, the copy of an open session is what is effective,
\* though notifications and the answers of resumes overtake each other.
CacheSettles ==
  open /\ phase = "idle" /\ Outstanding = {} /\ updates = <<>>
    => \A f \in Fields : cached[f] \in {Unset, effective[f]}

\* Who waits for a mutation to be reported has not missed it and will see it: the request
\* has not been read, the mutation is queued, or a notification that shows it is on its way.
\* Not promised for one refused after its caller gave up, and for a setting the
\* session has never seen, of which Codex may report no change.
WaitHasCause ==
  loop = "waiting" /\ ~woken /\ pending.by \notin refused
    => \/ \E f \in DOMAIN pending.patch : cached[f] = Unset
       \/ \E m \in Outstanding : m.by = pending.by
       \/ \E k \in DOMAIN updates : Matches(updates[k].settings, pending.patch)
=============================================================================
