-------------------------- MODULE SettingsSyncProofs --------------------------
(***************************************************************************)
(* What SettingsSync promises, proved for any settings, values and limits. *)
(*                                                                         *)
(* A caller is answered by what the session's copy shows, and the copy is  *)
(* behind the backend.  The inductive invariant says how far: each setting *)
(* of the copy is effective or the last notification on its way tells it   *)
(* (Tracks); and there is no notification at all unless the mutation that  *)
(* is pending has become effective (Exact), so that a copy that shows what *)
(* was asked can be believed.                                              *)
(***************************************************************************)
EXTENDS SettingsSync, SequenceTheorems, TLAPS

----------------------------------------------------------------------------
(* The inductive invariant *)

Unread == ToSet(requests)
Unapplied == ToSet(queued)

\* A request and what is pending: set_config and the like wait for an earlier mutation
\* before they ask, and a resume forgets it.
Control ==
  /\ phase = "idle" <=> want.kind = Unset
  /\ phase = "decide" => want.kind = "set_config"
  /\ phase = "before" => want.kind \in Mutations \union {"revert"}
  /\ phase \in {"record", "after"} => want.kind \in Mutations
  /\ phase \in {"fence", "lock", "last"} => want.kind \in {"resume", "revert"}
  /\ want.kind \in {"resume", "revert"} => want.patch = NoPatch
  /\ open \/ phase = "idle" \/ (want.kind = "resume" /\ phase \in {"fence", "lock", "asked"})
  /\ phase = "asked" /\ want.kind = "resume" => ~open
Held ==
  /\ loop # Unset => phase \in {"before", "after"} /\ pending # Nothing
  /\ phase \in {"decide", "record", "last"} => pending = Nothing
  /\ phase \in {"lock", "asked"} /\ want.kind = "revert" => pending = Nothing
  /\ phase \in {"asked", "after"} /\ want.kind \in Mutations /\ pending # Nothing
     => pending.by = asked /\ pending.patch = want.patch
  /\ pending # Nothing => pending.by > 0
  /\ want.kind \in {"resume", "revert"} \/ phase \in {"before", "decide", "record"}
     => pending.by < asked

\* The requests the backend has, in the order they were made.
InOrder(line) == \A j, k \in DOMAIN line : j < k => line[j].by < line[k].by
Ordered ==
  /\ InOrder(requests) /\ InOrder(queued)
  /\ \A q \in Unapplied, r \in Unread : q.by < r.by

\* What they are: of the one that waits for its answer, or given up.
Line ==
  /\ phase \in {"before", "decide", "record", "fence", "lock"}
     => \A m \in Outstanding : m.by < asked
  /\ \A m \in Outstanding : m.kind \in {"resume", "revert"} => m.patch = NoPatch
  /\ \A q \in Unapplied : q.kind \in Mutations
  /\ phase = "asked"
     => \A m \in Outstanding : m.by = asked => m.kind = want.kind /\ m.patch = want.patch
  /\ open => \A m \in Outstanding : m.kind # "resume"
  /\ ~uncertain
     => \A m \in Outstanding : m.kind = "revert" => phase = "asked" /\ m.by = asked
Own ==
  /\ open /\ pending # Nothing => \A m \in Outstanding : m.by <= pending.by
  /\ \A m \in Outstanding :
       m.by = pending.by => m.kind \in Mutations /\ m.patch = pending.patch

\* A request has its answer, or the backend has not read it.
Answered ==
  /\ reply.what # Unset => phase = "asked" /\ requests = <<>>
  /\ phase = "asked" /\ reply.what = Unset => \E m \in Unread : m.by = asked
  /\ reply.what = "resumed" => want.kind = "resume"
  /\ reply.what = "accepted" => want.kind # "resume"
  /\ reply.what = "refused" => \A m \in Outstanding : m.by < asked

\* Behind a revert or a resume nothing changes until its caller has seen it.
Restoring == phase = "last" \/ (reply.what = "accepted" /\ want.kind = "revert")
Still ==
  /\ Restoring \/ reply.what = "resumed" => Outstanding = {}
  /\ phase = "last" => fence = reported
  /\ reply.what = "resumed" => reply.at = reported /\ reply.settings = effective

\* The copy follows what is effective, or the last notification tells it.
Stamped == \A j, k \in DOMAIN updates : j < k => updates[j].at < updates[k].at
Covering == updates = <<>> \/ Last(updates).at <= cutoff
TracksRest ==
  \A f \in Fields \ Covered :
    IF updates = <<>> THEN cached[f] \in {Unset, effective[f]}
    ELSE Last(updates).settings[f] = effective[f]
TracksCovered ==
  open => \A f \in Covered :
            IF Covering THEN cached[f] = effective[f]
            ELSE Last(updates).settings[f] = effective[f]
Overlaid == open /\ updates # <<>> /\ Covering => \A f \in Covered : cached[f] = overlay[f]
Tracks == Stamped /\ TracksRest /\ TracksCovered /\ Overlaid

\* A copy that shows what is pending has been replaced since.
Counted ==
  pending # Nothing =>
    /\ generation >= pending.generation
    /\ Matches(cached, pending.patch) => generation > pending.generation
Looked == loop \in {"looked", "waiting"} /\ ~woken => ~Shown

\* What is pending will become effective, or has.
Carried == \E m \in Outstanding : m.by = pending.by
Carries ==
  pending # Nothing /\ open /\ pending.by \notin refused
  => \/ Carried
     \/ Outstanding = {} /\ Matches(effective, pending.patch)
     \/ phase = "asked" /\ reply.what = "refused" /\ want.kind \in Mutations

\* No notification is on its way, and only what is pending will cause one; or it has.
Quiet ==
  /\ updates = <<>>
  /\ pending # Nothing => generation = pending.generation
  /\ \A m \in Outstanding : m.by = pending.by \/ Matches(cached, m.patch)
Applied ==
  /\ pending # Nothing /\ Outstanding = {} /\ reply.what # "refused"
  /\ Matches(effective, pending.patch)
  /\ updates = <<>> \/ (Len(updates) = 1 /\ generation = pending.generation)
Exact == open /\ ~uncertain /\ ~Restoring => Quiet \/ Applied
Unrecorded ==
  phase \in {"asked", "after"} /\ want.kind \in Mutations /\ pending = Nothing /\ ~uncertain
  => Matches(cached, want.patch)

Places == Control /\ Held
Queues == Ordered /\ Line /\ Own
Answers == Answered /\ Still
Waits == Counted /\ Looked /\ Carries
Believed == Exact /\ Unrecorded
IInv == SettingsTypeOK /\ Places /\ Queues /\ Answers /\ Tracks /\ Waits /\ Believed

----------------------------------------------------------------------------
(* Sequences *)

LEMMA HeadAndTail ==
  ASSUME NEW S, NEW s \in Seq(S), s # <<>>
  PROVE  /\ Head(s) \in S /\ Tail(s) \in Seq(S)
         /\ Head(s) \in ToSet(s) /\ \A u \in ToSet(Tail(s)) : u \in ToSet(s)
         /\ \A u \in ToSet(s) : u = Head(s) \/ u \in ToSet(Tail(s))
<1>1. /\ Head(s) \in S /\ Tail(s) \in Seq(S) /\ Head(s) = s[1]
      /\ 1 \in DOMAIN s
      /\ \A n \in DOMAIN Tail(s) : n + 1 \in DOMAIN s /\ Tail(s)[n] = s[n + 1]
  OBVIOUS
<1>2. \A n \in DOMAIN s : n # 1 => n - 1 \in DOMAIN Tail(s) /\ s[n] = Tail(s)[n - 1]
  OBVIOUS
<1>3. \A u : u \in ToSet(s) <=> \E n \in DOMAIN s : u = s[n]
  BY DEF ToSet
<1>4. \A u : u \in ToSet(Tail(s)) <=> \E n \in DOMAIN Tail(s) : u = Tail(s)[n]
  BY DEF ToSet
<1>5. ASSUME NEW u \in ToSet(s) PROVE u = Head(s) \/ u \in ToSet(Tail(s))
  <2>1. PICK n \in DOMAIN s : u = s[n]
    BY <1>3
  <2>2. CASE n = 1
    BY <1>1, <2>1, <2>2
  <2>3. CASE n # 1
    BY <1>2, <1>4, <2>1, <2>3
  <2>4. QED
    BY <2>2, <2>3
<1>6. Head(s) \in ToSet(s)
  BY <1>1, <1>3
<1>7. ASSUME NEW u \in ToSet(Tail(s)) PROVE u \in ToSet(s)
  BY <1>1, <1>3, <1>4
<1>8. QED
  BY <1>1, <1>5, <1>6, <1>7

LEMMA Appending ==
  ASSUME NEW S, NEW s \in Seq(S), NEW e \in S
  PROVE  /\ Append(s, e) \in Seq(S) /\ Append(s, e) # <<>> /\ Last(Append(s, e)) = e
         /\ e \in ToSet(Append(s, e)) /\ \A u \in ToSet(s) : u \in ToSet(Append(s, e))
         /\ \A u \in ToSet(Append(s, e)) : u = e \/ u \in ToSet(s)
<1>1. /\ Append(s, e) \in Seq(S) /\ Len(s) \in Nat /\ Len(Append(s, e)) = Len(s) + 1
      /\ Append(s, e)[Len(s) + 1] = e /\ DOMAIN s = 1 .. Len(s)
      /\ DOMAIN Append(s, e) = 1 .. Len(s) + 1
      /\ \A n \in DOMAIN s : Append(s, e)[n] = s[n]
  OBVIOUS
<1>2. Append(s, e) # <<>> /\ Last(Append(s, e)) = e
  BY <1>1 DEF Last
<1>3. \A u : u \in ToSet(s) <=> \E n \in DOMAIN s : u = s[n]
  BY DEF ToSet
<1>4. \A u : u \in ToSet(Append(s, e)) <=> \E n \in DOMAIN Append(s, e) : u = Append(s, e)[n]
  BY DEF ToSet
<1>5. e \in ToSet(Append(s, e))
  BY <1>1, <1>4
<1>6. ASSUME NEW u \in ToSet(s) PROVE u \in ToSet(Append(s, e))
  BY <1>1, <1>3, <1>4
<1>7. ASSUME NEW u \in ToSet(Append(s, e)) PROVE u = e \/ u \in ToSet(s)
  <2>1. PICK n \in 1 .. Len(s) + 1 : u = Append(s, e)[n]
    BY <1>1, <1>4
  <2>2. n = Len(s) + 1 \/ n \in 1 .. Len(s)
    BY <1>1
  <2>3. QED
    BY <1>1, <1>3, <2>1, <2>2
<1>8. QED
  BY <1>1, <1>2, <1>5, <1>6, <1>7

LEMMA Lasting ==
  ASSUME NEW S, NEW s \in Seq(S), s # <<>>
  PROVE  /\ Last(s) \in S /\ Last(s) \in ToSet(s)
         /\ Tail(s) = <<>> => Last(s) = Head(s)
         /\ Tail(s) # <<>> => Last(Tail(s)) = Last(s)
<1>1. /\ Len(s) \in Nat /\ Len(s) > 0 /\ DOMAIN s = 1 .. Len(s)
      /\ Head(s) = s[1] /\ Len(Tail(s)) = Len(s) - 1
      /\ \A n \in 1 .. Len(s) - 1 : Tail(s)[n] = s[n + 1]
      /\ \A n \in DOMAIN s : s[n] \in S
  OBVIOUS
<1>2. Len(s) \in DOMAIN s /\ Last(s) = s[Len(s)]
  BY <1>1 DEF Last
<1>3. Last(s) \in S /\ Last(s) \in ToSet(s)
  BY <1>1, <1>2 DEF ToSet
<1>4. ASSUME Tail(s) = <<>> PROVE Last(s) = Head(s)
  <2>1. DOMAIN Tail(s) = {} /\ DOMAIN Tail(s) = 1 .. Len(s) - 1
    <3>1. DOMAIN Tail(s) = 1 .. Len(s) - 1
      OBVIOUS
    <3>2. DOMAIN Tail(s) = {}
      BY <1>4
    <3>3. QED
      BY <3>1, <3>2
  <2>2. Len(s) = 1
    <3>1. ASSUME Len(s) # 1 PROVE 1 \in 1 .. Len(s) - 1
      BY <1>1, <3>1
    <3>2. QED
      BY <2>1, <3>1
  <2>3. QED
    BY <1>1, <1>2, <2>2
<1>5. ASSUME Tail(s) # <<>> PROVE Last(Tail(s)) = Last(s)
  <2>1. Tail(s) \in Seq(S)
    OBVIOUS
  <2>2. Len(Tail(s)) > 0
    BY <1>5, <2>1
  <2>3. Len(s) - 1 \in 1 .. Len(s) - 1 /\ Len(s) - 1 + 1 = Len(s)
    BY <1>1, <2>2
  <2>4. Tail(s)[Len(s) - 1] = s[Len(s)]
    BY <1>1, <2>3
  <2>5. QED
    BY <1>1, <1>2, <2>4 DEF Last
<1>6. QED
  BY <1>3, <1>4, <1>5

LEMMA TailInOrder ==
  ASSUME NEW S, NEW s \in Seq(S), s # <<>>, \A u \in S : u.by \in Nat, InOrder(s)
  PROVE  InOrder(Tail(s)) /\ \A u \in ToSet(Tail(s)) : Head(s).by < u.by
<1>1. /\ Head(s) = s[1] /\ 1 \in DOMAIN s /\ DOMAIN s \subseteq Nat
      /\ DOMAIN Tail(s) \subseteq Nat \ {0}
      /\ \A n \in DOMAIN Tail(s) : n + 1 \in DOMAIN s /\ Tail(s)[n] = s[n + 1]
  OBVIOUS
<1>2. \A u \in ToSet(Tail(s)) : \E n \in DOMAIN Tail(s) : u = Tail(s)[n]
  BY DEF ToSet
<1>3. ASSUME NEW n \in DOMAIN Tail(s) PROVE Head(s).by < Tail(s)[n].by
  <2>1. n \in Nat \ {0} /\ 1 < n + 1
    BY <1>1
  <2>2. s[1].by < s[n + 1].by
    BY <1>1, <2>1 DEF InOrder
  <2>3. QED
    BY <1>1, <2>2
<1>4. ASSUME NEW j \in DOMAIN Tail(s), NEW k \in DOMAIN Tail(s), j < k
      PROVE  Tail(s)[j].by < Tail(s)[k].by
  <2>1. j + 1 < k + 1
    BY <1>1, <1>4
  <2>2. QED
    BY <1>1, <2>1 DEF InOrder
<1>5. QED
  BY <1>2, <1>3, <1>4 DEF InOrder

LEMMA AppendInOrder ==
  ASSUME NEW S, NEW s \in Seq(S), NEW e \in S, InOrder(s), \A u \in ToSet(s) : u.by < e.by
  PROVE  InOrder(Append(s, e))
<1>1. /\ Len(s) \in Nat /\ Append(s, e)[Len(s) + 1] = e /\ DOMAIN s = 1 .. Len(s)
      /\ DOMAIN Append(s, e) = 1 .. Len(s) + 1
      /\ \A n \in DOMAIN s : Append(s, e)[n] = s[n]
  OBVIOUS
<1>2. \A n \in DOMAIN s : s[n].by < e.by
  BY DEF ToSet
<1>3. ASSUME NEW j \in DOMAIN Append(s, e), NEW k \in DOMAIN Append(s, e), j < k
      PROVE  Append(s, e)[j].by < Append(s, e)[k].by
  <2>1. j \in DOMAIN s
    BY <1>1, <1>3
  <2>2. CASE k \in DOMAIN s
    BY <1>1, <1>3, <2>1, <2>2 DEF InOrder
  <2>3. CASE k = Len(s) + 1
    BY <1>1, <1>2, <2>1, <2>3
  <2>4. k \in DOMAIN s \/ k = Len(s) + 1
    BY <1>1
  <2>5. QED
    BY <2>2, <2>3, <2>4
<1>4. QED
  BY <1>3 DEF InOrder

----------------------------------------------------------------------------
(* What the definitions mean *)

LEMMA PatchMeans ==
  ASSUME NEW patch \in Patches
  PROVE  /\ DOMAIN patch \subseteq Fields /\ \A f \in DOMAIN patch : patch[f] \in Values
         /\ \A f, g \in DOMAIN patch : f = g
<1>1. CASE patch = NoPatch
  BY <1>1 DEF NoPatch
<1>2. CASE patch \in UNION {[{f} -> Values] : f \in Fields}
  <2>1. PICK f \in Fields : patch \in [{f} -> Values]
    BY <1>2
  <2>2. QED
    BY <2>1
<1>3. QED
  BY <1>1, <1>2 DEF Patches

LEMMA NoPatchMeans == NoPatch \in Patches /\ \A settings : Matches(settings, NoPatch)
  BY DEF NoPatch, Patches, Matches

LEMMA OverMeans ==
  ASSUME NEW settings, NEW patch
  PROVE  /\ DOMAIN Over(settings, patch) = DOMAIN settings
         /\ \A f \in DOMAIN settings :
              Over(settings, patch)[f] = IF f \in DOMAIN patch THEN patch[f] ELSE settings[f]
  BY DEF Over

LEMMA OverTyped ==
  ASSUME NEW V, NEW settings \in [Fields -> V], NEW patch, Values \subseteq V,
         \A f \in DOMAIN patch : patch[f] \in Values
  PROVE  Over(settings, patch) \in [Fields -> V]
  BY DEF Over

LEMMA OverMatches ==
  ASSUME NEW settings \in Settings, NEW patch \in Patches
  PROVE  /\ Over(settings, patch) \in Settings /\ Matches(Over(settings, patch), patch)
         /\ Matches(settings, patch) => Over(settings, patch) = settings
<1>1. DOMAIN patch \subseteq Fields /\ \A f \in DOMAIN patch : patch[f] \in Values
  BY PatchMeans
<1>2. settings \in [Fields -> Values]
  BY DEF Settings
<1>3. Over(settings, patch) \in [Fields -> Values]
  BY <1>1, <1>2, OverTyped
<1>4. Matches(Over(settings, patch), patch)
  BY <1>1, <1>2 DEF Over, Matches
<1>5. ASSUME Matches(settings, patch) PROVE Over(settings, patch) = settings
  BY <1>1, <1>2, <1>3, <1>5 DEF Over, Matches
<1>6. QED
  BY <1>3, <1>4, <1>5 DEF Settings

LEMMA ObservedMeans ==
  ASSUME NEW e, e.settings \in Settings, overlay \in [Covered -> Values]
  PROVE  /\ Observed(e) \in Settings
         /\ \A f \in Fields \ Covered : Observed(e)[f] = e.settings[f]
         /\ \A f \in Covered :
              Observed(e)[f] = IF e.at <= cutoff THEN overlay[f] ELSE e.settings[f]
<1>1. Covered \subseteq Fields
  BY SettingsAssumption DEF SettingsAssumption
<1>2. e.settings \in [Fields -> Values] /\ DOMAIN overlay = Covered
  BY DEF Settings
<1>3. Over(e.settings, overlay) \in [Fields -> Values]
  BY <1>2, OverTyped
<1>4. \A f \in Fields :
        Over(e.settings, overlay)[f] = IF f \in Covered THEN overlay[f] ELSE e.settings[f]
  BY <1>2 DEF Over
<1>5. CASE e.at <= cutoff
  <2>1. Observed(e) = Over(e.settings, overlay)
    BY <1>5 DEF Observed
  <2>2. QED
    BY <1>1, <1>3, <1>4, <1>5, <2>1 DEF Settings
<1>6. CASE ~(e.at <= cutoff)
  <2>1. Observed(e) = e.settings
    BY <1>6 DEF Observed
  <2>2. QED
    BY <1>6, <2>1
<1>7. QED
  BY <1>5, <1>6

\* A value is never what stands for none.
LEMMA ValueSet == Unset \notin Values
  BY SettingsAssumption DEF SettingsAssumption, Unset

----------------------------------------------------------------------------
(* Types *)

Ask == [by : Nat, kind : Operations, patch : Patches]
Notice == [at : Nat, settings : Settings]

CallType ==
  /\ asked \in 0 .. MaxSettings
  /\ phase \in {"idle", "before", "decide", "record", "asked", "after", "fence", "lock",
                "last"}
  /\ want \in [kind : Operations \union {Unset}, patch : Patches]
  /\ said \in {Unset, "ok", "noop", "error"}
  /\ locked \in BOOLEAN /\ uncertain \in BOOLEAN
  /\ refused \subseteq 1 .. asked
LoopType ==
  /\ fence \in 0 .. reported
  /\ loop \in {Unset, "looking", "looked", "waiting"} /\ woken \in BOOLEAN
ReplyType ==
  \/ reply \in {Says(Unset), Says("accepted"), Says("refused")}
  \/ reply \in [what : {"resumed"}, at : 1 .. reported, settings : Settings]
CopyType ==
  /\ open \in BOOLEAN
  /\ cached \in [Fields -> Values \union {Unset}]
  /\ generation \in Nat
  /\ overlay \in [Covered -> Values]
  /\ cutoff \in 0 .. reported
PendingType == pending \in [generation : Nat, patch : Patches, by : 0 .. asked]
LineType ==
  /\ requests \in Seq(Ask) /\ queued \in Seq(Ask)
  /\ \A m \in Outstanding : m.by \in 1 .. asked
BackendType ==
  /\ effective \in Settings
  /\ reported \in 0 .. MaxReported
  /\ updates \in Seq(Notice)
  /\ \A k \in DOMAIN updates : updates[k].at \in 1 .. reported
Parts ==
  CallType /\ LoopType /\ ReplyType /\ CopyType /\ PendingType /\ LineType /\ BackendType

LEMMA PartsMean == SettingsTypeOK <=> Parts
  BY DEF SettingsTypeOK, Parts, CallType, LoopType, ReplyType, CopyType, PendingType,
         LineType, BackendType, Ask, Notice

LEMMA PartsNext == SettingsTypeOK' <=> Parts'
<1>1. SettingsTypeOK' <=>
        (CallType /\ LoopType /\ ReplyType /\ CopyType /\ PendingType /\ LineType
          /\ BackendType)'
  BY DEF SettingsTypeOK, CallType, LoopType, ReplyType, CopyType, PendingType, LineType,
         BackendType, Ask, Notice
<1>2. QED
  BY <1>1 DEF Parts

LEMMA Bounds ==
  ASSUME SettingsTypeOK
  PROVE  /\ asked \in Nat /\ reported \in Nat /\ generation \in Nat /\ cutoff \in Nat
         /\ fence \in Nat /\ pending.by \in Nat /\ pending.generation \in Nat
<1>1. CallType /\ LoopType /\ CopyType /\ PendingType /\ BackendType
  BY PartsMean DEF Parts
<1>2. MaxSettings \in Nat /\ MaxReported \in Nat
  BY SettingsAssumption DEF SettingsAssumption
<1>3. asked \in Nat /\ reported \in Nat
  BY <1>1, <1>2 DEF CallType, BackendType
<1>4. QED
  BY <1>1, <1>3 DEF LoopType, CopyType, PendingType

\* What the backend has not made effective, and has reported.
LEMMA OutstandingMeans ==
  ASSUME SettingsTypeOK
  PROVE  /\ requests \in Seq(Ask) /\ queued \in Seq(Ask)
         /\ \A m : m \in Outstanding <=> m \in Unread \/ m \in Unapplied
         /\ \A m \in Outstanding : m \in Ask /\ m.by \in Nat /\ m.by \in 1 .. asked
<1>1. LineType
  BY PartsMean DEF Parts
<1>2. requests \in Seq(Ask) /\ queued \in Seq(Ask) /\ \A m \in Outstanding : m.by \in 1 .. asked
  BY <1>1 DEF LineType
<1>3. \A m : m \in Outstanding <=> m \in Unread \/ m \in Unapplied
  BY DEF Outstanding, Unread, Unapplied
<1>4. \A m \in Unread : m \in Ask
  BY <1>2 DEF Unread, ToSet
<1>5. \A m \in Unapplied : m \in Ask
  BY <1>2 DEF Unapplied, ToSet
<1>6. asked \in Nat
  BY Bounds
<1>7. QED
  BY <1>2, <1>3, <1>4, <1>5, <1>6

LEMMA UpdatesMean ==
  ASSUME SettingsTypeOK
  PROVE  /\ updates \in Seq(Notice) /\ effective \in Settings
         /\ \A e \in ToSet(updates) : e \in Notice /\ e.at \in 1 .. reported
<1>1. BackendType
  BY PartsMean DEF Parts
<1>2. updates \in Seq(Notice) /\ \A k \in DOMAIN updates : updates[k].at \in 1 .. reported
  BY <1>1 DEF BackendType
<1>3. \A e \in ToSet(updates) : \E k \in DOMAIN updates : e = updates[k]
  BY DEF ToSet
<1>4. \A k \in DOMAIN updates : updates[k] \in Notice
  BY <1>2
<1>5. QED
  BY <1>1, <1>2, <1>3, <1>4 DEF BackendType

LEMMA WantMeans ==
  ASSUME SettingsTypeOK
  PROVE  /\ want.kind \in Operations \union {Unset} /\ want.patch \in Patches
         /\ pending.patch \in Patches
<1>1. CallType /\ PendingType
  BY PartsMean DEF Parts
<1>2. QED
  BY <1>1 DEF CallType, PendingType

LEMMA ReplyMeans ==
  ASSUME SettingsTypeOK
  PROVE  /\ reply.what \in {Unset, "accepted", "refused", "resumed"}
         /\ reply.what # "resumed" => reply = Says(reply.what)
         /\ reply.what = "resumed" => reply.at \in 1 .. reported /\ reply.settings \in Settings
<1>1. ReplyType
  BY PartsMean DEF Parts
<1>2. CASE reply \in {Says(Unset), Says("accepted"), Says("refused")}
  BY <1>2 DEF Says, Unset
<1>3. CASE reply \in [what : {"resumed"}, at : 1 .. reported, settings : Settings]
  BY <1>3
<1>4. QED
  BY <1>1, <1>2, <1>3 DEF ReplyType

LEMMA TypesInitially == ASSUME SettingsInit PROVE SettingsTypeOK
<1>1. /\ Covered \subseteq Fields /\ MaxSettings \in Nat /\ MaxReported \in Nat
  BY SettingsAssumption DEF SettingsAssumption
<1>2. NoPatch \in Patches
  BY NoPatchMeans
<1>3. Outstanding = {}
  BY DEF SettingsInit, Outstanding, ToSet
<1>4. CallType
  <2>1. asked = 0 /\ refused = {} /\ phase = "idle" /\ said = Unset /\ locked = FALSE
    BY DEF SettingsInit
  <2>2. uncertain = FALSE /\ want = [kind |-> Unset, patch |-> NoPatch]
    BY DEF SettingsInit
  <2>3. want \in [kind : Operations \union {Unset}, patch : Patches]
    BY <1>2, <2>2
  <2>4. asked \in 0 .. MaxSettings
    BY <1>1, <2>1
  <2>5. QED
    BY <2>1, <2>2, <2>3, <2>4 DEF CallType
<1>5. LoopType /\ ReplyType
  <2>1. fence = 0 /\ reported = 0 /\ loop = Unset /\ woken = FALSE /\ reply = Says(Unset)
    BY DEF SettingsInit
  <2>2. fence = 0 /\ reported = 0
    BY <2>1
  <2>3. fence \in 0 .. reported
    BY ONLY <2>2
  <2>4. LoopType
    BY <2>1, <2>3 DEF LoopType
  <2>5. ReplyType
    BY <2>1 DEF ReplyType
  <2>6. QED
    BY <2>4, <2>5
<1>6. CopyType
  BY <1>1 DEF SettingsInit, CopyType, Settings
<1>7. PendingType
  BY <1>1, <1>2 DEF SettingsInit, PendingType, Nothing
<1>8. requests \in Seq(Ask) /\ queued \in Seq(Ask) /\ updates \in Seq(Notice)
  BY DEF SettingsInit
<1>9. LineType
  BY <1>3, <1>8 DEF LineType
<1>10. BackendType
  BY <1>1, <1>8 DEF SettingsInit, BackendType
<1>11. QED
  BY <1>4, <1>5, <1>6, <1>7, <1>9, <1>10, PartsMean DEF Parts

LEMMA StillTyped ==
  ASSUME SettingsTypeOK, asked' \in Nat, asked <= asked', reported' \in Nat, reported <= reported'
  PROVE  /\ UNCHANGED <<fence, loopVars>> => LoopType'
         /\ UNCHANGED reply => ReplyType'
         /\ UNCHANGED sessionVars => CopyType'
         /\ UNCHANGED pending => PendingType'
         /\ UNCHANGED <<requests, queued>> => LineType'
         /\ UNCHANGED backendVars => BackendType'
<1>1. CallType /\ LoopType /\ ReplyType /\ CopyType /\ PendingType /\ LineType /\ BackendType
  BY PartsMean DEF Parts
<1>2. asked \in Nat /\ reported \in Nat
  BY Bounds
<1>3. \A n : n \in 0 .. asked => n \in 0 .. asked'
  BY <1>2
<1>4. \A n : n \in 1 .. asked => n \in 1 .. asked'
  BY <1>2
<1>5. \A n : n \in 0 .. reported => n \in 0 .. reported'
  BY <1>2
<1>6. \A n : n \in 1 .. reported => n \in 1 .. reported'
  BY <1>2
<1>7. ASSUME UNCHANGED <<fence, loopVars>> PROVE LoopType'
  BY <1>1, <1>5, <1>7 DEF LoopType, loopVars
<1>8. ASSUME UNCHANGED reply PROVE ReplyType'
  <2>1. CASE reply \in {Says(Unset), Says("accepted"), Says("refused")}
    BY <1>8, <2>1 DEF ReplyType, Says
  <2>2. CASE reply \in [what : {"resumed"}, at : 1 .. reported, settings : Settings]
    BY <1>6, <1>8, <2>2 DEF ReplyType
  <2>3. QED
    BY <1>1, <2>1, <2>2 DEF ReplyType
<1>9. ASSUME UNCHANGED sessionVars PROVE CopyType'
  BY <1>1, <1>5, <1>9 DEF CopyType, sessionVars
<1>10. ASSUME UNCHANGED pending PROVE PendingType'
  BY <1>1, <1>3, <1>10 DEF PendingType
<1>11. ASSUME UNCHANGED <<requests, queued>> PROVE LineType'
  BY <1>1, <1>4, <1>11 DEF LineType, Outstanding
<1>12. ASSUME UNCHANGED backendVars PROVE BackendType'
  BY <1>1, <1>12 DEF BackendType, backendVars
<1>13. QED
  BY <1>7, <1>8, <1>9, <1>10, <1>11, <1>12

LEMMA ReturnsTyped ==
  ASSUME SettingsTypeOK, NEW how \in {"ok", "noop", "error"}, Returns(how),
         uncertain' \in BOOLEAN, UNCHANGED <<refused, reported>>
  PROVE  CallType' /\ LoopType'
<1>1. CallType
  BY PartsMean DEF Parts
<1>2. reported \in Nat
  BY Bounds
<1>3. want' \in [kind : Operations \union {Unset}, patch : Patches]
  BY NoPatchMeans DEF Returns
<1>4. /\ asked' = asked /\ phase' = "idle" /\ said' = how /\ locked' = FALSE
      /\ fence' = 0 /\ loop' = Unset /\ woken' = FALSE
  BY DEF Returns
<1>5. CallType'
  BY <1>1, <1>3, <1>4 DEF CallType
<1>6. fence' \in 0 .. reported'
  BY <1>2, <1>4
<1>7. LoopType'
  BY <1>4, <1>6 DEF LoopType
<1>8. QED
  BY <1>5, <1>7

LEMMA ReconciledTyped ==
  ASSUME SettingsTypeOK, Reconciled, UNCHANGED <<refused, reported, uncertain>>
  PROVE  CallType' /\ LoopType' /\ asked' = asked
<1>1. CallType /\ LoopType
  BY PartsMean DEF Parts
<1>2. CASE phase = "after" /\ Returns("ok")
  <2>1. uncertain' \in BOOLEAN
    BY <1>1 DEF CallType
  <2>2. QED
    BY <1>2, <2>1, ReturnsTyped DEF Returns
<1>3. CASE phase = "before"
  <2>1. Reconciled => phase' \in {"decide", "lock", "record"} \/ phase = "after"
    BY <1>3 DEF Reconciled
  <2>2. /\ phase' \in {"decide", "lock", "record"} /\ UNCHANGED <<requestVars, said, lockVars>>
        /\ loop' = Unset /\ woken' = FALSE
    BY <1>3, <2>1 DEF Reconciled
  <2>3. QED
    BY <1>1, <2>2 DEF CallType, LoopType, requestVars, lockVars
<1>4. QED
  BY <1>2, <1>3 DEF Reconciled

\* A request before it has been sent.
LEMMA WayTyped ==
  ASSUME SettingsTypeOK,
         \/ \E kind \in Operations, patch \in Patches : Begins(kind, patch)
         \/ PassSync \/ SyncTimesOut \/ Enable \/ Look \/ Wait \/ Wake \/ ReconcileFails \/ Decide
  PROVE  SettingsTypeOK'
<1>1. CallType /\ LoopType /\ PendingType /\ BackendType
  BY PartsMean DEF Parts
<1>2. asked \in Nat /\ reported \in Nat /\ MaxSettings \in Nat
  BY Bounds, SettingsAssumption DEF SettingsAssumption
<1>3. asked <= asked /\ reported <= reported
  BY <1>2
<1>4. ASSUME NEW kind \in Operations, NEW patch \in Patches, Begins(kind, patch)
      PROVE  SettingsTypeOK'
  <2>1. asked' = asked + 1 /\ asked < MaxSettings /\ UNCHANGED <<reported, reply, pending>>
    BY <1>4 DEF Begins, backendVars
  <2>2. asked' \in 0 .. MaxSettings /\ asked' \in Nat /\ asked <= asked'
    BY <1>2, <2>1
  <2>3. CallType'
    <3>1. \A n \in 1 .. asked : n \in 1 .. asked'
      BY <1>2, <2>1
    <3>2. refused' \subseteq 1 .. asked'
      BY <1>1, <1>4, <3>1 DEF CallType, Begins
    <3>3. phase' \in {"before", "fence"}
      BY <1>4 DEF Begins, Moves
    <3>4. QED
      BY <1>1, <1>4, <2>2, <3>2, <3>3 DEF CallType, Begins
  <2>4. LoopType'
    BY <1>1, <1>2, <1>4 DEF LoopType, Begins, loopVars, backendVars
  <2>5. ReplyType' /\ CopyType' /\ PendingType' /\ LineType' /\ BackendType'
    <3>1. UNCHANGED <<sessionVars, requests, queued, backendVars>>
      BY <1>4 DEF Begins, backendVars
    <3>2. QED
      BY <1>2, <1>3, <2>1, <2>2, <3>1, StillTyped
  <2>6. QED
    BY <2>3, <2>4, <2>5, PartsNext DEF Parts
<1>5. ASSUME UNCHANGED <<asked, reply, sessionVars, requests, backendVars>>, CallType', LoopType',
             PendingType'
      PROVE  SettingsTypeOK'
  <2>1. UNCHANGED <<queued, reported>>
    BY <1>5 DEF backendVars
  <2>2. ReplyType' /\ CopyType' /\ LineType' /\ BackendType'
    BY <1>2, <1>3, <1>5, <2>1, StillTyped
  <2>3. QED
    BY <1>5, <2>2, PartsNext DEF Parts
<1>6. UNCHANGED <<asked, reported, pending>> => PendingType'
  BY <1>2, <1>3, StillTyped
<1>7. CASE PassSync
  <2>1. UNCHANGED <<reply, pending, sessionVars, requests, backendVars, refused, uncertain>>
    BY <1>7 DEF PassSync
  <2>2. CASE phase = "last" /\ Returns("ok")
    <3>1. uncertain' \in BOOLEAN /\ UNCHANGED <<refused, reported>>
      BY <1>1, <2>1 DEF CallType, backendVars
    <3>2. CallType' /\ LoopType' /\ asked' = asked
      BY <2>2, <3>1, ReturnsTyped DEF Returns
    <3>3. QED
      BY <1>5, <1>6, <2>1, <3>1, <3>2
  <2>3. CASE ~(phase = "last" /\ Returns("ok"))
    <3>1. /\ phase' \in {"lock", "before"} /\ fence' = 0
          /\ UNCHANGED <<requestVars, said, locked, loopVars>>
      BY <1>7, <2>3 DEF PassSync, Moves
    <3>2. UNCHANGED <<asked, reported>>
      BY <2>1, <3>1 DEF requestVars, backendVars
    <3>3. CallType' /\ LoopType'
      BY <1>1, <1>2, <2>1, <3>1, <3>2 DEF CallType, LoopType, requestVars, loopVars
    <3>4. QED
      BY <1>5, <1>6, <2>1, <3>2, <3>3
  <2>4. QED
    BY <2>2, <2>3
<1>8. CASE SyncTimesOut
  <2>1. /\ Returns("error")
        /\ UNCHANGED <<reply, pending, sessionVars, requests, backendVars, refused>>
        /\ uncertain' = (uncertain \/ phase = "last")
    BY <1>8 DEF SyncTimesOut
  <2>2. uncertain' \in BOOLEAN /\ UNCHANGED <<asked, refused, reported>>
    BY <2>1 DEF backendVars, Returns
  <2>3. CallType' /\ LoopType'
    BY <2>1, <2>2, ReturnsTyped
  <2>4. QED
    BY <1>5, <1>6, <2>1, <2>2, <2>3
<1>9. CASE Enable
  <2>1. UNCHANGED <<reply, pending, sessionVars, requests, backendVars, refused, uncertain>>
    BY <1>9 DEF Enable
  <2>2. UNCHANGED reported
    BY <2>1 DEF backendVars
  <2>3. CASE Reconciled
    BY <1>5, <1>6, <2>1, <2>2, <2>3, ReconciledTyped
  <2>4. CASE ~Reconciled
    <3>1. loop' = "looking" /\ UNCHANGED <<requestVars, phase, said, lockVars, woken>>
      BY <1>9, <2>4 DEF Enable
    <3>2. CallType' /\ LoopType' /\ asked' = asked
      BY <1>1, <2>1, <2>2, <3>1 DEF CallType, LoopType, requestVars, lockVars
    <3>3. QED
      BY <1>5, <1>6, <2>1, <2>2, <3>2
  <2>5. QED
    BY <2>3, <2>4
<1>10. CASE Look
  <2>1. UNCHANGED <<reply, sessionVars, requests, backendVars, refused, uncertain>>
    BY <1>10 DEF Look
  <2>2. UNCHANGED reported
    BY <2>1 DEF backendVars
  <2>3. CASE Reconciled /\ pending' = Nothing
    <3>1. CallType' /\ LoopType' /\ asked' = asked
      BY <2>1, <2>2, <2>3, ReconciledTyped
    <3>2. PendingType'
      BY <1>2, <2>3, <3>1, NoPatchMeans DEF PendingType, Nothing
    <3>3. QED
      BY <1>5, <2>1, <3>1, <3>2
  <2>4. CASE ~(Reconciled /\ pending' = Nothing)
    <3>1. loop' = "looked" /\ UNCHANGED <<requestVars, phase, said, lockVars, woken, pending>>
      BY <1>10, <2>4 DEF Look
    <3>2. CallType' /\ LoopType' /\ asked' = asked
      BY <1>1, <2>1, <2>2, <3>1 DEF CallType, LoopType, requestVars, lockVars
    <3>3. QED
      BY <1>5, <1>6, <2>1, <2>2, <3>1, <3>2
  <2>5. QED
    BY <2>3, <2>4
<1>11. CASE Wait \/ Wake
  <2>1. /\ UNCHANGED <<requestVars, phase, said, lockVars, reply, sessionVars, pending,
                       requests, backendVars, refused, uncertain>>
        /\ loop' \in {"waiting", "looking"} /\ woken' \in {FALSE, woken}
    BY <1>11 DEF Wait, Wake
  <2>2. CallType' /\ LoopType' /\ UNCHANGED <<asked, reported>>
    BY <1>1, <2>1 DEF CallType, LoopType, requestVars, lockVars, backendVars
  <2>3. QED
    BY <1>5, <1>6, <2>1, <2>2
<1>12. CASE ReconcileFails \/ (Decide /\ Returns("noop"))
  <2>1. /\ Returns("error") \/ Returns("noop")
        /\ UNCHANGED <<reply, pending, sessionVars, requests, backendVars, refused, uncertain>>
    BY <1>12 DEF ReconcileFails, Decide
  <2>2. uncertain' \in BOOLEAN /\ UNCHANGED <<asked, refused, reported>>
    BY <1>1, <2>1 DEF CallType, backendVars, Returns
  <2>3. CallType' /\ LoopType'
    BY <2>1, <2>2, ReturnsTyped
  <2>4. QED
    BY <1>5, <1>6, <2>1, <2>2, <2>3
<1>13. CASE Decide /\ ~Returns("noop")
  <2>1. /\ phase' = "record" /\ UNCHANGED <<requestVars, said, lockVars, loopVars>>
        /\ UNCHANGED <<reply, sessionVars, pending, requests, backendVars, refused, uncertain>>
    BY <1>13 DEF Decide, Moves
  <2>2. CallType' /\ LoopType' /\ UNCHANGED <<asked, reported>>
    BY <1>1, <2>1 DEF CallType, LoopType, requestVars, lockVars, loopVars, backendVars
  <2>3. QED
    BY <1>5, <1>6, <2>1, <2>2
<1>14. QED
  BY <1>4, <1>7, <1>8, <1>9, <1>10, <1>11, <1>12, <1>13

----------------------------------------------------------------------------
(* What a step does to the requests *)

LEMMA Asking ==
  ASSUME SettingsTypeOK, Sent \in Ask, queued' = queued, requests' = Append(requests, Sent)
  PROVE  /\ requests' \in Seq(Ask) /\ queued' \in Seq(Ask)
         /\ Sent \in Unread' /\ Sent \in Outstanding' /\ Unapplied' = Unapplied
         /\ \A m \in Outstanding : m \in Outstanding'
         /\ \A m \in Outstanding' : m = Sent \/ m \in Outstanding
         /\ Ordered /\ (\A m \in Outstanding : m.by < Sent.by) => Ordered'
<1>1. requests \in Seq(Ask) /\ queued \in Seq(Ask)
  BY OutstandingMeans
<1> DEFINE line == Append(requests, Sent)
<1>2. /\ line \in Seq(Ask) /\ Sent \in ToSet(line) /\ \A u \in Unread : u \in ToSet(line)
      /\ \A u \in ToSet(line) : u = Sent \/ u \in Unread
  BY <1>1, Appending DEF Unread
<1>3. Unread' = ToSet(line) /\ Unapplied' = Unapplied
  BY DEF Unread, Unapplied
<1>4. \A m : m \in Outstanding' <=> m \in ToSet(line) \/ m \in Unapplied
  BY DEF Outstanding, Unapplied
<1>5. \A m : m \in Outstanding <=> m \in Unread \/ m \in Unapplied
  BY OutstandingMeans
<1>6. ASSUME Ordered, \A m \in Outstanding : m.by < Sent.by PROVE Ordered'
  <2>1. InOrder(line)
    BY <1>1, <1>5, <1>6, AppendInOrder DEF Ordered, Unread
  <2>2. \A q \in Unapplied, r \in ToSet(line) : q.by < r.by
    BY <1>2, <1>5, <1>6 DEF Ordered
  <2>3. InOrder(requests)' /\ InOrder(queued)'
    BY <1>6, <2>1 DEF Ordered, InOrder
  <2>4. QED
    BY <1>3, <2>2, <2>3 DEF Ordered
<1>7. QED
  BY <1>1, <1>2, <1>3, <1>4, <1>5, <1>6

LEMMA FirstRead ==
  ASSUME SettingsTypeOK, requests # <<>>
  PROVE  /\ Head(requests) \in Ask /\ Head(requests) \in Outstanding
         /\ Head(requests) \in Unread /\ Head(requests).by \in 1 .. asked
         /\ Head(requests).by \in Nat /\ Head(requests).patch \in Patches
         /\ Tail(requests) \in Seq(Ask)
         /\ \A m \in ToSet(Tail(requests)) : m \in Unread
         /\ \A m \in Unread : m = Head(requests) \/ m \in ToSet(Tail(requests))
<1>1. requests \in Seq(Ask)
  BY OutstandingMeans
<1>2. /\ Head(requests) \in Ask /\ Tail(requests) \in Seq(Ask)
      /\ Head(requests) \in Unread /\ \A u \in ToSet(Tail(requests)) : u \in Unread
      /\ \A u \in Unread : u = Head(requests) \/ u \in ToSet(Tail(requests))
  BY <1>1, HeadAndTail DEF Unread
<1>3. Head(requests) \in Outstanding /\ Head(requests).by \in 1 .. asked
  BY <1>2, OutstandingMeans
<1>4. QED
  BY <1>2, <1>3 DEF Ask

LEMMA ReadInOrder ==
  ASSUME SettingsTypeOK, requests # <<>>, Ordered
  PROVE  /\ InOrder(Tail(requests))
         /\ \A m \in ToSet(Tail(requests)) : Head(requests).by < m.by
         /\ \A m \in Unapplied : m.by < Head(requests).by
<1>1. requests \in Seq(Ask) /\ \A m \in Ask : m.by \in Nat
  BY OutstandingMeans DEF Ask
<1>2. InOrder(requests) /\ \A m \in Unapplied : m.by < Head(requests).by
  BY FirstRead DEF Ordered
<1>3. QED
  BY <1>1, <1>2, TailInOrder

\* One is read, and not queued.
LEMMA Reading ==
  ASSUME SettingsTypeOK, requests # <<>>, requests' = Tail(requests), queued' = queued
  PROVE  /\ requests' \in Seq(Ask) /\ queued' \in Seq(Ask)
         /\ \A m \in Unread' : m \in Unread
         /\ \A m \in Unread : m = Head(requests) \/ m \in Unread'
         /\ Unapplied' = Unapplied
         /\ \A m \in Outstanding' : m \in Outstanding
         /\ \A m \in Outstanding : m = Head(requests) \/ m \in Outstanding'
         /\ Ordered => Ordered'
<1>1. queued \in Seq(Ask)
  BY OutstandingMeans
<1>2. Unread' = ToSet(Tail(requests)) /\ Unapplied' = Unapplied
  BY DEF Unread, Unapplied
<1>3. \A m : m \in Outstanding' <=> m \in ToSet(Tail(requests)) \/ m \in Unapplied
  BY DEF Outstanding, Unapplied
<1>4. \A m : m \in Outstanding <=> m \in Unread \/ m \in Unapplied
  BY OutstandingMeans
<1>5. ASSUME Ordered PROVE Ordered'
  <2>1. InOrder(requests)' /\ InOrder(queued)'
    BY <1>5, ReadInOrder DEF Ordered, InOrder
  <2>2. \A q \in Unapplied, r \in ToSet(Tail(requests)) : q.by < r.by
    BY <1>5, FirstRead DEF Ordered
  <2>3. QED
    BY <1>2, <2>1, <2>2 DEF Ordered
<1>6. QED
  BY <1>1, <1>2, <1>3, <1>4, <1>5, FirstRead

\* One is read and queued.
LEMMA Accepting ==
  ASSUME SettingsTypeOK, requests # <<>>, requests' = Tail(requests),
         queued' = Append(queued, Head(requests))
  PROVE  /\ requests' \in Seq(Ask) /\ queued' \in Seq(Ask)
         /\ \A m \in Unread' : m \in Unread
         /\ \A m \in Unread : m = Head(requests) \/ m \in Unread'
         /\ \A m \in Unapplied' : m = Head(requests) \/ m \in Unapplied
         /\ \A m : m \in Outstanding' <=> m \in Outstanding
         /\ Ordered => Ordered'
<1> DEFINE line == Append(queued, Head(requests))
<1>1. queued \in Seq(Ask) /\ Head(requests) \in Ask
  BY OutstandingMeans, FirstRead
<1>2. /\ line \in Seq(Ask) /\ Head(requests) \in ToSet(line)
      /\ \A u \in Unapplied : u \in ToSet(line)
      /\ \A u \in ToSet(line) : u = Head(requests) \/ u \in Unapplied
  BY <1>1, Appending DEF Unapplied
<1>3. Unread' = ToSet(Tail(requests)) /\ Unapplied' = ToSet(line)
  BY DEF Unread, Unapplied
<1>4. \A m : m \in Outstanding' <=> m \in ToSet(Tail(requests)) \/ m \in ToSet(line)
  BY DEF Outstanding
<1>5. \A m : m \in Outstanding <=> m \in Unread \/ m \in Unapplied
  BY OutstandingMeans
<1>6. ASSUME Ordered PROVE Ordered'
  <2>1. InOrder(line)
    BY <1>1, <1>6, ReadInOrder, AppendInOrder DEF Ordered, Unapplied
  <2>2. InOrder(requests)' /\ InOrder(queued)'
    BY <1>6, <2>1, ReadInOrder DEF InOrder
  <2>3. \A q \in ToSet(line), r \in ToSet(Tail(requests)) : q.by < r.by
    BY <1>2, <1>6, FirstRead, ReadInOrder DEF Ordered
  <2>4. QED
    BY <1>3, <2>2, <2>3 DEF Ordered
<1>7. QED
  BY <1>1, <1>2, <1>3, <1>4, <1>5, <1>6, FirstRead

\* The first that is queued becomes effective.
LEMMA Applying ==
  ASSUME SettingsTypeOK, queued # <<>>, queued' = Tail(queued), requests' = requests
  PROVE  /\ requests' \in Seq(Ask) /\ queued' \in Seq(Ask)
         /\ Head(queued) \in Ask /\ Head(queued) \in Outstanding /\ Head(queued) \in Unapplied
         /\ Head(queued).by \in 1 .. asked /\ Head(queued).by \in Nat
         /\ Head(queued).patch \in Patches
         /\ Unread' = Unread /\ \A m \in Unapplied' : m \in Unapplied
         /\ \A m \in Outstanding' : m \in Outstanding
         /\ \A m \in Outstanding : m = Head(queued) \/ m \in Outstanding'
         /\ Ordered => Ordered' /\ \A m \in Outstanding' : Head(queued).by < m.by
<1>1. requests \in Seq(Ask) /\ queued \in Seq(Ask) /\ \A m \in Ask : m.by \in Nat
  BY OutstandingMeans DEF Ask
<1>2. /\ Head(queued) \in Ask /\ Tail(queued) \in Seq(Ask)
      /\ Head(queued) \in Unapplied /\ \A u \in ToSet(Tail(queued)) : u \in Unapplied
      /\ \A u \in Unapplied : u = Head(queued) \/ u \in ToSet(Tail(queued))
  BY <1>1, HeadAndTail DEF Unapplied
<1>3. Unread' = Unread /\ Unapplied' = ToSet(Tail(queued))
  BY DEF Unread, Unapplied
<1>4. \A m : m \in Outstanding' <=> m \in Unread \/ m \in ToSet(Tail(queued))
  BY DEF Outstanding, Unread
<1>5. \A m : m \in Outstanding <=> m \in Unread \/ m \in Unapplied
  BY OutstandingMeans
<1>6. Head(queued) \in Outstanding /\ Head(queued).by \in 1 .. asked
  BY <1>2, OutstandingMeans
<1>7. ASSUME Ordered PROVE Ordered' /\ \A m \in Outstanding' : Head(queued).by < m.by
  <2>1. InOrder(Tail(queued)) /\ \A m \in ToSet(Tail(queued)) : Head(queued).by < m.by
    BY <1>1, <1>7, TailInOrder DEF Ordered
  <2>2. InOrder(requests)' /\ InOrder(queued)'
    BY <1>7, <2>1 DEF Ordered, InOrder
  <2>3. \A q \in ToSet(Tail(queued)), r \in Unread : q.by < r.by
    BY <1>2, <1>7 DEF Ordered
  <2>4. \A m \in Unread : Head(queued).by < m.by
    BY <1>2, <1>7 DEF Ordered
  <2>5. QED
    BY <1>3, <1>4, <2>1, <2>2, <2>3, <2>4 DEF Ordered
<1>8. QED
  BY <1>1, <1>2, <1>3, <1>4, <1>5, <1>6, <1>7 DEF Ask

----------------------------------------------------------------------------
(* Types, from the request's being sent on *)

LEMMA SentMeans ==
  ASSUME SettingsTypeOK, Control, Held, phase \in {"record", "lock"}
  PROVE  /\ Sent \in Ask /\ Sent.by = asked /\ Sent.kind = want.kind /\ Sent.patch = want.patch
         /\ asked \in Nat /\ pending.by < asked /\ asked \in 1 .. asked
<1>1. asked \in Nat /\ pending.by \in Nat
  BY Bounds
<1>2. want.kind \in Operations
  BY WantMeans DEF Control, Mutations, Operations
<1>3. want.patch \in Patches
  BY WantMeans
<1>4. pending.by < asked
  BY DEF Control, Held
<1>5. QED
  BY <1>1, <1>2, <1>3, <1>4 DEF Sent, Ask

LEMMA SendingTyped ==
  ASSUME SettingsTypeOK, Control, Held, Record \/ AskLocked
  PROVE  SettingsTypeOK'
<1>1. CallType /\ LoopType /\ CopyType /\ PendingType /\ BackendType
  BY PartsMean DEF Parts
<1>2. asked \in Nat /\ reported \in Nat /\ asked <= asked /\ reported <= reported
  BY Bounds
<1>3. phase \in {"record", "lock"}
  BY DEF Record, AskLocked, Moves
<1>4. /\ requests' = Append(requests, Sent) /\ phase' = "asked" /\ locked' \in {locked, TRUE}
      /\ UNCHANGED <<requestVars, said, fence, loopVars, reply, cached, generation, overlay,
                     cutoff, backendVars, refused, uncertain>>
  BY DEF Record, AskLocked, Moves, lockVars, sessionVars
<1>5. UNCHANGED <<asked, want, reported, queued>>
  BY <1>4 DEF requestVars, backendVars
<1>6. Sent \in Ask /\ Sent.by \in 1 .. asked
  BY <1>3, SentMeans
<1>7. LineType'
  <2>1. \A m \in Outstanding : m.by \in 1 .. asked
    BY OutstandingMeans
  <2>2. requests' \in Seq(Ask) /\ queued' \in Seq(Ask)
        /\ \A m \in Outstanding' : m = Sent \/ m \in Outstanding
    BY <1>4, <1>5, <1>6, Asking
  <2>3. QED
    BY <1>5, <1>6, <2>1, <2>2 DEF LineType
<1>8. CallType'
  <2>1. locked' \in BOOLEAN
    BY <1>1, <1>4 DEF CallType
  <2>2. QED
    BY <1>1, <1>4, <1>5, <2>1 DEF CallType
<1>9. LoopType' /\ ReplyType' /\ BackendType'
  BY <1>2, <1>4, <1>5, StillTyped
<1>10. CopyType'
  <2>1. open' \in BOOLEAN
    <3>1. open' = open \/ open' = (open /\ want.kind # "resume")
      BY DEF Record, AskLocked, sessionVars
    <3>2. QED
      BY <1>1, <3>1 DEF CopyType
  <2>2. QED
    BY <1>1, <1>4, <1>5, <2>1 DEF CopyType
<1>11. PendingType'
  <2>1. CASE Record
    <3>1. pending' = Recorded
      BY <2>1 DEF Record
    <3>2. generation \in Nat /\ want.patch \in Patches /\ asked \in 0 .. asked
      BY <1>1, <1>2, WantMeans DEF CopyType
    <3>3. Recorded = pending \/ Recorded = [generation |-> generation, patch |-> want.patch, by |-> asked]
      BY DEF Recorded
    <3>4. QED
      BY <1>1, <1>5, <3>1, <3>2, <3>3 DEF PendingType
  <2>2. CASE AskLocked
    <3>1. pending' = pending
      BY <2>2 DEF AskLocked
    <3>2. QED
      BY <1>2, <1>5, <3>1, StillTyped
  <2>3. QED
    BY <2>1, <2>2
<1>12. QED
  BY <1>7, <1>8, <1>9, <1>10, <1>11, PartsNext DEF Parts

LEMMA AnswersTyped ==
  ASSUME SettingsTypeOK, AnswerFails \/ Accepted \/ Reverted \/ Resumed
  PROVE  SettingsTypeOK'
<1>1. CallType /\ LoopType /\ CopyType /\ PendingType /\ BackendType
  BY PartsMean DEF Parts
<1>2. asked \in Nat /\ reported \in Nat /\ asked <= asked /\ reported <= reported
      /\ reported \in 0 .. reported
  BY Bounds
<1>3. /\ UNCHANGED <<requests, backendVars, refused, generation>> /\ reply' = Says(Unset)
      /\ UNCHANGED asked
  BY DEF AnswerFails, Accepted, Reverted, Resumed, sessionVars, requestVars, Returns
<1>4. UNCHANGED <<reported, queued>>
  BY <1>3 DEF backendVars
<1>5. ReplyType' /\ LineType' /\ BackendType'
  <2>1. LineType' /\ BackendType'
    BY <1>2, <1>3, <1>4, StillTyped
  <2>2. ReplyType'
    BY <1>3 DEF ReplyType
  <2>3. QED
    BY <2>1, <2>2
<1>6. Nothing \in [generation : Nat, patch : Patches, by : 0 .. asked]
  BY <1>2, NoPatchMeans DEF Nothing
<1>7. CASE AnswerFails
  <2>1. Returns("error") /\ UNCHANGED sessionVars /\ pending' \in {Nothing, pending}
        /\ uncertain' = (uncertain \/ (want.kind = "revert" /\ reply.what = Unset))
    BY <1>7 DEF AnswerFails
  <2>2. uncertain' \in BOOLEAN
    BY <2>1
  <2>3. CallType' /\ LoopType'
    BY <1>3, <1>4, <2>1, <2>2, ReturnsTyped
  <2>4. CopyType'
    BY <1>2, <1>3, <1>4, <2>1, StillTyped
  <2>5. PendingType'
    BY <1>1, <1>3, <1>6, <2>1 DEF PendingType
  <2>6. QED
    BY <1>5, <2>3, <2>4, <2>5, PartsNext DEF Parts
<1>8. CASE Accepted
  <2>1. /\ phase' = "after"
        /\ UNCHANGED <<requestVars, said, lockVars, loopVars, sessionVars, pending, uncertain>>
    BY <1>8 DEF Accepted, Moves
  <2>2. CallType'
    BY <1>1, <1>3, <2>1 DEF CallType, requestVars, lockVars
  <2>3. LoopType' /\ CopyType' /\ PendingType'
    BY <1>2, <1>3, <1>4, <2>1, StillTyped DEF lockVars
  <2>4. QED
    BY <1>5, <2>2, <2>3, PartsNext DEF Parts
<1>9. CASE Reverted \/ Resumed
  <2>1. /\ phase' = "last" /\ locked' = FALSE /\ fence' = reported
        /\ UNCHANGED <<requestVars, said, loopVars, uncertain>>
    BY <1>9 DEF Reverted, Resumed, Moves
  <2>2. CallType'
    BY <1>1, <1>3, <2>1 DEF CallType, requestVars
  <2>3. LoopType'
    BY <1>1, <1>2, <1>4, <2>1 DEF LoopType, loopVars
  <2>4. CopyType' /\ PendingType'
    <3>1. CASE Reverted
      BY <1>2, <1>3, <1>4, <3>1, StillTyped DEF Reverted
    <3>2. CASE Resumed
      <4>1. /\ reply.at \in 1 .. reported /\ reply.settings \in [Fields -> Values]
            /\ Covered \subseteq Fields
        BY <3>2, ReplyMeans, SettingsAssumption DEF Resumed, SettingsAssumption, Settings
      <4>2. open' = TRUE /\ overlay' = [f \in Covered |-> reply.settings[f]]
            /\ cached' = Over(cached, overlay') /\ cutoff' = reply.at /\ pending' = Nothing
        BY <3>2 DEF Resumed
      <4>3. overlay' \in [Covered -> Values]
        BY <4>1, <4>2
      <4>4. cached' \in [Fields -> Values \union {Unset}]
        <5>1. \A f \in DOMAIN overlay' : overlay'[f] \in Values
          BY <4>3
        <5>2. cached \in [Fields -> Values \union {Unset}]
          BY <1>1 DEF CopyType
        <5>3. QED
          BY <4>2, <5>1, <5>2, OverTyped
      <4>5. cutoff' \in 0 .. reported'
        BY <1>2, <1>4, <4>1, <4>2
      <4>6. CopyType'
        BY <1>1, <1>3, <4>2, <4>3, <4>4, <4>5 DEF CopyType
      <4>7. PendingType'
        BY <1>3, <1>6, <4>2 DEF PendingType
      <4>8. QED
        BY <4>6, <4>7
    <3>3. QED
      BY <1>9, <3>1, <3>2
  <2>5. QED
    BY <1>5, <2>2, <2>3, <2>4, PartsNext DEF Parts
<1>10. QED
  BY <1>7, <1>8, <1>9

LEMMA UpdatesTyped ==
  ASSUME updates' \in Seq(Notice), effective' \in Settings, reported' \in 0 .. MaxReported,
         \A e \in ToSet(updates') : e.at \in 1 .. reported'
  PROVE  BackendType'
<1>1. \A k \in DOMAIN updates' : updates'[k] \in ToSet(updates')
  BY DEF ToSet
<1>2. QED
  BY <1>1 DEF BackendType

LEMMA DeliverTyped == ASSUME SettingsTypeOK, Deliver PROVE SettingsTypeOK'
<1>1. CallType /\ LoopType /\ CopyType /\ BackendType
  BY PartsMean DEF Parts
<1>2. asked \in Nat /\ reported \in Nat /\ asked <= asked /\ reported <= reported
  BY Bounds
<1>3. /\ updates # <<>> /\ updates' = Tail(updates) /\ cached' = Observed(Head(updates))
      /\ generation' = generation + 1 /\ woken' = (woken \/ Hears)
      /\ UNCHANGED <<requestVars, phase, said, lockVars, loop, reply, open, overlay, cutoff,
                     pending, requests, queued, effective, reported, refused, uncertain>>
  BY DEF Deliver
<1>4. updates \in Seq(Notice) /\ \A e \in ToSet(updates) : e \in Notice /\ e.at \in 1 .. reported
  BY UpdatesMean
<1>5. /\ Head(updates) \in Notice /\ Tail(updates) \in Seq(Notice)
      /\ \A e \in ToSet(Tail(updates)) : e \in ToSet(updates)
  BY <1>3, <1>4, HeadAndTail
<1>6. CallType'
  BY <1>1, <1>3 DEF CallType, requestVars, lockVars
<1>7. LoopType'
  <2>1. woken' \in BOOLEAN
    BY <1>3
  <2>2. QED
    BY <1>1, <1>3, <2>1 DEF LoopType, lockVars
<1>8. UNCHANGED <<asked, reported, requests, queued>>
  BY <1>3 DEF requestVars
<1>9. ReplyType' /\ PendingType' /\ LineType'
  BY <1>2, <1>3, <1>8, StillTyped
<1>10. CopyType'
  <2>1. Head(updates).settings \in Settings /\ overlay \in [Covered -> Values]
    BY <1>1, <1>5 DEF Notice, CopyType
  <2>2. cached' \in [Fields -> Values]
    BY <1>3, <2>1, ObservedMeans DEF Settings
  <2>3. cached' \in [Fields -> Values \union {Unset}]
    BY <2>2
  <2>4. generation' \in Nat
    BY <1>1, <1>3 DEF CopyType
  <2>5. QED
    BY <1>1, <1>3, <2>3, <2>4 DEF CopyType
<1>11. BackendType'
  BY <1>1, <1>3, <1>4, <1>5, UpdatesTyped DEF BackendType
<1>12. QED
  BY <1>6, <1>7, <1>9, <1>10, <1>11, PartsNext DEF Parts

\* What a step of the backend makes effective, it reports if it changes anything.
LEMMA AppliesMeans ==
  ASSUME SettingsTypeOK, NEW settings \in Settings, Applies(settings)
  PROVE  /\ effective' = settings /\ reported' \in Nat /\ reported <= reported' /\ BackendType'
         /\ \/ settings = effective /\ UNCHANGED <<reported, updates>>
            \/ /\ settings # effective /\ reported' = reported + 1
               /\ updates' = Append(updates, [at |-> reported + 1, settings |-> settings])
               /\ [at |-> reported + 1, settings |-> settings] \in Notice
<1>1. BackendType /\ reported \in Nat /\ MaxReported \in Nat
  BY Bounds, PartsMean, SettingsAssumption DEF Parts, SettingsAssumption
<1>2. updates \in Seq(Notice) /\ \A e \in ToSet(updates) : e.at \in 1 .. reported
  BY UpdatesMean
<1>3. effective' = settings
  BY DEF Applies
<1>4. CASE settings = effective /\ UNCHANGED <<reported, updates>>
  BY <1>1, <1>3, <1>4 DEF BackendType
<1>5. CASE ~(settings = effective /\ UNCHANGED <<reported, updates>>)
  <2> DEFINE e == [at |-> reported + 1, settings |-> settings]
  <2>1. /\ settings # effective /\ reported < MaxReported /\ reported' = reported + 1
        /\ updates' = Append(updates, e)
    BY <1>5 DEF Applies
  <2>2. e \in Notice /\ e.at \in 1 .. reported'
    BY <1>1, <2>1 DEF Notice
  <2> HIDE DEF e
  <2>3. updates' \in Seq(Notice) /\ \A u \in ToSet(updates') : u = e \/ u \in ToSet(updates)
    BY <1>2, <2>1, <2>2, Appending
  <2>4. \A n \in 1 .. reported : n \in 1 .. reported'
    BY <1>1, <2>1
  <2>5. \A u \in ToSet(updates') : u.at \in 1 .. reported'
    BY <1>2, <2>2, <2>3, <2>4
  <2>6. reported' \in 0 .. MaxReported /\ reported' \in Nat /\ reported <= reported'
    BY <1>1, <2>1
  <2>7. BackendType'
    BY <1>3, <2>3, <2>5, <2>6, UpdatesTyped
  <2>8. QED
    BY <1>3, <2>1, <2>2, <2>6, <2>7 DEF e
<1>6. QED
  BY <1>4, <1>5

LEMMA LineTyped ==
  ASSUME SettingsTypeOK, asked' = asked, requests' \in Seq(Ask), queued' \in Seq(Ask),
         \A m \in Outstanding' : m \in Outstanding
  PROVE  LineType'
<1>1. \A m \in Outstanding : m.by \in 1 .. asked
  BY OutstandingMeans
<1>2. QED
  BY <1>1 DEF LineType

LEMMA BackendTyped ==
  ASSUME SettingsTypeOK,
         \/ BackendRefuses \/ BackendAccepts \/ BackendApplies
         \/ \E patch \in Patches : BackendReverts(patch)
         \/ \E settings \in Settings : BackendResumes(settings)
  PROVE  SettingsTypeOK'
<1>1. CallType /\ LoopType /\ BackendType /\ ReplyType
  BY PartsMean DEF Parts
<1>2. asked \in Nat /\ reported \in Nat /\ asked <= asked /\ reported <= reported
  BY Bounds
<1>3. ASSUME UNCHANGED <<requestVars, phase, said, lockVars, loopVars, sessionVars, pending,
                         uncertain>>,
             refused' \subseteq 1 .. asked, reported' \in Nat, reported <= reported',
             ReplyType', LineType', BackendType'
      PROVE  SettingsTypeOK'
  <2>1. UNCHANGED <<asked, want, locked, fence>>
    BY <1>3 DEF requestVars, lockVars
  <2>2. CallType'
    BY <1>1, <1>3, <2>1 DEF CallType
  <2>3. LoopType' /\ CopyType' /\ PendingType'
    BY <1>2, <1>3, <2>1, StillTyped
  <2>4. QED
    BY <1>3, <2>2, <2>3, PartsNext DEF Parts
<1>4. ASSUME reply' \in {reply, Says("refused"), Says("accepted")}, reported' = reported
      PROVE  ReplyType'
  BY <1>1, <1>4 DEF ReplyType, Says
<1>5. refused \subseteq 1 .. asked
  BY <1>1 DEF CallType
<1>6. CASE BackendRefuses
  <2>1. /\ requests # <<>> /\ requests' = Tail(requests) /\ queued' = queued
        /\ reply' \in {reply, Says("refused")}
        /\ refused' \subseteq refused \union {Head(requests).by}
        /\ UNCHANGED <<requestVars, phase, said, lockVars, loopVars, sessionVars, pending,
                       backendVars, uncertain, reported>>
    BY <1>6 DEF BackendRefuses, Reads, backendVars
  <2>2. asked' = asked
    BY <2>1 DEF requestVars
  <2>3. LineType'
    BY <2>1, <2>2, Reading, LineTyped
  <2>4. refused' \subseteq 1 .. asked
    BY <1>5, <2>1, FirstRead
  <2>5. BackendType'
    BY <1>2, <2>1, <2>2, StillTyped
  <2>6. ReplyType'
    BY <1>4, <2>1
  <2>7. QED
    BY <1>2, <1>3, <2>1, <2>3, <2>4, <2>5, <2>6
<1>7. CASE BackendAccepts
  <2>1. /\ requests # <<>> /\ requests' = Tail(requests)
        /\ queued' = Append(queued, Head(requests)) /\ reply' \in {reply, Says("accepted")}
        /\ UNCHANGED <<requestVars, phase, said, lockVars, loopVars, sessionVars, pending,
                       effective, reported, updates, uncertain, refused>>
    BY <1>7 DEF BackendAccepts, Reads
  <2>2. asked' = asked
    BY <2>1 DEF requestVars
  <2>3. LineType'
    BY <2>1, <2>2, Accepting, LineTyped
  <2>4. BackendType'
    BY <1>1, <2>1 DEF BackendType
  <2>5. ReplyType'
    BY <1>4, <2>1
  <2>6. QED
    BY <1>2, <1>3, <1>5, <2>1, <2>3, <2>4, <2>5
<1>8. CASE BackendApplies
  <2>1. /\ queued # <<>> /\ queued' = Tail(queued) /\ requests' = requests
        /\ Applies(Over(effective, Head(queued).patch))
        /\ UNCHANGED <<requestVars, phase, said, lockVars, loopVars, sessionVars, pending,
                       reply, uncertain, refused>>
    BY <1>8 DEF BackendApplies
  <2>2. asked' = asked
    BY <2>1 DEF requestVars
  <2>3. LineType' /\ Head(queued).patch \in Patches
    BY <2>1, <2>2, Applying, LineTyped
  <2>4. Over(effective, Head(queued).patch) \in Settings
    BY <2>3, UpdatesMean, OverMatches
  <2>5. BackendType' /\ reported' \in Nat /\ reported <= reported'
    BY <2>1, <2>4, AppliesMeans
  <2>6. ReplyType'
    BY <1>2, <2>1, <2>2, <2>5, StillTyped
  <2>7. QED
    BY <1>3, <1>5, <2>1, <2>3, <2>5, <2>6
<1>9. ASSUME NEW patch \in Patches, BackendReverts(patch) PROVE SettingsTypeOK'
  <2>1. /\ requests # <<>> /\ requests' = Tail(requests) /\ queued' = queued
        /\ reply' = reply \/ reply' = Says("accepted")
        /\ Applies(Over(effective, patch))
        /\ UNCHANGED <<requestVars, phase, said, lockVars, loopVars, sessionVars, pending,
                       uncertain, refused>>
    BY <1>9 DEF BackendReverts, Reads
  <2>2. asked' = asked
    BY <2>1 DEF requestVars
  <2>3. LineType'
    BY <2>1, <2>2, Reading, LineTyped
  <2>4. Over(effective, patch) \in Settings
    BY UpdatesMean, OverMatches
  <2>5. BackendType' /\ reported' \in Nat /\ reported <= reported'
    BY <2>1, <2>4, AppliesMeans
  <2>6. ReplyType'
    <3>1. CASE reply' = reply
      BY <1>2, <2>2, <2>5, <3>1, StillTyped
    <3>2. CASE reply' = Says("accepted")
      BY <3>2 DEF ReplyType, Says
    <3>3. QED
      BY <2>1, <3>1, <3>2
  <2>7. QED
    BY <1>3, <1>5, <2>1, <2>3, <2>5, <2>6
<1>10. ASSUME NEW settings \in Settings, BackendResumes(settings) PROVE SettingsTypeOK'
  <2>1. /\ requests # <<>> /\ requests' = Tail(requests) /\ queued' = queued
        /\ \/ reply' = reply
           \/ reply' = [what |-> "resumed", at |-> reported + 1, settings |-> settings]
        /\ effective' = settings /\ reported' = reported + 1 /\ reported < MaxReported
        /\ UNCHANGED <<requestVars, phase, said, lockVars, loopVars, sessionVars, pending,
                       updates, uncertain, refused>>
    BY <1>10 DEF BackendResumes, Reads
  <2>2. asked' = asked
    BY <2>1 DEF requestVars
  <2>3. LineType'
    BY <2>1, <2>2, Reading, LineTyped
  <2>4. reported' \in Nat /\ reported <= reported' /\ reported' \in 0 .. MaxReported
        /\ reported + 1 \in 1 .. reported'
    BY <1>2, <2>1, SettingsAssumption DEF SettingsAssumption
  <2>5. BackendType'
    <3>1. \A n \in 1 .. reported : n \in 1 .. reported'
      BY <1>2, <2>1
    <3>2. \A e \in ToSet(updates') : e.at \in 1 .. reported'
      BY <2>1, <3>1, UpdatesMean
    <3>3. updates' \in Seq(Notice) /\ effective' \in Settings
      BY <2>1, UpdatesMean
    <3>4. QED
      BY <2>4, <3>2, <3>3, UpdatesTyped
  <2>6. ReplyType'
    <3>1. CASE reply' = reply
      BY <1>2, <2>2, <2>4, <3>1, StillTyped
    <3>2. CASE reply' # reply
      <4>1. reply' \in [what : {"resumed"}, at : 1 .. reported', settings : Settings]
        BY <2>1, <2>4, <3>2
      <4>2. QED
        BY <4>1 DEF ReplyType
    <3>3. QED
      BY <3>1, <3>2
  <2>7. QED
    BY <1>3, <1>5, <2>1, <2>3, <2>4, <2>5, <2>6
<1>11. QED
  BY <1>6, <1>7, <1>8, <1>9, <1>10

LEMMA StutterTyped == ASSUME SettingsTypeOK, UNCHANGED settingsVars PROVE SettingsTypeOK'
<1>1. CallType /\ LoopType
  BY PartsMean DEF Parts
<1>2. asked \in Nat /\ reported \in Nat /\ asked <= asked /\ reported <= reported
  BY Bounds
<1>3. /\ UNCHANGED <<asked, want, phase, said, locked, fence, loopVars, reply, sessionVars>>
      /\ UNCHANGED <<pending, requests, queued, reported, backendVars, refused, uncertain>>
  BY DEF settingsVars, requestVars, lockVars, backendVars
<1>4. LoopType' /\ ReplyType' /\ CopyType' /\ PendingType' /\ LineType' /\ BackendType'
  BY <1>2, <1>3, StillTyped
<1>5. CallType'
  BY <1>1, <1>3 DEF CallType
<1>6. QED
  BY <1>4, <1>5, PartsNext DEF Parts

LEMMA Typed ==
  ASSUME SettingsTypeOK, Places, [SettingsNext]_settingsVars PROVE SettingsTypeOK'
<1>1. CASE UNCHANGED settingsVars
  BY <1>1, StutterTyped
<1>2. CASE SettingsNext
  <2>1. CASE Record \/ AskLocked
    BY <2>1, SendingTyped DEF Places
  <2>2. CASE AnswerFails \/ Accepted \/ Reverted \/ Resumed
    BY <2>2, AnswersTyped
  <2>3. CASE Deliver
    BY <2>3, DeliverTyped
  <2>4. CASE \/ BackendRefuses \/ BackendAccepts \/ BackendApplies
             \/ \E patch \in Patches : BackendReverts(patch)
             \/ \E settings \in Settings : BackendResumes(settings)
    BY <2>4, BackendTyped
  <2>5. CASE \/ \E kind \in Operations, patch \in Patches : Begins(kind, patch)
             \/ PassSync \/ SyncTimesOut \/ Enable \/ Look \/ Wait \/ Wake \/ ReconcileFails
             \/ Decide
    BY <2>5, WayTyped
  <2>6. QED
    BY <1>2, <2>1, <2>2, <2>3, <2>4, <2>5 DEF SettingsNext
<1>3. QED
  BY <1>1, <1>2

----------------------------------------------------------------------------
(* Where a request is *)

LEMMA ReturnsPlaces ==
  ASSUME Places, NEW how, Returns(how), open' = open, pending' \in {pending, Nothing}
  PROVE  Places'
<1>1. /\ phase' = "idle" /\ loop' = Unset /\ want' = [kind |-> Unset, patch |-> NoPatch]
      /\ asked' = asked
  BY DEF Returns
<1>2. want'.kind = Unset /\ Unset \notin Mutations /\ Unset \notin {"resume", "revert"}
  BY <1>1 DEF Unset, Mutations
<1>3. Control'
  BY <1>1, <1>2 DEF Control, Mutations, Unset
<1>4. pending' # Nothing => pending'.by > 0
  BY DEF Places, Held
<1>5. Held'
  BY <1>1, <1>2, <1>4 DEF Held
<1>6. QED
  BY <1>3, <1>5 DEF Places

LEMMA NothingMeans == Nothing.by = 0 /\ Nothing.generation = 0 /\ Nothing.patch = NoPatch
  BY DEF Nothing

LEMMA PlacesKeep ==
  ASSUME SettingsTypeOK, Places, Answered, [SettingsNext]_settingsVars
  PROVE  Places'
<1>1. /\ asked \in Nat /\ pending.by \in Nat /\ pending.by <= asked
  <2>1. PendingType
    BY PartsMean DEF Parts
  <2>2. QED
    BY <2>1, Bounds DEF PendingType
<1>2. Control /\ Held
  BY DEF Places
<1>3. ASSUME UNCHANGED <<phase, want, open, asked>>,
             loop' = Unset \/ (phase \in {"before", "after"} /\ pending # Nothing),
             pending' = pending
      PROVE  Places'
  BY <1>2, <1>3 DEF Places, Control, Held
<1>4. ASSUME NEW kind \in Operations, NEW patch \in Patches, Begins(kind, patch)
      PROVE  Places'
  <2>1. /\ asked' = asked + 1
        /\ kind = "resume" \/ open
        /\ (patch = NoPatch) = (kind \in {"resume", "revert"}) \/ kind = "turn"
        /\ phase = "idle" /\ phase' = IF kind \in Mutations THEN "before" ELSE "fence"
        /\ want' = [kind |-> kind, patch |-> patch]
        /\ UNCHANGED <<loop, open, pending>>
    BY <1>4 DEF Begins, Moves, loopVars, sessionVars
  <2>2. /\ want'.kind = kind /\ want'.patch = patch /\ kind # Unset
        /\ kind \in {"resume", "revert"} => patch = NoPatch
    BY <2>1 DEF Operations, Mutations, Unset
  <2>3. Control'
    BY <2>1, <2>2 DEF Control, Operations, Mutations
  <2>4. pending'.by < asked'
    BY <1>1, <2>1
  <2>5. loop' = Unset
    BY <1>2, <2>1 DEF Held
  <2>6. Held'
    BY <1>2, <2>1, <2>4, <2>5 DEF Held
  <2>7. QED
    BY <2>3, <2>6 DEF Places
<1>5. CASE PassSync
  <2>1. CASE phase = "last" /\ Returns("ok")
    BY <1>5, <2>1, ReturnsPlaces DEF PassSync, sessionVars
  <2>2. CASE Moves("fence", IF want.kind = "resume" THEN "lock" ELSE "before")
    <3>1. /\ phase = "fence" /\ phase' = IF want.kind = "resume" THEN "lock" ELSE "before"
          /\ UNCHANGED <<open, pending>>
      BY <1>5, <2>2 DEF PassSync, Moves, sessionVars
    <3>2. UNCHANGED <<asked, want, loop>>
      BY <1>5, <3>1 DEF PassSync, requestVars, loopVars
    <3>3. want.kind \in {"resume", "revert"} /\ pending.by < asked /\ loop = Unset
      BY <1>2, <3>1 DEF Control, Held
    <3>4. Control'
      BY <1>2, <3>1, <3>2, <3>3 DEF Control
    <3>5. Held'
      BY <1>2, <3>1, <3>2, <3>3 DEF Held, Mutations
    <3>6. QED
      BY <3>4, <3>5 DEF Places
  <2>3. QED
    BY <1>5, <2>1, <2>2 DEF PassSync
<1>6. CASE SyncTimesOut \/ ReconcileFails
  BY <1>6, ReturnsPlaces DEF SyncTimesOut, ReconcileFails, sessionVars
<1>7. ASSUME Reconciled, open' = open, pending' \in {pending, Nothing}, pending' = Nothing
      PROVE  Places'
  <2>1. CASE phase = "after" /\ Returns("ok")
    BY <1>7, <2>1, ReturnsPlaces
  <2>2. CASE phase = "before"
    <3>1. /\ phase' = CASE want.kind = "set_config" -> "decide"
                        [] want.kind = "revert" -> "lock"
                        [] OTHER -> "record"
          /\ loop' = Unset /\ UNCHANGED <<asked, want>>
      BY <1>7, <2>2 DEF Reconciled, requestVars
    <3>2. want.kind \in Mutations \union {"revert"} /\ open
      BY <1>2, <2>2 DEF Control, Mutations
    <3>3. \/ want.kind = "set_config" /\ phase' = "decide"
          \/ want.kind = "revert" /\ phase' = "lock"
          \/ want.kind \in Mutations /\ phase' = "record"
      BY <3>1, <3>2 DEF Mutations
    <3>4. Control'
      <4>1. want' = want /\ open'
        BY <1>7, <3>1, <3>2
      <4>2. want.kind # Unset /\ "set_config" \in Mutations /\ "revert" \notin Mutations
        BY <3>2 DEF Mutations, Unset
      <4>3. want.kind \in {"resume", "revert"} => want.patch = NoPatch
        BY <1>2 DEF Control
      <4>4. QED
        BY <3>3, <4>1, <4>2, <4>3 DEF Control
    <3>5. pending'.by = 0 /\ 0 < asked
      BY <1>1, <1>2, <1>7, <2>2, NothingMeans DEF Held
    <3>6. Held'
      BY <1>7, <3>1, <3>3, <3>5 DEF Held, Mutations
    <3>7. QED
      BY <3>4, <3>6 DEF Places
  <2>3. QED
    BY <1>7, <2>1, <2>2 DEF Reconciled
<1>8. CASE Enable
  <2>1. UNCHANGED <<open, pending>>
    BY <1>8 DEF Enable, sessionVars
  <2>2. CASE pending = Nothing /\ Reconciled
    BY <1>7, <2>1, <2>2
  <2>3. CASE ~(pending = Nothing /\ Reconciled)
    BY <1>3, <1>8, <2>1, <2>3 DEF Enable, Reconciles, requestVars
  <2>4. QED
    BY <2>2, <2>3
<1>9. CASE Look
  <2>1. UNCHANGED open
    BY <1>9 DEF Look, sessionVars
  <2>2. CASE pending' = Nothing /\ Reconciled
    BY <1>7, <2>1, <2>2
  <2>3. CASE ~(pending' = Nothing /\ Reconciled)
    <3>1. /\ UNCHANGED <<phase, want, asked, pending>>
          /\ phase \in {"before", "after"} /\ loop = "looking"
      BY <1>9, <2>3 DEF Look, Reconciles, requestVars
    <3>2. pending # Nothing
      BY <1>2, <3>1 DEF Held, Unset
    <3>3. QED
      BY <1>3, <2>1, <3>1, <3>2
  <2>4. QED
    BY <2>2, <2>3
<1>10. CASE Wait \/ Wake
  <2>1. UNCHANGED <<phase, want, open, asked, pending>> /\ loop \in {"looked", "waiting"}
    BY <1>10 DEF Wait, Wake, requestVars, sessionVars
  <2>2. phase \in {"before", "after"} /\ pending # Nothing
    BY <1>2, <2>1 DEF Held, Unset
  <2>3. QED
    BY <1>3, <2>1, <2>2
<1>11. CASE Decide
  <2>1. CASE Returns("noop")
    BY <1>11, <2>1, ReturnsPlaces DEF Decide, sessionVars
  <2>2. CASE ~Returns("noop")
    <3>1. /\ phase = "decide" /\ phase' = "record"
          /\ UNCHANGED <<want, asked, loop, open, pending>>
      BY <1>11, <2>2 DEF Decide, Moves, requestVars, loopVars, sessionVars
    <3>2. Control'
      BY <1>2, <3>1 DEF Control, Mutations
    <3>3. Held'
      BY <1>2, <3>1 DEF Held
    <3>4. QED
      BY <3>2, <3>3 DEF Places
  <2>3. QED
    BY <2>1, <2>2
<1>12. CASE Record
  <2>1. /\ phase = "record" /\ phase' = "asked" /\ UNCHANGED <<want, asked, loop, open>>
        /\ pending' = Recorded
    BY <1>12 DEF Record, Moves, requestVars, loopVars, sessionVars
  <2>2. pending = Nothing /\ loop = Unset /\ want.kind \in Mutations /\ 0 < asked
    BY <1>1, <1>2, <2>1, NothingMeans DEF Control, Held
  <2>3. Control'
    BY <1>2, <2>1, <2>2 DEF Control, Mutations
  <2>4. pending' = Nothing \/ (pending'.by = asked /\ pending'.patch = want.patch)
    BY <2>1, <2>2 DEF Recorded
  <2>5. want.kind \notin {"resume", "revert"}
    BY <2>2 DEF Mutations
  <2>6. Held'
    BY <2>1, <2>2, <2>4, <2>5 DEF Held
  <2>7. QED
    BY <2>3, <2>6 DEF Places
<1>13. CASE AskLocked
  <2>1. /\ phase = "lock" /\ phase' = "asked" /\ UNCHANGED <<want, asked, loop, pending>>
        /\ open' = (open /\ want.kind # "resume")
    BY <1>13 DEF AskLocked, Moves, requestVars, loopVars
  <2>2. /\ loop = Unset /\ want.kind \in {"resume", "revert"} /\ pending.by < asked
        /\ want.kind = "revert" => pending = Nothing
    BY <1>2, <2>1 DEF Control, Held
  <2>3. Control'
    BY <1>2, <2>1, <2>2 DEF Control, Mutations
  <2>4. Held'
    BY <1>2, <2>1, <2>2 DEF Held, Mutations
  <2>5. QED
    BY <2>3, <2>4 DEF Places
<1>14. CASE AnswerFails
  <2>1. Returns("error") /\ open' = open /\ pending' \in {Nothing, pending}
    BY <1>14 DEF AnswerFails, sessionVars
  <2>2. QED
    BY <2>1, ReturnsPlaces
<1>15. CASE Accepted
  <2>1. /\ phase = "asked" /\ phase' = "after" /\ UNCHANGED <<want, asked, loop, open, pending>>
        /\ want.kind \in Mutations
    BY <1>15 DEF Accepted, Moves, requestVars, loopVars, sessionVars
  <2>2. Control'
    BY <1>2, <2>1 DEF Control, Mutations
  <2>3. Held'
    BY <1>2, <2>1 DEF Held, Mutations
  <2>4. QED
    BY <2>2, <2>3 DEF Places
<1>16. CASE Reverted \/ (Resumed /\ want.kind = "resume")
  <2>1. /\ phase = "asked" /\ phase' = "last" /\ UNCHANGED <<want, asked, loop>>
        /\ want.kind \in {"resume", "revert"} /\ pending' \in {pending, Nothing}
        /\ open' = open \/ open' = TRUE
        /\ want.kind = "revert" => pending' = pending
        /\ want.kind = "resume" => pending' = Nothing /\ open' = TRUE
    BY <1>16 DEF Reverted, Resumed, Moves, requestVars, loopVars, sessionVars
  <2>2. pending' = Nothing /\ loop = Unset
    BY <1>2, <2>1 DEF Held
  <2>3. pending'.by < asked
    BY <1>1, <1>2, <2>1, <2>2, NothingMeans DEF Held
  <2>4. open'
    BY <1>2, <2>1 DEF Control
  <2>5. Control'
    BY <1>2, <2>1, <2>4 DEF Control, Mutations
  <2>6. Held'
    BY <2>1, <2>2, <2>3 DEF Held, Mutations
  <2>7. QED
    BY <2>5, <2>6 DEF Places
<1>17. CASE Deliver
  <2>1. UNCHANGED <<phase, want, asked, loop, open, pending>>
    BY <1>17 DEF Deliver, requestVars
  <2>2. QED
    BY <1>2, <1>3, <2>1 DEF Held
<1>18. CASE \/ BackendRefuses \/ BackendAccepts \/ BackendApplies
            \/ \E patch \in Patches : BackendReverts(patch)
            \/ \E settings \in Settings : BackendResumes(settings)
  <2>1. UNCHANGED <<phase, want, asked, loop, open, pending>>
    BY <1>18 DEF BackendRefuses, BackendAccepts, BackendApplies, BackendReverts,
                 BackendResumes, requestVars, loopVars, sessionVars
  <2>2. QED
    BY <1>2, <1>3, <2>1 DEF Held
<1>19. CASE UNCHANGED settingsVars
  <2>1. UNCHANGED <<phase, want, asked, loop, open, pending>>
    BY <1>19 DEF settingsVars, requestVars, loopVars, sessionVars
  <2>2. QED
    BY <1>2, <1>3, <2>1 DEF Held
<1>20. Resumed => want.kind = "resume"
  BY DEF Resumed, Answered
<1>21. QED
  BY <1>4, <1>5, <1>6, <1>8, <1>9, <1>10, <1>11, <1>12, <1>13, <1>14, <1>15, <1>16, <1>17,
     <1>18, <1>19, <1>20 DEF SettingsNext

----------------------------------------------------------------------------
(* The requests the backend has *)

Early == {"before", "decide", "record", "fence", "lock"}

LEMMA SameLine ==
  ASSUME UNCHANGED <<requests, queued>>
  PROVE  /\ Outstanding' = Outstanding /\ Unread' = Unread /\ Unapplied' = Unapplied
         /\ Ordered => Ordered'
  BY DEF Outstanding, Unread, Unapplied, Ordered, InOrder

\* A step of the session that sends nothing.
LEMMA QuietLine ==
  ASSUME SettingsTypeOK, Queues, UNCHANGED <<requests, queued>>,
         asked' = asked \/ (asked' = asked + 1 /\ phase' # "asked" /\ phase = "idle"),
         asked' = asked /\ phase' \in Early => phase \in Early,
         phase' = "asked" => phase = "asked" /\ want' = want,
         ~uncertain' => ~uncertain /\ \/ phase # "asked" \/ phase' = "asked"
                                      \/ \A m \in Outstanding : m.kind # "revert",
         open' => open \/ Outstanding = {},
         pending' \in {pending, Nothing}
  PROVE  Queues'
<1>1. Ordered /\ Line /\ Own
  BY DEF Queues
<1>2. /\ Outstanding' = Outstanding /\ Unapplied' = Unapplied /\ Ordered'
  BY <1>1, SameLine
<1>3. asked \in Nat /\ \A m \in Outstanding : m.by \in Nat /\ m.by \in 1 .. asked
  BY Bounds, OutstandingMeans
<1>4. Line'
  <2>1. phase' \in Early => \A m \in Outstanding : m.by < asked'
    <3>1. CASE asked' = asked
      BY <1>1, <3>1 DEF Line, Early
    <3>2. CASE asked' = asked + 1
      BY <1>3, <3>2
    <3>3. QED
      BY <3>1, <3>2
  <2>2. phase' = "asked"
        => \A m \in Outstanding : m.by = asked' => m.kind = want'.kind /\ m.patch = want'.patch
    BY <1>1 DEF Line
  <2>3. open' => \A m \in Outstanding : m.kind # "resume"
    BY <1>1 DEF Line
  <2>4. ~uncertain' => \A m \in Outstanding : m.kind = "revert" => phase' = "asked" /\ m.by = asked'
    BY <1>1 DEF Line
  <2>5. /\ \A m \in Outstanding : m.kind \in {"resume", "revert"} => m.patch = NoPatch
        /\ \A q \in Unapplied : q.kind \in Mutations
    BY <1>1 DEF Line
  <2>6. QED
    BY <1>2, <2>1, <2>2, <2>3, <2>4, <2>5 DEF Line, Early
<1>5. Own'
  <2>1. CASE pending' = pending
    BY <1>1, <1>2, <2>1 DEF Own
  <2>2. CASE pending' = Nothing
    BY <1>2, <1>3, <2>2, NothingMeans DEF Own
  <2>3. QED
    BY <2>1, <2>2
<1>6. QED
  BY <1>2, <1>4, <1>5 DEF Queues

\* What a step of the backend leaves alone, and does to the requests.
LEMMA BackendLine ==
  ASSUME SettingsTypeOK, Ordered,
         \/ BackendRefuses \/ BackendAccepts \/ BackendApplies
         \/ \E patch \in Patches : BackendReverts(patch)
         \/ \E settings \in Settings : BackendResumes(settings)
  PROVE  /\ UNCHANGED <<phase, want, asked, said, fence, loop, woken, open, cached>>
         /\ UNCHANGED <<generation, overlay, cutoff, pending, uncertain>>
         /\ Ordered' /\ \A m \in Outstanding' : m \in Outstanding
         /\ \A m \in Unread' : m \in Unread
         /\ \A q \in Unapplied' : q \in Unapplied \/ q.kind \in Mutations
         /\ \E m \in Outstanding : TRUE
<1>1. /\ UNCHANGED <<phase, want, asked, said, fence, loop, woken, open, cached>>
      /\ UNCHANGED <<generation, overlay, cutoff, pending, uncertain>>
  BY DEF BackendRefuses, BackendAccepts, BackendApplies, BackendReverts, BackendResumes,
         requestVars, lockVars, loopVars, sessionVars
<1>2. CASE \/ BackendRefuses \/ \E patch \in Patches : BackendReverts(patch)
           \/ \E settings \in Settings : BackendResumes(settings)
  <2>1. requests # <<>> /\ requests' = Tail(requests) /\ queued' = queued
    BY <1>2 DEF BackendRefuses, BackendReverts, BackendResumes, Reads, backendVars
  <2>2. QED
    BY <1>1, <2>1, Reading, FirstRead
<1>3. CASE BackendAccepts
  <2>1. /\ requests # <<>> /\ requests' = Tail(requests)
        /\ queued' = Append(queued, Head(requests)) /\ Head(requests).kind \in Mutations
    BY <1>3 DEF BackendAccepts, Reads
  <2>2. QED
    BY <1>1, <2>1, Accepting, FirstRead
<1>4. CASE BackendApplies
  <2>1. queued # <<>> /\ queued' = Tail(queued) /\ requests' = requests
    BY <1>4 DEF BackendApplies
  <2>2. QED
    BY <1>1, <2>1, Applying
<1>5. QED
  BY <1>2, <1>3, <1>4

LEMMA BackendQueues ==
  ASSUME SettingsTypeOK, Queues,
         \/ BackendRefuses \/ BackendAccepts \/ BackendApplies
         \/ \E patch \in Patches : BackendReverts(patch)
         \/ \E settings \in Settings : BackendResumes(settings)
  PROVE  Queues'
<1>1. Ordered /\ Line /\ Own
  BY DEF Queues
<1>2. /\ UNCHANGED <<phase, want, asked, open, pending, uncertain>>
      /\ Ordered' /\ \A m \in Outstanding' : m \in Outstanding
      /\ \A q \in Unapplied' : q \in Unapplied \/ q.kind \in Mutations
  BY <1>1, BackendLine
<1>3. Line'
  BY <1>1, <1>2 DEF Line
<1>4. Own'
  BY <1>1, <1>2 DEF Own
<1>5. QED
  BY <1>2, <1>3, <1>4 DEF Queues

LEMMA SendingQueues ==
  ASSUME SettingsTypeOK, Places, Queues, Record \/ AskLocked
  PROVE  Queues'
<1>1. Ordered /\ Line /\ Own /\ Control /\ Held
  BY DEF Queues, Places
<1>2. /\ phase \in {"record", "lock"} /\ phase' = "asked"
      /\ requests' = Append(requests, Sent)
      /\ UNCHANGED <<asked, want, queued, uncertain>>
  BY DEF Record, AskLocked, Moves, requestVars, backendVars
<1>3. /\ Sent \in Ask /\ Sent.by = asked /\ Sent.kind = want.kind /\ Sent.patch = want.patch
      /\ asked \in Nat /\ pending.by < asked
  BY <1>1, <1>2, SentMeans
<1>4. \A m \in Outstanding : m.by < asked /\ m.by \in Nat /\ m.by \in 1 .. asked
  BY <1>1, <1>2, OutstandingMeans DEF Line
<1>5. /\ \A m \in Outstanding' : m = Sent \/ m \in Outstanding
      /\ Ordered' /\ Unapplied' = Unapplied
  BY <1>1, <1>2, <1>3, <1>4, Asking
<1>6. \A m \in Outstanding' : m.by = asked => m = Sent
  BY <1>3, <1>4, <1>5
<1>7. /\ open' => open /\ want.kind # "resume"
  <2>1. CASE Record
    BY <1>1, <2>1 DEF Record, Moves, sessionVars, Control, Mutations
  <2>2. CASE AskLocked
    BY <2>2 DEF AskLocked
  <2>3. QED
    BY <2>1, <2>2
<1>8. want.kind \in {"resume", "revert"} => want.patch = NoPatch
  BY <1>1 DEF Control
<1>9. Line'
  <2>1. \A m \in Outstanding' : m.kind \in {"resume", "revert"} => m.patch = NoPatch
    BY <1>1, <1>3, <1>5, <1>8 DEF Line
  <2>2. \A m \in Outstanding' : m.by = asked => m.kind = want.kind /\ m.patch = want.patch
    BY <1>3, <1>6
  <2>3. open' => \A m \in Outstanding' : m.kind # "resume"
    BY <1>1, <1>3, <1>5, <1>7 DEF Line
  <2>4. ~uncertain => \A m \in Outstanding' : m.kind = "revert" => m.by = asked
    BY <1>1, <1>2, <1>3, <1>5 DEF Line
  <2>5. \A q \in Unapplied : q.kind \in Mutations
    BY <1>1 DEF Line
  <2>6. QED
    BY <1>2, <1>5, <2>1, <2>2, <2>3, <2>4, <2>5 DEF Line
<1>10. Own'
  <2>1. CASE Record
    <3>1. pending = Nothing /\ want.kind \in Mutations /\ pending' = Recorded
      BY <1>1, <2>1 DEF Record, Moves, Control, Held
    <3>2. CASE pending' = Nothing
      <4>1. pending.by \in Nat /\ asked # 0
        BY <1>3, Bounds
      <4>2. \A m \in Outstanding : m.by # 0
        BY <1>3, <1>4
      <4>3. \A m \in Outstanding' : m.by # 0
        BY <1>3, <1>5, <4>1, <4>2
      <4>4. QED
        BY <3>2, <4>3, NothingMeans DEF Own
    <3>3. CASE pending' # Nothing
      <4>1. pending'.by = asked /\ pending'.patch = want.patch
        BY <3>1, <3>3 DEF Recorded
      <4>2. \A m \in Outstanding' : m.by <= asked
        BY <1>3, <1>4, <1>5
      <4>3. \A m \in Outstanding' : m.by = asked => m.kind \in Mutations /\ m.patch = want.patch
        BY <1>3, <1>6, <3>1
      <4>4. QED
        BY <4>1, <4>2, <4>3 DEF Own
    <3>4. QED
      BY <3>2, <3>3
  <2>2. CASE AskLocked
    <3>1. pending' = pending /\ phase = "lock"
      BY <2>2 DEF AskLocked, Moves
    <3>2. open' => pending = Nothing
      BY <1>1, <1>7, <3>1 DEF Control, Held
    <3>3. \A m \in Outstanding' : m.by = pending.by => m \in Outstanding
      BY <1>3, <1>5
    <3>4. \A m \in Outstanding' : m.by = pending.by => m.kind \in Mutations /\ m.patch = pending.patch
      BY <1>1, <3>3 DEF Own
    <3>5. QED
      BY <3>1, <3>2, <3>4 DEF Own
  <2>3. QED
    BY <2>1, <2>2
<1>11. QED
  BY <1>5, <1>9, <1>10 DEF Queues

LEMMA QueuesKeep ==
  ASSUME SettingsTypeOK, Places, Queues, Answers, [SettingsNext]_settingsVars
  PROVE  Queues'
<1>1. Line /\ Control /\ Answered /\ Still
  BY DEF Queues, Places, Answers
<1>2. CASE \E kind \in Operations, patch \in Patches : Begins(kind, patch)
  <2>1. PICK kind \in Operations, patch \in Patches : Begins(kind, patch)
    BY <1>2
  <2>2. /\ asked' = asked + 1 /\ phase = "idle" /\ phase' \in {"before", "fence"}
        /\ UNCHANGED <<requests, queued, open, pending, uncertain>>
    BY <2>1 DEF Begins, Moves, sessionVars, backendVars
  <2>3. asked \in Nat
    BY Bounds
  <2>4. QED
    BY <2>2, <2>3, QuietLine
<1>3. ASSUME UNCHANGED <<requests, queued, asked, want, open, pending, uncertain>>,
             phase' = phase \/ (phase \in Early /\ phase' \in Early)
      PROVE  Queues'
  BY <1>3, QuietLine DEF Early
<1>4. ASSUME NEW how, Returns(how), UNCHANGED <<requests, queued, open>>,
             ~uncertain' => ~uncertain /\ \/ phase # "asked"
                                          \/ \A m \in Outstanding : m.kind # "revert",
             pending' \in {pending, Nothing}
      PROVE  Queues'
  <2>1. asked' = asked /\ phase' = "idle"
    BY <1>4 DEF Returns
  <2>2. QED
    BY <1>4, <2>1, QuietLine DEF Early
<1>5. CASE PassSync
  <2>1. UNCHANGED <<requests, queued, open, pending, uncertain>>
    BY <1>5 DEF PassSync, sessionVars, backendVars
  <2>2. CASE phase = "last" /\ Returns("ok")
    BY <1>4, <2>1, <2>2
  <2>3. CASE ~(phase = "last" /\ Returns("ok"))
    BY <1>3, <1>5, <2>1, <2>3 DEF PassSync, Moves, Early, requestVars
  <2>4. QED
    BY <2>2, <2>3
<1>6. CASE SyncTimesOut
  BY <1>4, <1>6 DEF SyncTimesOut, sessionVars, backendVars
<1>7. ASSUME Reconciled, UNCHANGED <<requests, queued, open, uncertain>>, Reconciles,
             pending' \in {pending, Nothing}
      PROVE  Queues'
  <2>1. CASE phase = "after" /\ Returns("ok")
    BY <1>4, <1>7, <2>1
  <2>2. CASE ~(phase = "after" /\ Returns("ok"))
    <3>1. phase = "before" /\ phase' \in {"decide", "lock", "record"} /\ UNCHANGED <<asked, want>>
      <4>1. phase = "before" /\ UNCHANGED <<asked, want>>
        BY <1>7, <2>2 DEF Reconciled, requestVars
      <4>2. phase' = CASE want.kind = "set_config" -> "decide"
                       [] want.kind = "revert" -> "lock"
                       [] OTHER -> "record"
        BY <1>7, <2>2 DEF Reconciled
      <4>3. QED
        BY <4>1, <4>2
    <3>2. phase \in Early /\ phase' \in Early
      BY <3>1 DEF Early
    <3>3. phase' # "asked" /\ phase # "asked"
      BY <3>1
    <3>4. QED
      BY <1>7, <3>1, <3>2, <3>3, QuietLine
  <2>3. QED
    BY <2>1, <2>2
<1>8. CASE Enable
  <2>1. UNCHANGED <<requests, queued, open, uncertain, pending>> /\ Reconciles
    BY <1>8 DEF Enable, sessionVars, backendVars
  <2>2. CASE Reconciled
    BY <1>7, <2>1, <2>2
  <2>3. CASE ~Reconciled
    BY <1>3, <1>8, <2>1, <2>3 DEF Enable, requestVars
  <2>4. QED
    BY <2>2, <2>3
<1>9. CASE Look
  <2>1. UNCHANGED <<requests, queued, open, uncertain>> /\ Reconciles
    BY <1>9 DEF Look, sessionVars, backendVars
  <2>2. CASE Reconciled /\ pending' = Nothing
    BY <1>7, <2>1, <2>2
  <2>3. CASE ~(Reconciled /\ pending' = Nothing)
    BY <1>3, <1>9, <2>1, <2>3 DEF Look, requestVars
  <2>4. QED
    BY <2>2, <2>3
<1>10. CASE Wait \/ Wake \/ Deliver
  BY <1>3, <1>10 DEF Wait, Wake, Deliver, requestVars, sessionVars, backendVars
<1>11. CASE ReconcileFails
  <2>1. phase # "asked"
    BY <1>11 DEF ReconcileFails, Places, Held
  <2>2. QED
    BY <1>4, <1>11, <2>1 DEF ReconcileFails, sessionVars, backendVars
<1>12. CASE Decide
  <2>1. UNCHANGED <<requests, queued, open, pending, uncertain>> /\ phase = "decide"
    BY <1>12 DEF Decide, sessionVars, backendVars, Moves
  <2>2. CASE Returns("noop")
    BY <1>4, <2>1, <2>2
  <2>3. CASE ~Returns("noop")
    BY <1>3, <1>12, <2>1, <2>3 DEF Decide, Moves, Early, requestVars
  <2>4. QED
    BY <2>2, <2>3
<1>13. ASSUME phase = "asked", ~uncertain, reply.what = "refused" \/ want.kind # "revert"
       PROVE  \A m \in Outstanding : m.kind # "revert"
  <2>1. ASSUME NEW m \in Outstanding, m.kind = "revert" PROVE FALSE
    <3>1. m.by = asked /\ m.kind = want.kind
      BY <1>1, <1>13, <2>1 DEF Line
    <3>2. reply.what = "refused"
      BY <1>13, <2>1, <3>1
    <3>3. asked < asked /\ asked \in Nat
      BY <1>1, <3>1, <3>2, Bounds DEF Answered
    <3>4. QED
      BY <3>3
  <2>2. QED
    BY <2>1
<1>14. CASE AnswerFails
  <2>1. /\ phase = "asked" /\ Returns("error") /\ UNCHANGED <<requests, queued, open>>
        /\ pending' \in {Nothing, pending} /\ reply.what \in {Unset, "refused"}
        /\ uncertain' = (uncertain \/ (want.kind = "revert" /\ reply.what = Unset))
    BY <1>14 DEF AnswerFails, sessionVars, backendVars
  <2>2. ~uncertain' => ~uncertain /\ (reply.what = "refused" \/ want.kind # "revert")
    BY <2>1
  <2>3. ~uncertain' => ~uncertain /\ \A m \in Outstanding : m.kind # "revert"
    BY <1>13, <2>1, <2>2
  <2>4. QED
    BY <1>4, <2>1, <2>3
<1>15. CASE Accepted
  <2>1. /\ phase = "asked" /\ phase' = "after" /\ want.kind \in Mutations
        /\ UNCHANGED <<requests, queued, asked, open, pending, uncertain>>
    BY <1>15 DEF Accepted, Moves, requestVars, sessionVars, backendVars
  <2>2. want.kind # "revert"
    BY <2>1 DEF Mutations
  <2>3. ~uncertain => \A m \in Outstanding : m.kind # "revert"
    BY <1>13, <2>1, <2>2
  <2>4. QED
    BY <2>1, <2>3, QuietLine DEF Early
<1>16. CASE Reverted \/ Resumed
  <2>1. /\ phase' = "last"
        /\ UNCHANGED <<requests, queued, asked, uncertain>>
        /\ pending' \in {pending, Nothing}
    BY <1>16 DEF Reverted, Resumed, Moves, requestVars, backendVars
  <2>2. Outstanding = {}
    BY <1>1, <1>16 DEF Reverted, Resumed, Still, Restoring
  <2>3. QED
    BY <2>1, <2>2, QuietLine DEF Early
<1>17. CASE UNCHANGED settingsVars
  BY <1>3, <1>17 DEF settingsVars, requestVars, sessionVars, backendVars
<1>18. QED
  BY <1>2, <1>5, <1>6, <1>8, <1>9, <1>10, <1>11, <1>12, <1>14, <1>15, <1>16, <1>17,
     SendingQueues, BackendQueues DEF SettingsNext

----------------------------------------------------------------------------
(* The answers *)

LEMMA NoneAnswered ==
  ASSUME reply'.what = Unset, phase' \notin {"asked", "last"} PROVE Answers'
<1>1. Unset \notin {"resumed", "accepted", "refused"}
  BY DEF Unset
<1>2. Answered'
  BY <1>1 DEF Answered
<1>3. Still'
  BY <1>1 DEF Still, Restoring
<1>4. QED
  BY <1>2, <1>3 DEF Answers

\* The backend reads the next request.
LEMMA ReadAnswers ==
  ASSUME SettingsTypeOK, Queues, Answers, NEW kinds, NEW answer, Reads(kinds, answer),
         UNCHANGED <<phase, asked, want>>, queued' = queued \/ queued' = Append(queued, Head(requests))
  PROVE  /\ reply.what = Unset /\ phase # "last" /\ Head(requests).kind \in kinds
         /\ \/ /\ reply' = reply
               /\ phase = "asked" => \E m \in Unread' : m.by = asked
            \/ /\ reply' = answer /\ phase = "asked" /\ Head(requests).by = asked
               /\ Head(requests).kind = want.kind /\ requests' = <<>>
               /\ queued' = queued => \A m \in Outstanding' : m.by < asked
               /\ queued' = queued => \A m \in Outstanding' : m \in Unapplied
<1>1. Ordered /\ Line /\ Answered /\ Still
  BY DEF Queues, Answers
<1>2. /\ requests # <<>> /\ Head(requests).kind \in kinds /\ requests' = Tail(requests)
      /\ reply' = IF Head(requests).by = asked /\ phase = "asked" THEN answer ELSE reply
  BY DEF Reads
<1>3. /\ Head(requests) \in Outstanding /\ Head(requests) \in Unread
      /\ Head(requests).by \in Nat /\ asked \in Nat
  BY <1>2, FirstRead, Bounds
<1>4. reply.what = Unset
  BY <1>1, <1>2 DEF Answered
<1>5. phase # "last"
  BY <1>1, <1>3 DEF Still, Restoring
<1>6. \A m \in Unread : m = Head(requests) \/ m \in Unread'
  BY <1>2, Reading, Accepting
<1>7. CASE Head(requests).by = asked /\ phase = "asked"
  <2>1. Head(requests).kind = want.kind
    BY <1>1, <1>3, <1>7 DEF Line
  <2>2. requests' = <<>>
    <3>1. Tail(requests) \in Seq(Ask)
      BY <1>2, FirstRead
    <3>2. ASSUME Tail(requests) # <<>> PROVE FALSE
      <4>1. Head(Tail(requests)) \in ToSet(Tail(requests))
        BY <3>1, <3>2, HeadAndTail
      <4>2. PICK m \in ToSet(Tail(requests)) : TRUE
        BY <4>1
      <4>3. asked < m.by
        BY <1>1, <1>2, <1>7, ReadInOrder
      <4>4. m.by \in 1 .. asked
        BY <1>2, FirstRead, OutstandingMeans
      <4>5. QED
        BY <1>3, <4>3, <4>4
    <3>3. QED
      BY <1>2, <3>2
  <2>3. ASSUME queued' = queued, NEW m \in Outstanding' PROVE m.by < asked /\ m \in Unapplied
    <3>1. m \in Unread' \/ m \in Unapplied
      <4>1. Outstanding' = Unread' \union ToSet(queued)
        BY <2>3 DEF Outstanding, Unread
      <4>2. QED
        BY <2>3, <4>1 DEF Unapplied
    <3>2. Unread' = {}
      BY <2>2 DEF Unread, ToSet
    <3>3. \A q \in Unapplied : q.by < Head(requests).by
      BY <1>1, <1>2, ReadInOrder
    <3>4. QED
      BY <1>7, <3>1, <3>2, <3>3
  <2>4. QED
    BY <1>2, <1>4, <1>5, <1>7, <2>1, <2>2, <2>3
<1>8. CASE ~(Head(requests).by = asked /\ phase = "asked")
  <2>1. reply' = reply
    BY <1>2, <1>8
  <2>2. ASSUME phase = "asked" PROVE \E m \in Unread' : m.by = asked
    <3>1. PICK m \in Unread : m.by = asked
      BY <1>1, <1>4, <2>2 DEF Answered
    <3>2. m # Head(requests)
      BY <1>8, <2>2, <3>1
    <3>3. QED
      BY <1>6, <3>1, <3>2
  <2>3. QED
    BY <1>2, <1>4, <1>5, <2>1, <2>2
<1>9. QED
  BY <1>7, <1>8

LEMMA BackendAnswers ==
  ASSUME SettingsTypeOK, Queues, Answers,
         \/ BackendRefuses \/ BackendAccepts \/ BackendApplies
         \/ \E patch \in Patches : BackendReverts(patch)
         \/ \E settings \in Settings : BackendResumes(settings)
  PROVE  Answers'
<1>1. Ordered /\ Line /\ Answered /\ Still
  BY DEF Queues, Answers
<1>2. /\ UNCHANGED <<phase, want, asked, fence>>
      /\ \A m \in Outstanding' : m \in Outstanding
      /\ \E m \in Outstanding : TRUE
  BY <1>1, BackendLine
<1>3. Unset \notin {"resumed", "accepted", "refused"}
  BY DEF Unset
\* The one that waits has not been answered.
<1>4. ASSUME reply' = reply, reply.what = Unset, phase # "last",
             phase = "asked" => \E m \in Unread' : m.by = asked
      PROVE  Answers'
  <2>1. Answered'
    BY <1>2, <1>3, <1>4 DEF Answered
  <2>2. Still'
    BY <1>2, <1>3, <1>4 DEF Still, Restoring
  <2>3. QED
    BY <2>1, <2>2 DEF Answers
<1>5. CASE BackendRefuses
  <2>1. Reads(Operations, Says("refused")) /\ queued' = queued
    BY <1>5 DEF BackendRefuses, backendVars
  <2>2. reply.what = Unset /\ phase # "last"
    BY <1>2, <2>1, ReadAnswers
  <2>3. CASE /\ reply' = Says("refused") /\ phase = "asked" /\ requests' = <<>>
             /\ \A m \in Outstanding' : m.by < asked
    <3>1. reply'.what = "refused"
      BY <2>3 DEF Says
    <3>2. Answered'
      BY <1>2, <1>3, <2>3, <3>1 DEF Answered
    <3>3. Still'
      BY <1>2, <2>2, <3>1 DEF Still, Restoring
    <3>4. QED
      BY <3>2, <3>3 DEF Answers
  <2>4. QED
    BY <1>2, <1>4, <2>1, <2>2, <2>3, ReadAnswers
<1>6. CASE BackendAccepts
  <2>1. Reads(Mutations, Says("accepted")) /\ queued' = Append(queued, Head(requests))
    BY <1>6 DEF BackendAccepts
  <2>2. reply.what = Unset /\ phase # "last" /\ Head(requests).kind \in Mutations
    BY <1>2, <2>1, ReadAnswers
  <2>3. CASE /\ reply' = Says("accepted") /\ phase = "asked" /\ requests' = <<>>
             /\ Head(requests).kind = want.kind
    <3>1. reply'.what = "accepted"
      BY <2>3 DEF Says
    <3>2. want.kind \notin {"resume", "revert"}
      BY <2>2, <2>3 DEF Mutations
    <3>3. Answered'
      BY <1>2, <1>3, <2>3, <3>1, <3>2 DEF Answered
    <3>4. Still'
      BY <1>2, <2>2, <3>1, <3>2 DEF Still, Restoring
    <3>5. QED
      BY <3>3, <3>4 DEF Answers
  <2>4. QED
    BY <1>2, <1>4, <2>1, <2>2, <2>3, ReadAnswers
<1>7. ASSUME NEW patch \in Patches, BackendReverts(patch) PROVE Answers'
  <2>1. Reads({"revert"}, Says("accepted")) /\ queued = <<>> /\ queued' = queued
    BY <1>7 DEF BackendReverts
  <2>2. reply.what = Unset /\ phase # "last" /\ Head(requests).kind = "revert"
    BY <1>2, <2>1, ReadAnswers
  <2>3. CASE /\ reply' = Says("accepted") /\ phase = "asked" /\ requests' = <<>>
             /\ Head(requests).kind = want.kind
             /\ \A m \in Outstanding' : m \in Unapplied
    <3>1. reply'.what = "accepted"
      BY <2>3 DEF Says
    <3>2. Outstanding' = {}
      <4>1. Unapplied = {}
        BY <2>1 DEF Unapplied, ToSet
      <4>2. QED
        BY <2>3, <4>1
    <3>3. Answered'
      BY <1>2, <1>3, <2>2, <2>3, <3>1 DEF Answered
    <3>4. Still'
      BY <1>2, <2>2, <3>1, <3>2 DEF Still, Restoring
    <3>5. QED
      BY <3>3, <3>4 DEF Answers
  <2>4. QED
    BY <1>2, <1>4, <2>1, <2>2, <2>3, ReadAnswers
<1>8. ASSUME NEW settings \in Settings, BackendResumes(settings) PROVE Answers'
  <2> DEFINE answer == [what |-> "resumed", at |-> reported + 1, settings |-> settings]
  <2>1. /\ Reads({"resume"}, answer) /\ queued = <<>> /\ queued' = queued
        /\ effective' = settings /\ reported' = reported + 1
    BY <1>8 DEF BackendResumes
  <2>2. answer.what = "resumed" /\ answer.at = reported' /\ answer.settings = effective'
    BY <2>1
  <2> HIDE DEF answer
  <2>3. reply.what = Unset /\ phase # "last" /\ Head(requests).kind = "resume"
    BY <1>2, <2>1, ReadAnswers
  <2>4. CASE /\ reply' = answer /\ phase = "asked" /\ requests' = <<>>
             /\ Head(requests).kind = want.kind
             /\ \A m \in Outstanding' : m \in Unapplied
    <3>1. Outstanding' = {}
      <4>1. Unapplied = {}
        BY <2>1 DEF Unapplied, ToSet
      <4>2. QED
        BY <2>4, <4>1
    <3>2. Answered'
      BY <1>2, <1>3, <2>2, <2>3, <2>4 DEF Answered
    <3>3. Still'
      BY <1>2, <2>2, <2>3, <2>4, <3>1 DEF Still, Restoring
    <3>4. QED
      BY <3>2, <3>3 DEF Answers
  <2>5. QED
    BY <1>2, <1>4, <2>1, <2>3, <2>4, ReadAnswers
<1>9. CASE BackendApplies
  <2>1. UNCHANGED <<requests, reply>>
    BY <1>9 DEF BackendApplies
  <2>2. Unread' = Unread
    BY <2>1 DEF Unread
  <2>3. ~Restoring /\ reply.what # "resumed"
    BY <1>1, <1>2 DEF Still
  <2>4. Answered'
    BY <1>1, <1>2, <2>1, <2>2 DEF Answered
  <2>5. Still'
    BY <1>2, <2>1, <2>3 DEF Still, Restoring
  <2>6. QED
    BY <2>4, <2>5 DEF Answers
<1>10. QED
  BY <1>5, <1>6, <1>7, <1>8, <1>9

LEMMA AnswersKeep ==
  ASSUME SettingsTypeOK, Places, Queues, Answers, [SettingsNext]_settingsVars
  PROVE  Answers'
<1>1. Control /\ Held /\ Line /\ Answered /\ Still
  BY DEF Places, Queues, Answers
<1>2. ASSUME phase # "asked", UNCHANGED reply, phase' \notin {"asked", "last"} PROVE Answers'
  BY <1>1, <1>2, NoneAnswered DEF Answered
<1>3. ASSUME UNCHANGED <<phase, want, asked, fence, reply, requests, queued, reported, effective>>
      PROVE  Answers'
  <2>1. Outstanding' = Outstanding /\ Unread' = Unread
    BY <1>3, SameLine
  <2>2. Answered'
    BY <1>1, <1>3, <2>1 DEF Answered
  <2>3. Still'
    BY <1>1, <1>3, <2>1 DEF Still, Restoring
  <2>4. QED
    BY <2>2, <2>3 DEF Answers
<1>4. CASE \E kind \in Operations, patch \in Patches : Begins(kind, patch)
  BY <1>2, <1>4 DEF Begins, Moves
<1>5. CASE PassSync \/ SyncTimesOut \/ ReconcileFails \/ Decide
  <2>1. UNCHANGED reply /\ phase' \notin {"asked", "last"}
    BY <1>5 DEF PassSync, SyncTimesOut, ReconcileFails, Decide, Moves, Returns
  <2>2. phase # "asked"
    BY <1>1, <1>5 DEF PassSync, SyncTimesOut, ReconcileFails, Decide, Moves, Held
  <2>3. QED
    BY <1>2, <2>1, <2>2
<1>6. CASE Enable \/ Look
  <2>1. UNCHANGED reply /\ phase \in {"before", "after"}
    BY <1>6 DEF Enable, Look, Reconciles
  <2>2. phase' = phase \/ Reconciled
    BY <1>6 DEF Enable, Look
  <2>3. Reconciled => phase' \notin {"asked", "last"}
    <3>1. Returns("ok") => phase' = "idle"
      BY DEF Returns
    <3>2. (phase' = CASE want.kind = "set_config" -> "decide"
                      [] want.kind = "revert" -> "lock"
                      [] OTHER -> "record")
          => phase' \in {"decide", "lock", "record"}
      OBVIOUS
    <3>3. QED
      BY <3>1, <3>2 DEF Reconciled
  <2>4. QED
    BY <1>2, <2>1, <2>2, <2>3
<1>7. CASE Wait \/ Wake \/ Deliver
  BY <1>3, <1>7 DEF Wait, Wake, Deliver, requestVars, lockVars, backendVars
<1>8. CASE Record \/ AskLocked
  <2>1. /\ phase \in {"record", "lock"} /\ phase' = "asked" /\ UNCHANGED <<reply, asked, queued>>
        /\ requests' = Append(requests, Sent)
    BY <1>8 DEF Record, AskLocked, Moves, requestVars, backendVars
  <2>2. reply.what = Unset /\ Unset \notin {"resumed", "accepted", "refused"}
    BY <1>1, <2>1 DEF Answered, Unset
  <2>3. Sent \in Ask /\ Sent.by = asked
    BY <1>1, <2>1, SentMeans
  <2>4. Sent \in Unread'
    BY <2>1, <2>3, Asking
  <2>5. Answered'
    BY <2>1, <2>2, <2>3, <2>4 DEF Answered
  <2>6. Still'
    BY <2>1, <2>2 DEF Still, Restoring
  <2>7. QED
    BY <2>5, <2>6 DEF Answers
<1>9. CASE AnswerFails \/ Accepted
  BY <1>9, NoneAnswered DEF AnswerFails, Accepted, Moves, Returns, Says
<1>10. CASE Reverted \/ Resumed
  <2>1. /\ phase' = "last" /\ reply' = Says(Unset) /\ fence' = reported
        /\ UNCHANGED <<requests, queued, reported>>
    BY <1>10 DEF Reverted, Resumed, Moves, backendVars
  <2>2. Outstanding = {}
    BY <1>1, <1>10 DEF Reverted, Resumed, Still, Restoring
  <2>3. reply'.what = Unset /\ Unset \notin {"resumed", "accepted", "refused"}
    BY <2>1 DEF Says, Unset
  <2>4. Outstanding' = {}
    BY <2>1, <2>2, SameLine
  <2>5. Answered'
    BY <2>1, <2>3 DEF Answered
  <2>6. Still'
    BY <2>1, <2>3, <2>4 DEF Still, Restoring
  <2>7. QED
    BY <2>5, <2>6 DEF Answers
<1>11. CASE UNCHANGED settingsVars
  BY <1>3, <1>11 DEF settingsVars, requestVars, lockVars, backendVars
<1>12. QED
  BY <1>4, <1>5, <1>6, <1>7, <1>8, <1>9, <1>10, <1>11, BackendAnswers DEF SettingsNext

----------------------------------------------------------------------------
(* The copy and the notifications on their way *)

LEMMA Latest ==
  ASSUME SettingsTypeOK, updates # <<>>
  PROVE  /\ Head(updates) \in Notice /\ Last(updates) \in Notice /\ Tail(updates) \in Seq(Notice)
         /\ Head(updates).at \in 1 .. reported /\ Last(updates).at \in 1 .. reported
         /\ Tail(updates) = <<>> => Last(updates) = Head(updates)
         /\ Tail(updates) # <<>> => Last(Tail(updates)) = Last(updates)
         /\ Stamped => Head(updates).at <= Last(updates).at
<1>1. updates \in Seq(Notice) /\ \A e \in ToSet(updates) : e \in Notice /\ e.at \in 1 .. reported
  BY UpdatesMean
<1>2. Head(updates) \in ToSet(updates) /\ Last(updates) \in ToSet(updates)
      /\ Tail(updates) \in Seq(Notice)
  BY <1>1, HeadAndTail, Lasting
<1>3. /\ Tail(updates) = <<>> => Last(updates) = Head(updates)
      /\ Tail(updates) # <<>> => Last(Tail(updates)) = Last(updates)
  BY <1>1, Lasting
<1>4. reported \in Nat
  BY Bounds
<1>5. ASSUME Stamped PROVE Head(updates).at <= Last(updates).at
  <2>1. PICK n \in Nat : n = Len(updates) /\ n > 0 /\ DOMAIN updates = 1 .. n
    BY <1>1
  <2>2. Head(updates) = updates[1] /\ Last(updates) = updates[n]
    BY <1>1, <2>1 DEF Last
  <2>3. CASE n = 1
    BY <1>1, <1>2, <1>4, <2>2, <2>3
  <2>4. CASE n # 1
    <3>1. 1 < n /\ 1 \in DOMAIN updates /\ n \in DOMAIN updates
      BY <2>1, <2>4
    <3>2. Head(updates).at < Last(updates).at
      BY <1>5, <2>2, <3>1 DEF Stamped
    <3>3. QED
      BY <1>1, <1>2, <1>4, <3>2
  <2>5. QED
    BY <2>3, <2>4
<1>6. QED
  BY <1>1, <1>2, <1>3, <1>5

LEMMA StampedTail ==
  ASSUME SettingsTypeOK, Stamped, updates # <<>>, updates' = Tail(updates) PROVE Stamped'
<1>1. updates \in Seq(Notice)
  BY UpdatesMean
<1>2. /\ DOMAIN Tail(updates) \subseteq Nat
      /\ \A n \in DOMAIN Tail(updates) :
           n + 1 \in DOMAIN updates /\ Tail(updates)[n] = updates[n + 1]
  BY <1>1
<1>3. ASSUME NEW j \in DOMAIN Tail(updates), NEW k \in DOMAIN Tail(updates), j < k
      PROVE  Tail(updates)[j].at < Tail(updates)[k].at
  <2>1. j + 1 < k + 1
    BY <1>2, <1>3
  <2>2. QED
    BY <1>2, <2>1 DEF Stamped
<1>4. QED
  BY <1>3 DEF Stamped

LEMMA StampedNext ==
  ASSUME SettingsTypeOK, Stamped, NEW e \in Notice, e.at = reported + 1,
         updates' = Append(updates, e)
  PROVE  Stamped'
<1>1. updates \in Seq(Notice) /\ \A u \in ToSet(updates) : u.at \in 1 .. reported
  BY UpdatesMean
<1>2. /\ Len(updates) \in Nat /\ Append(updates, e)[Len(updates) + 1] = e
      /\ DOMAIN updates = 1 .. Len(updates)
      /\ DOMAIN Append(updates, e) = 1 .. Len(updates) + 1
      /\ \A n \in DOMAIN updates : Append(updates, e)[n] = updates[n]
  BY <1>1
<1>3. reported \in Nat
  BY Bounds
<1>4. \A n \in DOMAIN updates : updates[n].at < e.at
  <2>1. \A n \in DOMAIN updates : updates[n].at \in 1 .. reported
    BY <1>1 DEF ToSet
  <2>2. QED
    BY <1>3, <2>1
<1>5. ASSUME NEW j \in DOMAIN Append(updates, e), NEW k \in DOMAIN Append(updates, e), j < k
      PROVE  Append(updates, e)[j].at < Append(updates, e)[k].at
  <2>1. j \in DOMAIN updates
    BY <1>2, <1>5
  <2>2. CASE k \in DOMAIN updates
    BY <1>2, <1>5, <2>1, <2>2 DEF Stamped
  <2>3. CASE k = Len(updates) + 1
    BY <1>2, <1>4, <2>1, <2>3
  <2>4. k \in DOMAIN updates \/ k = Len(updates) + 1
    BY <1>2
  <2>5. QED
    BY <2>2, <2>3, <2>4
<1>6. QED
  BY <1>5 DEF Stamped

LEMMA DeliverTracks ==
  ASSUME SettingsTypeOK, Tracks, Deliver PROVE Tracks'
<1>1. /\ updates # <<>> /\ updates' = Tail(updates) /\ cached' = Observed(Head(updates))
      /\ UNCHANGED <<effective, open, overlay, cutoff>>
  BY DEF Deliver
<1>2. Stamped /\ TracksRest /\ TracksCovered /\ Overlaid
  BY DEF Tracks
<1>3. /\ Head(updates) \in Notice /\ Last(updates) \in Notice
      /\ Tail(updates) = <<>> => Last(updates) = Head(updates)
      /\ Tail(updates) # <<>> => Last(Tail(updates)) = Last(updates)
      /\ Head(updates).at <= Last(updates).at
      /\ Head(updates).at \in 1 .. reported /\ Last(updates).at \in 1 .. reported
  BY <1>1, <1>2, Latest
<1>4. overlay \in [Covered -> Values] /\ Covered \subseteq Fields
  BY PartsMean, SettingsAssumption DEF Parts, CopyType, SettingsAssumption
<1>5. /\ \A f \in Fields \ Covered : cached'[f] = Head(updates).settings[f]
      /\ \A f \in Covered : cached'[f] = IF Head(updates).at <= cutoff THEN overlay[f]
                                         ELSE Head(updates).settings[f]
  BY <1>1, <1>3, <1>4, ObservedMeans DEF Notice
<1>6. cutoff \in Nat /\ reported \in Nat
  BY Bounds
<1>7. Stamped'
  BY <1>1, <1>2, StampedTail
<1>8. TracksRest'
  BY <1>1, <1>2, <1>3, <1>5 DEF TracksRest
<1>9. TracksCovered' /\ Overlaid'
  <2>1. CASE ~open
    BY <1>1, <2>1 DEF TracksCovered, Overlaid
  <2>2. CASE open /\ Last(updates).at <= cutoff
    <3>1. Covering /\ Covering' /\ Head(updates).at <= cutoff
      BY <1>1, <1>3, <1>6, <2>2 DEF Covering
    <3>2. \A f \in Covered : cached[f] = effective[f] /\ cached[f] = overlay[f]
      BY <1>1, <1>2, <2>2, <3>1 DEF TracksCovered, Overlaid
    <3>3. \A f \in Covered : cached'[f] = overlay[f]
      BY <1>5, <3>1
    <3>4. QED
      BY <1>1, <3>1, <3>2, <3>3 DEF TracksCovered, Overlaid
  <2>3. CASE open /\ ~(Last(updates).at <= cutoff)
    <3>1. ~Covering
      BY <1>1, <2>3 DEF Covering
    <3>2. \A f \in Covered : Last(updates).settings[f] = effective[f]
      BY <1>2, <2>3, <3>1 DEF TracksCovered
    <3>3. CASE Tail(updates) = <<>>
      <4>1. Covering' /\ updates' = <<>>
        BY <1>1, <3>3 DEF Covering
      <4>2. \A f \in Covered : cached'[f] = effective[f]
        BY <1>3, <1>5, <2>3, <3>2, <3>3
      <4>3. QED
        BY <1>1, <4>1, <4>2 DEF TracksCovered, Overlaid
    <3>4. CASE Tail(updates) # <<>>
      <4>1. ~Covering' /\ Last(updates)' = Last(updates)
        BY <1>1, <1>3, <2>3, <3>4 DEF Covering
      <4>2. QED
        BY <1>1, <3>2, <4>1 DEF TracksCovered, Overlaid
    <3>5. QED
      BY <3>3, <3>4
  <2>4. QED
    BY <2>1, <2>2, <2>3
<1>10. QED
  BY <1>7, <1>8, <1>9 DEF Tracks

LEMMA AppliesTracks ==
  ASSUME SettingsTypeOK, Tracks, NEW settings \in Settings, Applies(settings),
         UNCHANGED <<cached, open, overlay, cutoff>>
  PROVE  Tracks'
<1>1. Stamped /\ TracksRest /\ TracksCovered /\ Overlaid
  BY DEF Tracks
<1>2. CASE settings = effective /\ UNCHANGED <<reported, updates>>
  <2>1. UNCHANGED <<effective, updates>>
    BY <1>2, AppliesMeans
  <2>2. QED
    BY <1>1, <2>1 DEF Tracks, Stamped, TracksRest, TracksCovered, Overlaid, Covering
<1>3. CASE ~(settings = effective /\ UNCHANGED <<reported, updates>>)
  <2> DEFINE e == [at |-> reported + 1, settings |-> settings]
  <2>1. updates' = Append(updates, e) /\ e \in Notice /\ effective' = settings
    BY <1>3, AppliesMeans
  <2>2. e.at = reported + 1 /\ e.settings = settings
    OBVIOUS
  <2> HIDE DEF e
  <2>3. updates \in Seq(Notice)
    BY UpdatesMean
  <2>4. updates' # <<>> /\ Last(updates)' = e
    BY <2>1, <2>3, Appending
  <2>5. ~(e.at <= cutoff)
    <3>1. CopyType /\ reported \in Nat
      BY PartsMean, Bounds DEF Parts
    <3>2. cutoff \in 0 .. reported
      BY <3>1 DEF CopyType
    <3>3. QED
      BY <2>2, <3>1, <3>2
  <2>6. ~Covering'
    BY <2>4, <2>5 DEF Covering
  <2>7. Stamped'
    BY <1>1, <2>1, <2>2, StampedNext
  <2>8. TracksRest' /\ TracksCovered' /\ Overlaid'
    BY <2>1, <2>2, <2>4, <2>6 DEF TracksRest, TracksCovered, Overlaid
  <2>9. QED
    BY <2>7, <2>8 DEF Tracks
<1>4. QED
  BY <1>2, <1>3

LEMMA TracksKeep ==
  ASSUME SettingsTypeOK, Places, Queues, Answers, Tracks, [SettingsNext]_settingsVars
  PROVE  Tracks'
<1>1. Stamped /\ TracksRest /\ TracksCovered /\ Overlaid
  BY DEF Tracks
<1>2. ASSUME UNCHANGED <<updates, cached, effective, cutoff, overlay>>, open' => open PROVE Tracks'
  BY <1>1, <1>2 DEF Tracks, Stamped, TracksRest, TracksCovered, Overlaid, Covering
<1>3. CASE \/ \E kind \in Operations, patch \in Patches : Begins(kind, patch)
           \/ PassSync \/ SyncTimesOut \/ Enable \/ Look \/ Wait \/ Wake \/ ReconcileFails
           \/ Decide
  BY <1>2, <1>3 DEF Begins, PassSync, SyncTimesOut, Enable, Look, Wait, Wake, ReconcileFails,
                    Decide, sessionVars, backendVars
<1>4. CASE Record \/ AskLocked \/ AnswerFails \/ Accepted \/ Reverted
  BY <1>2, <1>4 DEF Record, AskLocked, AnswerFails, Accepted, Reverted, sessionVars, backendVars
<1>5. CASE BackendRefuses \/ BackendAccepts
  BY <1>2, <1>5 DEF BackendRefuses, BackendAccepts, sessionVars, backendVars
<1>6. CASE UNCHANGED settingsVars
  BY <1>2, <1>6 DEF settingsVars, sessionVars, backendVars
<1>7. CASE BackendApplies
  <2>1. /\ queued # <<>> /\ queued' = Tail(queued) /\ requests' = requests
        /\ Applies(Over(effective, Head(queued).patch))
        /\ UNCHANGED <<cached, open, overlay, cutoff>>
    BY <1>7 DEF BackendApplies, sessionVars
  <2>2. Over(effective, Head(queued).patch) \in Settings
    BY <2>1, Applying, UpdatesMean, OverMatches
  <2>3. QED
    BY <2>1, <2>2, AppliesTracks
<1>8. ASSUME NEW patch \in Patches, BackendReverts(patch) PROVE Tracks'
  <2>1. Applies(Over(effective, patch)) /\ UNCHANGED <<cached, open, overlay, cutoff>>
    BY <1>8 DEF BackendReverts, sessionVars
  <2>2. Over(effective, patch) \in Settings
    BY UpdatesMean, OverMatches
  <2>3. QED
    BY <2>1, <2>2, AppliesTracks
<1>9. ASSUME NEW settings \in Settings, BackendResumes(settings) PROVE Tracks'
  <2>1. /\ requests # <<>> /\ Head(requests).kind = "resume"
        /\ effective' = settings /\ \A f \in Fields \ Covered : settings[f] = effective[f]
        /\ UNCHANGED <<cached, open, overlay, cutoff, updates>>
    BY <1>9 DEF BackendResumes, Reads, sessionVars
  <2>2. ~open
    BY <2>1, FirstRead DEF Queues, Line
  <2>3. TracksRest'
    BY <1>1, <2>1 DEF TracksRest
  <2>4. QED
    BY <1>1, <2>1, <2>2, <2>3 DEF Tracks, Stamped, TracksCovered, Overlaid
<1>10. CASE Resumed
  <2>1. /\ reply.what = "resumed" /\ overlay' = [f \in Covered |-> reply.settings[f]]
        /\ cached' = Over(cached, overlay') /\ cutoff' = reply.at
        /\ UNCHANGED <<updates, effective>>
    BY <1>10 DEF Resumed, backendVars
  <2>2. reply.at = reported /\ reply.settings = effective
    BY <2>1 DEF Answers, Still
  <2>3. cached \in [Fields -> Values \union {Unset}] /\ Covered \subseteq Fields
    BY PartsMean, SettingsAssumption DEF Parts, CopyType, SettingsAssumption
  <2>4. \A f \in Fields : cached'[f] = IF f \in Covered THEN effective[f] ELSE cached[f]
    BY <2>1, <2>2, <2>3 DEF Over
  <2>5. \A f \in Covered : overlay'[f] = effective[f]
    BY <2>1, <2>2
  <2>6. Covering'
    <3>1. CASE updates = <<>>
      BY <2>1, <3>1 DEF Covering
    <3>2. CASE updates # <<>>
      <4>1. Last(updates).at \in 1 .. reported /\ reported \in Nat
        BY <3>2, Latest, Bounds
      <4>2. Last(updates).at <= reported
        BY <4>1
      <4>3. QED
        BY <2>1, <2>2, <4>2 DEF Covering
    <3>3. QED
      BY <3>1, <3>2
  <2>7. TracksRest'
    BY <1>1, <2>1, <2>4 DEF TracksRest
  <2>8. TracksCovered' /\ Overlaid'
    BY <2>1, <2>3, <2>4, <2>5, <2>6 DEF TracksCovered, Overlaid
  <2>9. Stamped'
    BY <1>1, <2>1 DEF Stamped
  <2>10. QED
    BY <2>7, <2>8, <2>9 DEF Tracks
<1>11. QED
  BY <1>3, <1>4, <1>5, <1>6, <1>7, <1>8, <1>9, <1>10, DeliverTracks DEF SettingsNext

----------------------------------------------------------------------------
(* What is pending, and who waits for it *)

LEMMA RecordMeans ==
  ASSUME SettingsTypeOK, Places, Record
  PROVE  /\ pending = Nothing /\ loop' = Unset /\ want.kind \in Mutations /\ asked \in Nat
         /\ \/ Matches(cached, want.patch) /\ pending' = Nothing
            \/ /\ ~Matches(cached, want.patch) /\ pending' # Nothing /\ pending'.by = asked
               /\ pending'.patch = want.patch /\ pending'.generation = generation
<1>1. phase = "record" /\ pending' = Recorded /\ loop' = loop
  BY DEF Record, Moves, loopVars
<1>2. pending = Nothing /\ loop = Unset /\ want.kind \in Mutations /\ pending.by < asked
  BY <1>1 DEF Places, Control, Held
<1>3. asked \in Nat /\ asked # 0
  BY <1>2, Bounds, NothingMeans
<1>4. CASE Matches(cached, want.patch)
  BY <1>1, <1>2, <1>3, <1>4 DEF Recorded
<1>5. CASE ~Matches(cached, want.patch)
  <2>1. pending' = [generation |-> generation, patch |-> want.patch, by |-> asked]
    BY <1>1, <1>5 DEF Recorded
  <2>2. pending' # Nothing
    BY <1>3, <2>1, NothingMeans
  <2>3. QED
    BY <1>1, <1>2, <1>3, <1>5, <2>1, <2>2
<1>6. QED
  BY <1>4, <1>5

LEMMA CountedKeeps ==
  ASSUME SettingsTypeOK, Places, Counted, Looked, [SettingsNext]_settingsVars
  PROVE  Counted' /\ Looked'
<1>1. ASSUME pending' = Nothing PROVE Counted'
  BY <1>1 DEF Counted
<1>2. ASSUME UNCHANGED <<pending, generation, cached>> PROVE Counted'
  BY <1>2 DEF Counted
<1>3. ASSUME loop' \in {Unset, "looking"} PROVE Looked'
  BY <1>3 DEF Looked, Unset
<1>4. ASSUME UNCHANGED <<loop, woken, pending, generation, cached>> PROVE Looked'
  BY <1>4 DEF Looked, Shown
<1>5. ASSUME NEW how, Returns(how) PROVE loop' = Unset
  BY <1>5 DEF Returns
<1>6. CASE \/ \E kind \in Operations, patch \in Patches : Begins(kind, patch)
           \/ PassSync \/ SyncTimesOut \/ Decide \/ ReconcileFails
  <2>1. UNCHANGED <<pending, generation, cached>>
    BY <1>6 DEF Begins, PassSync, SyncTimesOut, Decide, ReconcileFails, sessionVars
  <2>2. loop' = Unset \/ UNCHANGED <<loop, woken>>
    BY <1>5, <1>6 DEF Begins, PassSync, SyncTimesOut, Decide, ReconcileFails, loopVars
  <2>3. QED
    BY <1>2, <1>3, <1>4, <2>1, <2>2
<1>7. CASE Enable
  <2>1. UNCHANGED <<pending, generation, cached>> /\ loop' \in {Unset, "looking"}
    BY <1>5, <1>7 DEF Enable, Reconciled, sessionVars
  <2>2. QED
    BY <1>2, <1>3, <2>1
<1>8. CASE Look
  <2>1. UNCHANGED <<generation, cached>>
    BY <1>8 DEF Look, sessionVars
  <2>2. CASE pending' = Nothing /\ Reconciled
    BY <1>1, <1>3, <1>5, <2>2 DEF Reconciled
  <2>3. CASE ~(pending' = Nothing /\ Reconciled)
    <3>1. ~Shown /\ pending' = pending
      BY <1>8, <2>3 DEF Look
    <3>2. QED
      BY <1>2, <2>1, <3>1 DEF Looked, Shown
  <2>4. QED
    BY <2>2, <2>3
<1>9. CASE Wait
  <2>1. UNCHANGED <<pending, generation, cached, woken>> /\ loop = "looked" /\ loop' = "waiting"
    BY <1>9 DEF Wait, sessionVars
  <2>2. QED
    BY <1>2, <2>1 DEF Looked, Shown
<1>10. CASE Wake
  <2>1. UNCHANGED <<pending, generation, cached>> /\ loop' = "looking"
    BY <1>10 DEF Wake, sessionVars
  <2>2. QED
    BY <1>2, <1>3, <2>1
<1>11. CASE Record
  <2>1. UNCHANGED <<generation, cached>> /\ loop' = Unset
    BY <1>11, RecordMeans DEF Record, sessionVars
  <2>2. generation \in Nat
    BY Bounds
  <2>3. Counted'
    BY <1>11, <2>1, <2>2, RecordMeans DEF Counted
  <2>4. QED
    BY <1>3, <2>1, <2>3
<1>12. CASE AskLocked \/ Accepted \/ Reverted
  <2>1. UNCHANGED <<pending, generation, cached, loop, woken>>
    BY <1>12 DEF AskLocked, Accepted, Reverted, sessionVars, loopVars
  <2>2. QED
    BY <1>2, <1>4, <2>1
<1>13. CASE AnswerFails
  <2>1. UNCHANGED <<generation, cached>> /\ loop' = Unset /\ pending' \in {pending, Nothing}
    BY <1>5, <1>13 DEF AnswerFails, sessionVars
  <2>2. QED
    BY <1>1, <1>2, <1>3, <2>1
<1>14. CASE Resumed
  <2>1. pending' = Nothing /\ loop' = loop /\ phase = "asked"
    BY <1>14 DEF Resumed, Moves, loopVars
  <2>2. loop = Unset
    BY <2>1 DEF Places, Held
  <2>3. QED
    BY <1>1, <1>3, <2>1, <2>2
<1>15. CASE Deliver
  <2>1. generation' = generation + 1 /\ pending' = pending /\ loop' = loop
        /\ woken' = (woken \/ loop # Unset)
    BY <1>15 DEF Deliver, Hears
  <2>2. generation \in Nat /\ pending.generation \in Nat
    BY Bounds
  <2>3. Counted'
    BY <2>1, <2>2 DEF Counted
  <2>4. Looked'
    BY <2>1 DEF Looked, Unset
  <2>5. QED
    BY <2>3, <2>4
<1>16. CASE \/ BackendRefuses \/ BackendAccepts \/ BackendApplies
            \/ \E patch \in Patches : BackendReverts(patch)
            \/ \E settings \in Settings : BackendResumes(settings)
  <2>1. UNCHANGED <<pending, generation, cached, loop, woken>>
    BY <1>16 DEF BackendRefuses, BackendAccepts, BackendApplies, BackendReverts,
                 BackendResumes, sessionVars, loopVars
  <2>2. QED
    BY <1>2, <1>4, <2>1
<1>17. CASE UNCHANGED settingsVars
  <2>1. UNCHANGED <<pending, generation, cached, loop, woken>>
    BY <1>17 DEF settingsVars, sessionVars, loopVars
  <2>2. QED
    BY <1>2, <1>4, <2>1
<1>18. QED
  BY <1>6, <1>7, <1>8, <1>9, <1>10, <1>11, <1>12, <1>13, <1>14, <1>15, <1>16, <1>17
     DEF SettingsNext

LEMMA CarriesKeeps ==
  ASSUME SettingsTypeOK, Places, Queues, Answers, Carries, [SettingsNext]_settingsVars
  PROVE  Carries'
<1>1. Control /\ Held /\ Ordered /\ Line /\ Own /\ Answered
  BY DEF Places, Queues, Answers
<1>2. ASSUME pending' = Nothing \/ ~open' PROVE Carries'
  BY <1>2 DEF Carries
\* Whatever is carried, or effective, stays so.
<1>3. ASSUME pending' = pending, open' => open, refused \subseteq refused',
             UNCHANGED <<requests, queued, effective>>,
             phase # "asked" \/ reply.what # "refused" \/ UNCHANGED <<phase, reply, want>>
      PROVE  Carries'
  <2>1. Outstanding' = Outstanding
    BY <1>3, SameLine
  <2>2. Carried' <=> Carried
    BY <1>3, <2>1 DEF Carried
  <2>3. QED
    BY <1>3, <2>1, <2>2 DEF Carries
<1>4. CASE \/ \E kind \in Operations, patch \in Patches : Begins(kind, patch)
           \/ PassSync \/ SyncTimesOut \/ Decide \/ ReconcileFails \/ Enable \/ Wait \/ Wake
  <2>1. UNCHANGED <<pending, open, refused, requests, queued, effective>>
    BY <1>4 DEF Begins, PassSync, SyncTimesOut, Decide, ReconcileFails, Enable, Wait, Wake,
                sessionVars, backendVars
  <2>2. phase # "asked"
    BY <1>1, <1>4 DEF Begins, PassSync, SyncTimesOut, Decide, ReconcileFails, Enable, Wait,
                      Wake, Moves, Reconciles, Held, Unset
  <2>3. QED
    BY <1>3, <2>1, <2>2
<1>5. CASE Look
  <2>1. UNCHANGED <<open, refused, requests, queued, effective>> /\ phase # "asked"
        /\ pending' \in {pending, Nothing}
    BY <1>5 DEF Look, Reconciles, sessionVars, backendVars
  <2>2. QED
    BY <1>2, <1>3, <2>1
<1>6. CASE Record
  <2>1. CASE pending' = Nothing
    BY <1>2, <2>1
  <2>2. CASE pending' # Nothing
    <3>1. pending'.by = asked /\ phase = "record" /\ queued' = queued
          /\ requests' = Append(requests, Sent)
      BY <1>6, <2>2, RecordMeans DEF Record, Moves, backendVars
    <3>2. Sent \in Ask /\ Sent.by = asked
      BY <1>1, <3>1, SentMeans
    <3>3. Sent \in Outstanding'
      BY <3>1, <3>2, Asking
    <3>4. Carried'
      BY <3>1, <3>2, <3>3 DEF Carried
    <3>5. QED
      BY <3>4 DEF Carries
  <2>3. QED
    BY <2>1, <2>2
<1>7. CASE AskLocked
  <2>1. phase = "lock" /\ pending' = pending /\ open' = (open /\ want.kind # "resume")
    BY <1>7 DEF AskLocked, Moves
  <2>2. pending' = Nothing \/ ~open'
    BY <1>1, <2>1 DEF Control, Held
  <2>3. QED
    BY <1>2, <2>2
<1>8. CASE AnswerFails
  <2>1. /\ pending' = IF Refused THEN Nothing ELSE pending
        /\ UNCHANGED <<open, refused, requests, queued, effective>>
    BY <1>8 DEF AnswerFails, sessionVars, backendVars
  <2>2. CASE Refused
    BY <1>2, <2>1, <2>2
  <2>3. CASE ~Refused
    <3>1. Outstanding' = Outstanding /\ pending' = pending
      BY <2>1, <2>3, SameLine
    <3>2. Carried' <=> Carried
      BY <3>1 DEF Carried
    <3>3. ~(reply.what = "refused" /\ want.kind \in Mutations)
      BY <2>3 DEF Refused
    <3>4. QED
      BY <2>1, <3>1, <3>2, <3>3 DEF Carries
  <2>4. QED
    BY <2>2, <2>3
<1>9. CASE Accepted \/ Reverted
  <2>1. reply.what # "refused" /\ UNCHANGED <<pending, open, refused, requests, queued, effective>>
    BY <1>9 DEF Accepted, Reverted, sessionVars, backendVars
  <2>2. QED
    BY <1>3, <2>1
<1>10. CASE Resumed
  BY <1>2, <1>10 DEF Resumed
<1>11. CASE Deliver
  BY <1>3, <1>11 DEF Deliver, requestVars
<1>12. CASE UNCHANGED settingsVars
  BY <1>3, <1>12 DEF settingsVars, requestVars, sessionVars, backendVars
\* One is read: had it not been carried, nothing could have been.
<1>13. ASSUME NEW kinds, NEW answer, Reads(kinds, answer), UNCHANGED <<phase, asked, want, pending, open>>,
              queued' = queued, refused \subseteq refused',
              pending.by \notin refused' => Head(requests).by # pending.by \/ Carries'
       PROVE  Carries'
  <2>1. requests # <<>> /\ requests' = Tail(requests)
    BY <1>13 DEF Reads
  <2>2. Head(requests) \in Outstanding /\ \A m \in Outstanding : m = Head(requests) \/ m \in Outstanding'
    BY <1>13, <2>1, Reading, FirstRead
  <2>3. reply.what # "refused"
    BY <1>13, ReadAnswers DEF Unset
  <2>4. CASE pending # Nothing /\ open /\ pending.by \notin refused' /\ Head(requests).by # pending.by
    <3>1. Carried
      BY <1>13, <2>2, <2>3, <2>4 DEF Carries
    <3>2. Carried'
      BY <1>13, <2>2, <2>4, <3>1 DEF Carried
    <3>3. QED
      BY <3>2 DEF Carries
  <2>5. QED
    BY <1>13, <2>4 DEF Carries
<1>14. CASE BackendRefuses
  <2>1. /\ Reads(Operations, Says("refused"))
        /\ UNCHANGED <<phase, asked, want, pending, open, queued>>
        /\ refused' = refused \union IF reply' = reply THEN {Head(requests).by} ELSE {}
    BY <1>14 DEF BackendRefuses, requestVars, sessionVars, backendVars
  <2>2. ASSUME pending.by \notin refused', Head(requests).by = pending.by PROVE Carries'
    <3>1. reply' # reply
      BY <2>1, <2>2
    <3>2. reply' = Says("refused") /\ phase = "asked" /\ Head(requests).kind = want.kind
      BY <2>1, <3>1, ReadAnswers
    <3>3. Head(requests).kind \in Mutations
      BY <1>1, <2>1, <2>2, FirstRead DEF Own, Reads
    <3>4. reply'.what = "refused"
      BY <3>2 DEF Says
    <3>5. QED
      BY <2>1, <3>2, <3>3, <3>4 DEF Carries
  <2>3. QED
    BY <1>13, <2>1, <2>2
<1>15. CASE BackendAccepts
  <2>1. /\ Reads(Mutations, Says("accepted")) /\ queued' = Append(queued, Head(requests))
        /\ UNCHANGED <<phase, asked, want, pending, open, refused>>
    BY <1>15 DEF BackendAccepts, requestVars, sessionVars
  <2>2. requests # <<>> /\ requests' = Tail(requests)
    BY <2>1 DEF Reads
  <2>3. Head(requests) \in Outstanding /\ \A m : m \in Outstanding' <=> m \in Outstanding
    BY <2>1, <2>2, Accepting, FirstRead
  <2>4. reply.what # "refused"
    BY <2>1, ReadAnswers DEF Unset
  <2>5. Carried' <=> Carried
    BY <2>1, <2>3 DEF Carried
  <2>6. QED
    BY <2>1, <2>3, <2>4, <2>5 DEF Carries
<1>16. ASSUME NEW patch \in Patches, BackendReverts(patch) PROVE Carries'
  <2>1. /\ Reads({"revert"}, Says("accepted"))
        /\ UNCHANGED <<phase, asked, want, pending, open, queued, refused>>
    BY <1>16 DEF BackendReverts, requestVars, sessionVars
  <2>2. Head(requests).by # pending.by
    BY <1>1, <2>1, FirstRead DEF Own, Reads, Mutations
  <2>3. QED
    BY <1>13, <2>1, <2>2
<1>17. ASSUME NEW settings \in Settings, BackendResumes(settings) PROVE Carries'
  <2>1. requests # <<>> /\ Head(requests).kind = "resume" /\ open' = open
    BY <1>17 DEF BackendResumes, Reads, sessionVars
  <2>2. ~open
    BY <1>1, <2>1, FirstRead DEF Line
  <2>3. QED
    BY <1>2, <2>1, <2>2
<1>18. CASE BackendApplies
  <2>1. /\ queued # <<>> /\ queued' = Tail(queued) /\ requests' = requests
        /\ Applies(Over(effective, Head(queued).patch))
        /\ UNCHANGED <<phase, asked, want, reply, pending, open, refused>>
    BY <1>18 DEF BackendApplies, requestVars, sessionVars
  <2>2. /\ Head(queued) \in Outstanding /\ Head(queued).by \in Nat
        /\ Head(queued).patch \in Patches
        /\ \A m \in Outstanding' : m \in Outstanding /\ Head(queued).by < m.by
        /\ \A m \in Outstanding : m = Head(queued) \/ m \in Outstanding'
    BY <1>1, <2>1, Applying
  <2>3. CASE ~(pending # Nothing /\ open)
    BY <2>1, <2>3 DEF Carries
  <2>4. CASE pending # Nothing /\ open /\ Head(queued).by = pending.by
    <3>1. Outstanding' = {}
      <4>1. ASSUME NEW m \in Outstanding' PROVE FALSE
        <5>1. m.by <= pending.by /\ pending.by < m.by /\ m.by \in Nat
          BY <1>1, <2>2, <2>4, OutstandingMeans DEF Own
        <5>2. QED
          BY <2>2, <2>4, <5>1
      <4>2. QED
        BY <4>1
    <3>2. effective' = Over(effective, Head(queued).patch)
          /\ Matches(Over(effective, Head(queued).patch), Head(queued).patch)
      BY <2>1, <2>2, UpdatesMean, OverMatches, AppliesMeans
    <3>3. Head(queued).patch = pending.patch
      BY <1>1, <2>2, <2>4 DEF Own
    <3>4. Matches(effective', pending'.patch)
      BY <2>1, <3>2, <3>3
    <3>5. QED
      BY <3>1, <3>4 DEF Carries, Matches
  <2>5. CASE pending # Nothing /\ open /\ Head(queued).by # pending.by
    <3>1. Carried => Carried'
      BY <2>1, <2>2, <2>5 DEF Carried
    <3>2. Outstanding # {}
      BY <2>2
    <3>3. QED
      BY <2>1, <3>1, <3>2 DEF Carries
  <2>6. QED
    BY <2>3, <2>4, <2>5
<1>19. QED
  BY <1>4, <1>5, <1>6, <1>7, <1>8, <1>9, <1>10, <1>11, <1>12, <1>14, <1>15, <1>16, <1>17, <1>18
     DEF SettingsNext

----------------------------------------------------------------------------
(* Why a copy that shows it can be believed *)

\* Without notifications a copy that shows a patch shows what is effective.
LEMMA ShownIsEffective ==
  ASSUME SettingsTypeOK, Tracks, open, updates = <<>>, NEW patch \in Patches, Matches(cached, patch)
  PROVE  Matches(effective, patch)
<1>1. \A f \in DOMAIN patch : f \in Fields /\ patch[f] \in Values
  BY PatchMeans
<1>2. \A f \in Fields \ Covered : cached[f] \in {Unset, effective[f]}
  BY DEF Tracks, TracksRest
<1>3. \A f \in Covered : cached[f] = effective[f]
  BY DEF Tracks, TracksCovered, Covering
<1>4. \A f \in DOMAIN patch : cached[f] = patch[f]
  BY DEF Matches
<1>5. \A f \in DOMAIN patch : effective[f] = patch[f]
  BY <1>1, <1>2, <1>3, <1>4, ValueSet
<1>6. QED
  BY <1>5 DEF Matches

LEMMA SameExact ==
  ASSUME Exact, UNCHANGED <<requests, queued, cached, effective, updates, generation, pending>>,
         reply' = reply \/ reply'.what # "refused",
         open' /\ ~uncertain' /\ ~Restoring' => open /\ ~uncertain /\ ~Restoring
  PROVE  Exact'
<1>1. Outstanding' = Outstanding
  BY SameLine
<1>2. Quiet => Quiet'
  BY <1>1 DEF Quiet, Matches
<1>3. Applied => Applied'
  BY <1>1 DEF Applied, Matches
<1>4. QED
  BY <1>2, <1>3 DEF Exact

\* What was pending is shown, or forgotten, and nothing of it is left.
LEMMA QuietNext ==
  ASSUME SettingsTypeOK, pending' = Nothing, UNCHANGED <<requests, queued, cached>>,
         updates' = <<>>, \A m \in Outstanding : Matches(cached, m.patch)
  PROVE  Exact'
<1>1. Outstanding' = Outstanding
  BY SameLine
<1>2. Quiet'
  BY <1>1 DEF Quiet, Matches
<1>3. QED
  BY <1>2 DEF Exact

LEMMA SendingExact ==
  ASSUME SettingsTypeOK, Places, Queues, Answers, Exact, Record \/ AskLocked
  PROVE  Exact'
<1>1. Control /\ Held /\ Line /\ Answered
  BY DEF Places, Queues, Answers
<1>2. /\ phase \in {"record", "lock"} /\ requests' = Append(requests, Sent)
      /\ UNCHANGED <<asked, want, queued, uncertain, reply, cached, generation, updates>>
  BY DEF Record, AskLocked, Moves, requestVars, backendVars, sessionVars
<1>3. /\ Sent \in Ask /\ Sent.by = asked /\ Sent.patch = want.patch
  BY <1>1, <1>2, SentMeans
<1>4. \A m \in Outstanding' : m = Sent \/ m \in Outstanding
  BY <1>2, <1>3, Asking
<1>5. open' => open /\ want.kind # "resume"
  <2>1. CASE Record
    BY <1>1, <2>1 DEF Record, Moves, sessionVars, Control, Mutations
  <2>2. CASE AskLocked
    BY <2>2 DEF AskLocked
  <2>3. QED
    BY <2>1, <2>2
<1>6. SUFFICES ASSUME open', ~uncertain PROVE Quiet'
  BY <1>2 DEF Exact
<1>7. open /\ pending = Nothing /\ ~Restoring
  <2>1. reply.what # "accepted" /\ phase # "last"
    BY <1>1, <1>2 DEF Answered, Unset
  <2>2. CASE Record
    BY <1>5, <1>6, <2>1, <2>2, RecordMeans DEF Restoring
  <2>3. CASE AskLocked
    BY <1>1, <1>5, <1>6, <2>1, <2>3 DEF AskLocked, Moves, Control, Held, Restoring
  <2>4. QED
    BY <2>2, <2>3
<1>8. Quiet
  BY <1>6, <1>7 DEF Exact, Applied
<1>9. \A m \in Outstanding : m.by # 0
  BY OutstandingMeans
<1>10. updates = <<>> /\ \A m \in Outstanding : Matches(cached, m.patch)
  BY <1>7, <1>8, <1>9, NothingMeans DEF Quiet
<1>11. pending' # Nothing => generation' = pending'.generation
  BY <1>2, <1>7, RecordMeans DEF AskLocked
<1>12. pending'.by = asked \/ Matches(cached, Sent.patch)
  <2>1. CASE Record
    BY <1>3, <2>1, RecordMeans
  <2>2. CASE AskLocked
    BY <1>1, <1>3, <2>2, NoPatchMeans DEF AskLocked, Moves, Control
  <2>3. QED
    BY <2>1, <2>2
<1>13. \A m \in Outstanding' : m.by = pending'.by \/ Matches(cached, m.patch)
  BY <1>3, <1>4, <1>10, <1>12
<1>14. QED
  BY <1>2, <1>10, <1>11, <1>13 DEF Quiet, Matches

LEMMA BackendExact ==
  ASSUME SettingsTypeOK, Places, Queues, Answers, Tracks, Exact,
         \/ BackendRefuses \/ BackendAccepts \/ BackendApplies
         \/ \E patch \in Patches : BackendReverts(patch)
         \/ \E settings \in Settings : BackendResumes(settings)
  PROVE  Exact'
<1>1. Control /\ Held /\ Ordered /\ Line /\ Own /\ Answered /\ Still
  BY DEF Places, Queues, Answers
<1>2. /\ UNCHANGED <<phase, want, asked, open, cached, generation, pending, uncertain>>
      /\ \A m \in Outstanding' : m \in Outstanding
      /\ \E m \in Outstanding : TRUE
  BY <1>1, BackendLine
<1>3. ~Restoring /\ Outstanding # {}
  BY <1>1, <1>2 DEF Still
<1>4. open /\ ~uncertain => Quiet
  BY <1>3 DEF Exact, Applied
<1>5. ASSUME updates' = updates PROVE Exact'
  <2>1. Quiet => Quiet'
    BY <1>2, <1>5 DEF Quiet, Matches
  <2>2. QED
    BY <1>2, <1>4, <2>1 DEF Exact
<1>6. CASE BackendRefuses \/ BackendAccepts
  BY <1>5, <1>6 DEF BackendRefuses, BackendAccepts, backendVars
<1>7. ASSUME NEW patch \in Patches, BackendReverts(patch) PROVE Exact'
  <2>1. Reads({"revert"}, Says("accepted")) /\ queued' = queued
    BY <1>7 DEF BackendReverts
  <2>2. requests # <<>> /\ Head(requests).kind = "revert"
    BY <2>1 DEF Reads
  <2>3. ASSUME ~uncertain PROVE Restoring'
    <3>1. phase = "asked" /\ Head(requests).by = asked
      BY <1>1, <2>2, <2>3, FirstRead DEF Line
    <3>2. want.kind = "revert"
      BY <1>1, <2>2, <3>1, FirstRead DEF Line
    <3>3. reply' = Says("accepted")
      BY <2>1, <3>1 DEF Reads
    <3>4. QED
      BY <1>2, <3>2, <3>3 DEF Restoring, Says
  <2>4. QED
    BY <1>2, <2>3 DEF Exact
<1>8. ASSUME NEW settings \in Settings, BackendResumes(settings) PROVE Exact'
  <2>1. requests # <<>> /\ Head(requests).kind = "resume"
    BY <1>8 DEF BackendResumes, Reads
  <2>2. ~open
    BY <1>1, <2>1, FirstRead DEF Line
  <2>3. QED
    BY <1>2, <2>2 DEF Exact
<1>9. CASE BackendApplies
  <2> DEFINE h == Head(queued)
  <2>1. /\ queued # <<>> /\ queued' = Tail(queued) /\ requests' = requests /\ reply' = reply
        /\ Applies(Over(effective, h.patch))
    BY <1>9 DEF BackendApplies
  <2>2. /\ h \in Outstanding /\ h.by \in Nat /\ h.by # 0 /\ h.patch \in Patches
        /\ \A m \in Outstanding' : m \in Outstanding /\ h.by < m.by
    BY <1>1, <2>1, Applying
  <2> HIDE DEF h
  <2>3. /\ Over(effective, h.patch) \in Settings /\ Matches(Over(effective, h.patch), h.patch)
        /\ Matches(effective, h.patch) => Over(effective, h.patch) = effective
    <3>1. effective \in Settings
      BY UpdatesMean
    <3>2. QED
      BY <2>2, <3>1, OverMatches
  <2>4. CASE Over(effective, h.patch) = effective
    <3>1. updates' = updates
      BY <2>1, <2>3, <2>4, AppliesMeans
    <3>2. QED
      BY <1>5, <3>1
  <2>5. CASE Over(effective, h.patch) # effective
    <3> SUFFICES ASSUME open, ~uncertain PROVE Applied'
      BY <1>2 DEF Exact
    <3>1. Quiet
      BY <1>4
    <3>2. updates = <<>>
      BY <3>1 DEF Quiet
    <3>3. effective' = Over(effective, h.patch)
          /\ updates' = Append(updates, [at |-> reported + 1, settings |-> Over(effective, h.patch)])
      BY <2>1, <2>3, <2>5, AppliesMeans
    <3>4. Len(updates') = 1
      BY <3>2, <3>3
    <3>5. ~Matches(cached, h.patch)
      <4>1. ~Matches(effective, h.patch)
        BY <2>3, <2>5
      <4>2. QED
        BY <2>2, <3>2, <4>1, ShownIsEffective
    <3>6. h.by = pending.by /\ pending # Nothing
      BY <2>2, <3>1, <3>5, NothingMeans DEF Quiet
    <3>7. generation = pending.generation /\ h.patch = pending.patch
      BY <1>1, <2>2, <3>1, <3>6 DEF Quiet, Own
    <3>8. Outstanding' = {}
      <4>1. ASSUME NEW m \in Outstanding' PROVE FALSE
        <5>1. m.by <= pending.by /\ pending.by < m.by /\ m.by \in Nat
          BY <1>1, <2>2, <3>6, OutstandingMeans DEF Own
        <5>2. QED
          BY <2>2, <3>6, <5>1
      <4>2. QED
        BY <4>1
    <3>9. reply.what # "refused"
      <4>1. ASSUME reply.what = "refused" PROVE FALSE
        <5>1. phase = "asked" /\ h.by < asked
          BY <1>1, <2>2, <4>1 DEF Answered, Unset
        <5>2. want.kind \in Operations \union {Unset} /\ want.kind # Unset
          BY <1>1, <5>1, WantMeans DEF Control
        <5>3. want.kind # "resume" /\ want.kind # "revert"
          BY <1>1, <3>6, <5>1 DEF Control, Held
        <5>4. pending.by = asked
          BY <1>1, <3>6, <5>1, <5>2, <5>3 DEF Held, Operations
        <5>5. QED
          BY <2>2, <3>6, <5>1, <5>4
      <4>2. QED
        BY <4>1
    <3>10. Matches(effective', pending'.patch)
      BY <1>2, <2>3, <3>3, <3>7
    <3>11. QED
      BY <1>2, <2>1, <3>4, <3>6, <3>7, <3>8, <3>9, <3>10 DEF Applied, Matches
  <2>6. QED
    BY <2>4, <2>5
<1>10. QED
  BY <1>6, <1>7, <1>8, <1>9

LEMMA ExactKeeps ==
  ASSUME IInv, [SettingsNext]_settingsVars PROVE Exact'
<1>1. /\ SettingsTypeOK /\ Control /\ Held /\ Answered /\ Still /\ Exact
      /\ Places /\ Queues /\ Answers /\ Tracks
  BY DEF IInv, Places, Answers, Believed
<1>2. phase \notin {"asked", "last"} => ~Restoring
  BY <1>1 DEF Answered, Restoring, Unset
<1>3. ASSUME UNCHANGED <<requests, queued, cached, effective, updates, generation, pending>>,
             UNCHANGED <<reply, open>>, ~uncertain' => ~uncertain, phase \notin {"asked", "last"}
      PROVE  Exact'
  BY <1>1, <1>2, <1>3, SameExact
<1>4. CASE \/ \E kind \in Operations, patch \in Patches : Begins(kind, patch)
           \/ Decide \/ ReconcileFails \/ Enable \/ Wait \/ Wake
  <2>1. /\ UNCHANGED <<requests, queued, cached, effective, updates, generation, pending>>
        /\ UNCHANGED <<reply, open, uncertain>>
    BY <1>4 DEF Begins, Decide, ReconcileFails, Enable, Wait, Wake, sessionVars, backendVars
  <2>2. phase \notin {"asked", "last"}
    BY <1>1, <1>4 DEF Begins, Decide, ReconcileFails, Enable, Wait, Wake, Moves, Reconciles,
                      Held, Unset
  <2>3. QED
    BY <1>3, <2>1, <2>2
<1>5. CASE PassSync \/ SyncTimesOut
  <2>1. /\ UNCHANGED <<requests, queued, cached, effective, updates, generation, pending>>
        /\ UNCHANGED <<reply, open>> /\ phase \in {"fence", "last"}
    BY <1>5 DEF PassSync, SyncTimesOut, sessionVars, backendVars, Moves
  <2>2. CASE phase = "fence"
    <3>1. uncertain' = (uncertain \/ phase = "last") \/ uncertain' = uncertain
      BY <1>5 DEF PassSync, SyncTimesOut
    <3>2. ~uncertain' => ~uncertain
      BY <3>1
    <3>3. QED
      BY <1>3, <2>1, <2>2, <3>2
  <2>3. CASE phase = "last" /\ SyncTimesOut
    <3>1. uncertain'
      BY <2>3 DEF SyncTimesOut
    <3>2. QED
      BY <3>1 DEF Exact
  <2>4. CASE phase = "last" /\ PassSync
    <3>1. \A k \in DOMAIN updates : updates[k].at > reported
      BY <1>1, <2>4 DEF PassSync, Synced, Still
    <3>2. updates = <<>>
      <4>1. ASSUME updates # <<>> PROVE FALSE
        <5>1. updates \in Seq(Notice) /\ reported \in Nat
          BY <1>1, UpdatesMean, Bounds
        <5>2. 1 \in DOMAIN updates /\ Head(updates) = updates[1]
          BY <4>1, <5>1
        <5>3. Head(updates).at \in 1 .. reported
          BY <1>1, <4>1, Latest
        <5>4. Head(updates).at > reported
          BY <3>1, <5>2
        <5>5. QED
          BY <5>1, <5>3, <5>4
      <4>2. QED
        BY <4>1
    <3>3. pending = Nothing /\ Outstanding = {}
      BY <1>1, <2>4 DEF Held, Still, Restoring
    <3>4. QED
      BY <1>1, <2>1, <3>2, <3>3, QuietNext
  <2>5. QED
    BY <1>5, <2>1, <2>2, <2>3, <2>4
<1>6. CASE Look
  <2>1. /\ UNCHANGED <<requests, queued, cached, effective, updates, generation>>
        /\ UNCHANGED <<reply, open, uncertain>> /\ phase \in {"before", "after"}
        /\ loop = "looking"
    BY <1>6 DEF Look, sessionVars, backendVars, Reconciles
  <2>2. CASE Shown /\ pending' = Nothing
    <3> SUFFICES ASSUME open, ~uncertain PROVE Exact'
      BY <2>1 DEF Exact
    <3>1. pending # Nothing /\ generation > pending.generation
      BY <1>1, <2>1, <2>2 DEF Held, Unset, Shown
    <3>2. generation # pending.generation
      BY <1>1, <3>1, Bounds
    <3>3. Applied
      BY <1>1, <1>2, <2>1, <3>1, <3>2 DEF Exact, Quiet
    <3>4. updates = <<>> /\ Outstanding = {}
      BY <3>2, <3>3 DEF Applied
    <3>5. QED
      BY <1>1, <2>1, <2>2, <3>4, QuietNext
  <2>3. CASE ~(Shown /\ pending' = Nothing)
    <3>1. pending' = pending
      BY <1>6, <2>3 DEF Look
    <3>2. QED
      BY <1>3, <2>1, <3>1
  <2>4. QED
    BY <2>2, <2>3
<1>7. CASE AnswerFails
  <2>1. /\ phase = "asked" /\ reply.what \in {Unset, "refused"} /\ reply' = Says(Unset)
        /\ pending' = IF Refused THEN Nothing ELSE pending
        /\ UNCHANGED <<requests, queued, cached, effective, updates, generation, open>>
        /\ uncertain' = (uncertain \/ (want.kind = "revert" /\ reply.what = Unset))
    BY <1>7 DEF AnswerFails, sessionVars, backendVars
  <2>2. ~Restoring /\ reply'.what # "refused"
    BY <2>1 DEF Restoring, Says, Unset
  <2>3. ~uncertain' => ~uncertain
    BY <2>1
  <2>4. CASE ~Refused
    <3>1. pending' = pending
      BY <2>1, <2>4
    <3>2. QED
      BY <1>1, <2>1, <2>2, <2>3, <3>1, SameExact
  <2>5. CASE Refused
    <3> SUFFICES ASSUME open, ~uncertain PROVE Exact'
      BY <2>1, <2>3 DEF Exact
    <3>1. reply.what = "refused" /\ want.kind \in Mutations /\ pending' = Nothing
      BY <2>1, <2>5 DEF Refused
    <3>2. Quiet
      BY <1>1, <2>2, <3>1 DEF Exact, Applied
    <3>3. \A m \in Outstanding : m.by < asked /\ m.by \in Nat /\ m.by \in 1 .. asked
      BY <1>1, <3>1, OutstandingMeans DEF Answered
    <3>4. pending.by \in {0, asked}
      BY <1>1, <2>1, <3>1, NothingMeans DEF Held
    <3>5. asked \in Nat
      BY <1>1, Bounds
    <3>6. \A m \in Outstanding : m.by # pending.by
      BY <3>3, <3>4, <3>5
    <3>7. updates = <<>> /\ \A m \in Outstanding : Matches(cached, m.patch)
      BY <3>2, <3>6 DEF Quiet
    <3>8. QED
      BY <1>1, <2>1, <3>1, <3>7, QuietNext
  <2>6. QED
    BY <2>4, <2>5
<1>8. CASE Accepted
  <2>1. /\ UNCHANGED <<requests, queued, cached, effective, updates, generation, pending>>
        /\ UNCHANGED <<open, uncertain>> /\ reply' = Says(Unset) /\ phase = "asked"
        /\ want.kind \in Mutations
    BY <1>8 DEF Accepted, Moves, sessionVars, backendVars
  <2>2. ~Restoring /\ reply'.what # "refused"
    BY <2>1 DEF Restoring, Says, Unset, Mutations
  <2>3. QED
    BY <1>1, <2>1, <2>2, SameExact
<1>9. CASE Reverted \/ Resumed
  <2>1. Restoring'
    BY <1>9 DEF Reverted, Resumed, Moves, Restoring
  <2>2. QED
    BY <2>1 DEF Exact
<1>10. CASE Deliver
  <2>1. /\ updates # <<>> /\ updates' = Tail(updates) /\ Outstanding' = Outstanding
        /\ UNCHANGED <<phase, want, reply, open, uncertain, pending, effective>>
    BY <1>10, SameLine DEF Deliver, requestVars
  <2>2. Restoring' <=> Restoring
    BY <2>1 DEF Restoring
  <2> SUFFICES ASSUME open, ~uncertain, ~Restoring PROVE Applied'
    BY <2>1, <2>2 DEF Exact
  <2>3. Applied /\ Len(updates) = 1
    BY <1>1, <2>1 DEF Exact, Quiet, Applied
  <2>4. updates' = <<>>
    <3>1. updates \in Seq(Notice)
      BY <1>1, UpdatesMean
    <3>2. QED
      BY <2>1, <2>3, <3>1
  <2>5. QED
    BY <2>1, <2>3, <2>4 DEF Applied, Matches
<1>11. CASE UNCHANGED settingsVars
  <2>1. /\ UNCHANGED <<requests, queued, cached, effective, updates, generation, pending>>
        /\ UNCHANGED <<reply, open, uncertain, phase, want>>
    BY <1>11 DEF settingsVars, requestVars, sessionVars, backendVars
  <2>2. Restoring' <=> Restoring
    BY <2>1 DEF Restoring
  <2>3. QED
    BY <1>1, <2>1, <2>2, SameExact
<1>12. QED
  BY <1>1, <1>4, <1>5, <1>6, <1>7, <1>8, <1>9, <1>10, <1>11, SendingExact, BackendExact
     DEF SettingsNext

LEMMA UnrecordedKeeps ==
  ASSUME IInv, [SettingsNext]_settingsVars PROVE Unrecorded'
<1>1. /\ SettingsTypeOK /\ Control /\ Held /\ Answered /\ Exact /\ Unrecorded
      /\ Places /\ Queues
  BY DEF IInv, Places, Answers, Believed
<1>2. ASSUME phase' \notin {"asked", "after"} PROVE Unrecorded'
  BY <1>2 DEF Unrecorded
<1>3. ASSUME UNCHANGED <<want, cached, pending, uncertain>>,
             phase' = phase \/ phase \in {"asked", "after"}
      PROVE  Unrecorded'
  BY <1>1, <1>3 DEF Unrecorded, Matches
<1>4. ASSUME NEW how, Returns(how) PROVE phase' = "idle"
  BY <1>4 DEF Returns
<1>5. ASSUME Reconciled PROVE phase' \notin {"asked", "after"}
  <2>1. (phase' = CASE want.kind = "set_config" -> "decide"
                    [] want.kind = "revert" -> "lock"
                    [] OTHER -> "record")
        => phase' \in {"decide", "lock", "record"}
    OBVIOUS
  <2>2. QED
    BY <1>4, <1>5, <2>1 DEF Reconciled
<1>6. CASE \/ \E kind \in Operations, patch \in Patches : Begins(kind, patch)
           \/ PassSync \/ SyncTimesOut \/ Decide \/ ReconcileFails \/ AnswerFails
           \/ Reverted \/ Resumed
  BY <1>2, <1>4, <1>6 DEF Begins, PassSync, SyncTimesOut, Decide, ReconcileFails, AnswerFails,
                          Reverted, Resumed, Moves
<1>7. CASE Enable \/ Look
  <2>1. UNCHANGED <<cached, uncertain>>
    BY <1>7 DEF Enable, Look, sessionVars
  <2>2. CASE Reconciled
    BY <1>2, <1>5, <2>2
  <2>3. CASE ~Reconciled
    <3>1. UNCHANGED <<phase, want, pending>>
      BY <1>7, <2>3 DEF Enable, Look, requestVars
    <3>2. QED
      BY <1>3, <2>1, <3>1
  <2>4. QED
    BY <2>2, <2>3
<1>8. CASE Wait \/ Wake \/ Accepted
  BY <1>3, <1>8 DEF Wait, Wake, Accepted, Moves, requestVars, sessionVars
<1>9. CASE Record
  <2>1. UNCHANGED <<want, cached>>
    BY <1>9 DEF Record, requestVars, sessionVars
  <2>2. QED
    BY <1>1, <1>9, <2>1, RecordMeans DEF Unrecorded, Matches
<1>10. CASE AskLocked
  <2>1. want' = want /\ want.kind \notin Mutations
    BY <1>1, <1>10 DEF AskLocked, Moves, requestVars, Control, Mutations
  <2>2. QED
    BY <2>1 DEF Unrecorded
<1>11. CASE Deliver
  <2>1. UNCHANGED <<phase, want, pending, uncertain>> /\ updates # <<>>
    BY <1>11 DEF Deliver, requestVars
  <2>2. SUFFICES ASSUME phase \in {"asked", "after"}, want.kind \in Mutations,
                        pending = Nothing, ~uncertain
                 PROVE  FALSE
    BY <2>1 DEF Unrecorded
  <2>3. want.kind \notin {"resume", "revert"}
    BY <2>2 DEF Mutations
  <2>4. open /\ ~Restoring
    BY <1>1, <2>2, <2>3 DEF Control, Restoring
  <2>5. QED
    BY <1>1, <2>1, <2>2, <2>4 DEF Exact, Quiet, Applied
<1>12. CASE \/ BackendRefuses \/ BackendAccepts \/ BackendApplies
            \/ \E patch \in Patches : BackendReverts(patch)
            \/ \E settings \in Settings : BackendResumes(settings)
  BY <1>1, <1>3, <1>12, BackendLine DEF Queues
<1>13. CASE UNCHANGED settingsVars
  BY <1>3, <1>13 DEF settingsVars, requestVars, sessionVars
<1>14. QED
  BY <1>6, <1>7, <1>8, <1>9, <1>10, <1>11, <1>12, <1>13 DEF SettingsNext

----------------------------------------------------------------------------
(* The theorems *)

LEMMA Initially == SettingsInit => IInv
<1> SUFFICES ASSUME SettingsInit PROVE IInv
  OBVIOUS
<1>1. /\ asked = 0 /\ phase = "idle" /\ want = [kind |-> Unset, patch |-> NoPatch]
      /\ loop = Unset /\ reply = Says(Unset) /\ open = TRUE /\ pending = Nothing
      /\ requests = <<>> /\ queued = <<>> /\ updates = <<>>
  BY DEF SettingsInit
<1>2. SettingsTypeOK
  BY TypesInitially
<1>3. Outstanding = {} /\ Unread = {} /\ Unapplied = {}
  BY <1>1 DEF Outstanding, Unread, Unapplied, ToSet
<1>4. want.kind = Unset /\ reply.what = Unset
  BY <1>1 DEF Says
<1>5. Unset \notin {"resume", "revert", "resumed", "accepted", "refused", "looked", "waiting"}
      /\ Unset \notin Mutations
  BY DEF Unset, Mutations
<1>6. Places
  BY <1>1, <1>4, <1>5 DEF Places, Control, Held
<1>7. Queues
  <2>1. InOrder(requests) /\ InOrder(queued)
    BY <1>1 DEF InOrder
  <2>2. QED
    BY <1>1, <1>3, <2>1 DEF Queues, Ordered, Line, Own
<1>8. Answers
  BY <1>1, <1>3, <1>4, <1>5 DEF Answers, Answered, Still, Restoring
<1>9. \A f \in Fields : cached[f] = IF f \in Covered THEN effective[f] ELSE Unset
  BY DEF SettingsInit
<1>10. Tracks
  <2>1. Covered \subseteq Fields
    BY SettingsAssumption DEF SettingsAssumption
  <2>2. Stamped
    BY <1>1 DEF Stamped
  <2>3. TracksRest /\ TracksCovered /\ Overlaid
    BY <1>1, <1>9, <2>1 DEF TracksRest, TracksCovered, Overlaid, Covering
  <2>4. QED
    BY <2>2, <2>3 DEF Tracks
<1>11. Waits
  BY <1>1, <1>5 DEF Waits, Counted, Looked, Carries
<1>12. Believed
  BY <1>1, <1>3 DEF Believed, Exact, Quiet, Unrecorded
<1>13. QED
  BY <1>2, <1>6, <1>7, <1>8, <1>10, <1>11, <1>12 DEF IInv

LEMMA Keeps == IInv /\ [SettingsNext]_settingsVars => IInv'
<1> SUFFICES ASSUME IInv, [SettingsNext]_settingsVars PROVE IInv'
  OBVIOUS
<1>1. /\ SettingsTypeOK /\ Places /\ Queues /\ Answers /\ Tracks /\ Counted /\ Looked
      /\ Carries /\ Answered
  BY DEF IInv, Answers, Waits
<1>2. SettingsTypeOK' /\ Places' /\ Queues' /\ Answers' /\ Tracks'
  BY <1>1, Typed, PlacesKeep, QueuesKeep, AnswersKeep, TracksKeep
<1>3. Waits'
  BY <1>1, CountedKeeps, CarriesKeeps DEF Waits
<1>4. Believed'
  BY ExactKeeps, UnrecordedKeeps DEF Believed
<1>5. QED
  BY <1>2, <1>3, <1>4 DEF IInv

\* The inductive invariant holds.
THEOREM InvariantHolds == SettingsSpec => []IInv
BY Initially, Keeps, PTL DEF SettingsSpec

\* Every variable keeps its type, for any settings, values and limits.
THEOREM TypeCorrect == SettingsSpec => []SettingsTypeOK
<1>1. IInv => SettingsTypeOK
  BY DEF IInv
<1>2. QED
  BY <1>1, InvariantHolds, PTL

\* When everything has been delivered, the copy of an open session is what is effective:
\* overlay and cutoff make up for notifications and answers that overtake each other
\* (Server::notification, events.rs 262-293; Server::resume_session, lifecycle.rs 200-218).
THEOREM CacheFollows == SettingsSpec => []CacheSettles
<1>1. IInv => CacheSettles
  <2> SUFFICES ASSUME IInv, open, updates = <<>>, NEW f \in Fields
               PROVE  cached[f] \in {Unset, effective[f]}
    BY DEF CacheSettles
  <2>1. TracksRest /\ TracksCovered /\ Covering
    BY DEF IInv, Tracks, Covering
  <2>2. QED
    BY <2>1 DEF TracksRest, TracksCovered
<1>2. QED
  BY <1>1, InvariantHolds, PTL

LEMMA CauseMeans == ASSUME IInv PROVE WaitHasCause
<1> SUFFICES ASSUME loop = "waiting", ~woken, pending.by \notin refused,
                    ~\E f \in DOMAIN pending.patch : cached[f] = Unset,
                    ~\E m \in Outstanding : m.by = pending.by
             PROVE  \E k \in DOMAIN updates : Matches(updates[k].settings, pending.patch)
  BY DEF WaitHasCause
<1>1. /\ SettingsTypeOK /\ Control /\ Held /\ Counted /\ Looked /\ Carries
      /\ TracksRest /\ TracksCovered
  BY DEF IInv, Places, Waits, Tracks
<1>2. phase \in {"before", "after"} /\ pending # Nothing
  BY <1>1 DEF Held, Unset
<1>3. open
  BY <1>1, <1>2 DEF Control
<1>4. ~Matches(cached, pending.patch)
  BY <1>1, <1>2 DEF Looked, Shown, Counted
<1>5. Matches(effective, pending.patch)
  BY <1>1, <1>2, <1>3 DEF Carries, Carried
<1>6. pending.patch \in Patches
  BY <1>1, WantMeans
<1>7. PICK f \in DOMAIN pending.patch : cached[f] # pending.patch[f]
  BY <1>4 DEF Matches
<1>8. f \in Fields /\ effective[f] = pending.patch[f] /\ cached[f] # Unset
      /\ \A g \in DOMAIN pending.patch : g = f
  BY <1>5, <1>6, <1>7, PatchMeans DEF Matches
<1>9. updates # <<>> /\ Last(updates).settings[f] = effective[f]
  <2>1. CASE f \in Covered
    <3>1. ~Covering
      BY <1>1, <1>3, <1>7, <1>8, <2>1 DEF TracksCovered
    <3>2. QED
      BY <1>1, <1>3, <2>1, <3>1 DEF TracksCovered, Covering
  <2>2. CASE f \notin Covered
    BY <1>1, <1>7, <1>8, <2>2 DEF TracksRest
  <2>3. QED
    BY <2>1, <2>2
<1>10. Matches(Last(updates).settings, pending.patch)
  BY <1>8, <1>9 DEF Matches
<1>11. Len(updates) \in DOMAIN updates
  <2>1. updates \in Seq(Notice)
    BY <1>1, UpdatesMean
  <2>2. QED
    BY <1>9, <2>1
<1>12. Last(updates) = updates[Len(updates)]
  BY DEF Last
<1>13. QED
  BY <1>10, <1>11, <1>12

\* Who waits for a mutation to be reported has not missed it and will see it: reconcile_settings
\* registers for Session.changed before it looks, and what it waits for is on its way.
THEOREM WaitsForCause == SettingsSpec => []WaitHasCause
BY CauseMeans, InvariantHolds, PTL

\* An answer with success, and when it is due.
LEMMA Succeeds ==
  ASSUME IInv, [SettingsNext]_settingsVars, said' \in {"ok", "noop"}, said = Unset,
         want.kind \in Mutations
  PROVE  /\ \/ Enable /\ phase = "after" /\ pending = Nothing
            \/ Look /\ phase = "after" /\ Shown
            \/ Decide /\ phase = "decide" /\ Matches(cached, want.patch)
         /\ UNCHANGED <<effective, requests, queued>> /\ reply' = reply
<1>1. Control
  BY DEF IInv, Places
<1>2. Unset \notin {"ok", "noop"} /\ said' # said /\ said' # "error" /\ said' # Unset
      /\ want.kind \notin {"resume", "revert"}
  BY DEF Unset, Mutations
<1>3. \A how : Returns(how) => said' = how
  BY DEF Returns
<1>4. ~\E kind \in Operations, patch \in Patches : Begins(kind, patch)
  BY <1>2 DEF Begins
<1>5. ~PassSync
  <2>1. phase # "last"
    BY <1>1, <1>2 DEF Control
  <2>2. QED
    BY <1>2, <2>1 DEF PassSync
<1>6. ~(SyncTimesOut \/ ReconcileFails \/ AnswerFails)
  BY <1>2, <1>3 DEF SyncTimesOut, ReconcileFails, AnswerFails
<1>7. ~(Wait \/ Wake \/ Record \/ AskLocked \/ Accepted \/ Reverted \/ Resumed \/ Deliver)
  BY <1>2 DEF Wait, Wake, Record, AskLocked, Accepted, Reverted, Resumed, Deliver
<1>8. ~(\/ BackendRefuses \/ BackendAccepts \/ BackendApplies
        \/ \E patch \in Patches : BackendReverts(patch)
        \/ \E settings \in Settings : BackendResumes(settings)
        \/ UNCHANGED settingsVars)
  BY <1>2 DEF BackendRefuses, BackendAccepts, BackendApplies, BackendReverts, BackendResumes,
              settingsVars
<1>9. Reconciled => phase = "after"
  BY <1>2 DEF Reconciled
<1>10. CASE Enable
  BY <1>2, <1>9, <1>10 DEF Enable, backendVars
<1>11. CASE Look
  BY <1>2, <1>9, <1>11 DEF Look, backendVars
<1>12. CASE Decide
  BY <1>2, <1>12 DEF Decide, backendVars
<1>13. QED
  BY <1>4, <1>5, <1>6, <1>7, <1>8, <1>10, <1>11, <1>12 DEF SettingsNext

LEMMA AnswerMeans ==
  ASSUME IInv, [SettingsNext]_settingsVars, said' \in {"ok", "noop"}, said = Unset,
         want.kind \in Mutations, ~uncertain
  PROVE  /\ Matches(effective, want.patch)
         /\ \A m \in Outstanding : Matches(Over(want.patch, m.patch), want.patch)
<1>1. /\ SettingsTypeOK /\ Control /\ Held /\ Tracks /\ Exact /\ Unrecorded /\ Answered
  BY DEF IInv, Places, Believed, Answers
<1>2. /\ \/ Enable /\ phase = "after" /\ pending = Nothing
         \/ Look /\ phase = "after" /\ Shown
         \/ Decide /\ phase = "decide" /\ Matches(cached, want.patch)
  BY Succeeds
<1>3. phase \in {"after", "decide"} /\ want.kind \notin {"resume", "revert"}
  BY <1>2 DEF Mutations
<1>4. open /\ ~Restoring
  BY <1>1, <1>3 DEF Control, Answered, Restoring, Unset
<1>5. want.patch \in Patches
  BY <1>1, WantMeans
\* Nothing is pending, and the copy shows it.
<1>6. CASE pending = Nothing /\ Matches(cached, want.patch)
  <2>1. Quiet
    BY <1>1, <1>4, <1>6 DEF Exact, Applied
  <2>2. updates = <<>>
    BY <2>1 DEF Quiet
  <2>3. Matches(effective, want.patch)
    BY <1>1, <1>4, <1>5, <1>6, <2>2, ShownIsEffective
  <2>4. \A m \in Outstanding : m.by # 0
    BY <1>1, OutstandingMeans
  <2>5. \A m \in Outstanding : Matches(cached, m.patch)
    BY <1>6, <2>1, <2>4, NothingMeans DEF Quiet
  <2>6. \A m \in Outstanding : Matches(Over(want.patch, m.patch), want.patch)
    BY <1>6, <2>5 DEF Matches, Over
  <2>7. QED
    BY <2>3, <2>6
\* It is pending, and has been shown.
<1>7. CASE phase = "after" /\ Look /\ Shown
  <2>1. pending # Nothing
    BY <1>1, <1>7 DEF Look, Held, Unset
  <2>2. pending.patch = want.patch
    BY <1>1, <1>7, <2>1 DEF Held
  <2>3. generation # pending.generation
    BY <1>1, <1>7, Bounds DEF Shown
  <2>4. Applied
    BY <1>1, <1>4, <2>1, <2>3 DEF Exact, Quiet
  <2>5. QED
    BY <2>2, <2>4 DEF Applied
<1>8. phase = "after" /\ pending = Nothing => Matches(cached, want.patch)
  BY <1>1 DEF Unrecorded
<1>9. phase = "decide" => pending = Nothing
  BY <1>1 DEF Held
<1>10. QED
  BY <1>2, <1>6, <1>7, <1>8, <1>9

\* A settings call is answered with success only when what it asked for is effective and
\* nothing on its way to the backend or queued there changes it.
THEOREM AnswersTrue == SettingsSpec => EffectiveWhenAnswered
<1>1. IInv /\ [SettingsNext]_settingsVars
      => [said' \in {"ok", "noop"} /\ said = Unset /\ want.kind \in Mutations /\ ~uncertain
          => /\ Matches(effective, want.patch)
             /\ \A m \in Outstanding :
                  Matches(Over(want.patch, m.patch), want.patch)]_settingsVars
  BY AnswerMeans
<1>2. QED
  BY <1>1, InvariantHolds, PTL DEF SettingsSpec, EffectiveWhenAnswered

=============================================================================
