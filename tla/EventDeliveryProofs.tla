-------------------------- MODULE EventDeliveryProofs --------------------------
(***************************************************************************)
(* Theorems of EventDelivery, for any threads, sessions, callers of        *)
(* synchronize_session and capacities.                                     *)
(***************************************************************************)
EXTENDS EventDelivery, TLAPS

USE DeliveryAssumption DEF Roots, Waiters, Nobody, Numbers

----------------------------------------------------------------------------
(* The inductive invariant *)

\* What the pump has read of the child's output.
Taken == Len(printed) - Len(events)

In(s, e) == \E i \in 1..Len(s) : s[i] = e
Ascends(s) == \A i, j \in 1..Len(s) : i < j => s[i] < s[j]

\* The channel holds the rest, in order.
ChannelExact ==
  /\ Len(events) <= Len(printed)
  /\ \A i \in 1..Len(events) : events[i] = Taken + i

\* What the pump holds, and what is parked, is in order, the event in hand first; parked are
\* events of threads that are no sessions.
PumpSound ==
  /\ Ascends(queued) /\ Ascends(early)
  /\ \A i \in 1..Len(queued) : queued[i] <= Taken /\ hand < queued[i]
  /\ \A i \in 1..Len(early) : early[i] <= Taken /\ printed[early[i]] \notin sessions
  /\ hand <= Taken
  /\ registered = Nobody => queued = <<>>
  /\ Opened \subseteq sessions
  /\ \A n \in lost \union refused : n <= Taken

\* A session's line: what was delivered, what its worker has, and its queue.
InLine(r, n) == In(delivered[r], n) \/ worker[r] = n \/ In(fifo[r], n)
InPump(n) == n = hand \/ In(queued, n)

Own(r, n) == n \in Numbers /\ n <= Len(printed) /\ printed[n] = r

\* The session's own events go through it in order.
LineSound(r) ==
  /\ \A n \in Numbers : InLine(r, n) => n <= Taken
  /\ \A n \in Numbers : InLine(r, n) /\ Own(r, n) => r \in sessions
  /\ \A i, j \in 1..Len(delivered[r]) :
       i < j /\ Own(r, delivered[r][i]) /\ Own(r, delivered[r][j]) => delivered[r][i] < delivered[r][j]
  /\ \A i, j \in 1..Len(fifo[r]) :
       i < j /\ Own(r, fifo[r][i]) /\ Own(r, fifo[r][j]) => fifo[r][i] < fifo[r][j]
  /\ \A m, n \in Numbers :
       Own(r, m) /\ Own(r, n) =>
         /\ In(delivered[r], m) /\ (worker[r] = n \/ In(fifo[r], n) \/ InPump(n)) => m < n
         /\ worker[r] = m /\ (In(fifo[r], n) \/ InPump(n)) => m < n
         /\ In(fifo[r], m) /\ InPump(n) => m < n

\* No event the pump has read is out of sight: it is held, parked, in the line of the session
\* that owns its thread, or given up.
Given == lost \union refused

KeepsTrack ==
  ~broken => \A n \in 1..Len(printed) :
    n <= Taken => InPump(n) \/ In(early, n) \/ n \in Given \/ InLine(Root[printed[n]], n)

\* The marker of a caller follows what its session's thread had emitted when it began.
Over(r, n) == In(delivered[r], n) \/ n \in Given

\* What it has before it in the queue, and before the queue.
Follows(f, r, i) ==
  /\ fence[f] # "idle" /\ r = Target[f]
  /\ \A n \in 1..mark[f] : printed[n] = r =>
       Over(r, n) \/ worker[r] = n \/ \E j \in 1..Len(fifo[r]) : j < i /\ fifo[r][j] = n

MarkerSound(f) ==
  /\ mark[f] <= Len(printed)
  /\ fence[f] # "idle" => Target[f] \in sessions
  /\ In(registrations, f) => fence[f] # "idle"
  /\ registered = f => fence[f] # "idle" /\ mark[f] <= Taken
  /\ \A r \in Roots :
       /\ \A i \in 1..Len(fifo[r]) : fifo[r][i] = f => Follows(f, r, i)
       /\ worker[r] = f =>
            /\ fence[f] # "idle" /\ r = Target[f]
            /\ \A n \in 1..mark[f] : printed[n] = r => Over(r, n)
  /\ fence[f] \in {"observed", "holding"} =>
       \A n \in 1..mark[f] : printed[n] = Target[f] => Over(Target[f], n)

\* An open session loses none of its own.
NoneLost == \A r \in Opened : \A n \in Given : printed[n] # r

IInv ==
  /\ TypeOK /\ ChannelExact /\ PumpSound /\ KeepsTrack /\ NoneLost
  /\ \A r \in Roots : LineSound(r)
  /\ \A f \in Fences : MarkerSound(f)


LEMMA Initial == Init => IInv
<1> SUFFICES ASSUME Init PROVE IInv
  OBVIOUS
<1>1. TypeOK
  <2>1. \A S : <<>> \in Seq(S) /\ Len(<<>>) = 0
    OBVIOUS
  <2>2. /\ printed \in Seq(Threads) /\ Len(printed) <= MaxEvents
        /\ {events, queued, early} \subseteq Seq(Numbers) /\ Len(early) <= EarlyLimit
        /\ registrations \in Seq(Waiters) /\ Len(registrations) <= RegistrationCapacity
    BY <2>1 DEF Init
  <2>3. /\ fifo \in [Roots -> Seq(Numbers \union Waiters)] /\ delivered \in [Roots -> Seq(Numbers)]
        /\ \A r \in Roots : Len(fifo[r]) <= DeliveryLimit /\ worker[r] = Nobody /\ fifo[r] = <<>>
    BY <2>1 DEF Init
  <2>4. mark \in [Fences -> 0 .. MaxEvents]
    BY DEF Init
  <2>5. QED
    BY <2>2, <2>3, <2>4 DEF Init, TypeOK
<1>2. ChannelExact /\ PumpSound /\ KeepsTrack /\ NoneLost
  BY DEF Init, ChannelExact, Taken, PumpSound, Ascends, KeepsTrack, NoneLost, Given
<1>3. ASSUME NEW r \in Roots PROVE LineSound(r)
  BY DEF Init, LineSound, InLine, In
<1>4. ASSUME NEW f \in Fences PROVE MarkerSound(f)
  BY DEF Init, MarkerSound, In
<1>5. QED
  BY <1>1, <1>2, <1>3, <1>4 DEF IInv

----------------------------------------------------------------------------
(* Queues *)

LEMMA AtEnd ==
  ASSUME NEW S, NEW s \in Seq(S), NEW e \in S
  PROVE  /\ Append(s, e) \in Seq(S) /\ Len(s) \in Nat /\ Len(Append(s, e)) = Len(s) + 1
         /\ \A i \in 1..Len(s) : Append(s, e)[i] = s[i]
         /\ Append(s, e)[Len(s) + 1] = e
         /\ \A i \in 1..Len(Append(s, e)) : i \in 1..Len(s) \/ i = Len(s) + 1
         /\ \A x : In(Append(s, e), x) <=> In(s, x) \/ x = e
<1>1. Append(s, e) \in Seq(S) /\ Len(s) \in Nat /\ Len(Append(s, e)) = Len(s) + 1
  OBVIOUS
<1>2. /\ \A i \in 1..Len(s) : Append(s, e)[i] = s[i]
      /\ Append(s, e)[Len(s) + 1] = e
  BY <1>1
<1>3. /\ \A i \in 1..Len(s) : i \in 1..Len(Append(s, e))
      /\ \A i \in 1..Len(Append(s, e)) : i \in 1..Len(s) \/ i = Len(s) + 1
  <2>1. PICK n \in Nat : n = Len(s) /\ Len(Append(s, e)) = n + 1
    BY <1>1
  <2>2. \A i \in 1..n + 1 : i \in 1..n \/ i = n + 1
    OBVIOUS
  <2>3. \A i \in 1..n : i \in 1..n + 1
    OBVIOUS
  <2>4. QED
    BY <2>1, <2>2, <2>3
<1>4. Len(s) + 1 \in 1..Len(Append(s, e))
  BY <1>1
<1>5. ASSUME NEW x PROVE In(Append(s, e), x) <=> In(s, x) \/ x = e
  BY <1>2, <1>3, <1>4 DEF In
<1>6. QED
  BY <1>1, <1>2, <1>3, <1>5

LEMMA FromFront ==
  ASSUME NEW S, NEW s \in Seq(S), s # <<>>
  PROVE  /\ Tail(s) \in Seq(S) /\ Len(s) \in Nat \ {0} /\ Len(Tail(s)) = Len(s) - 1
         /\ Head(s) = s[1] /\ Head(s) \in S /\ 1 \in 1..Len(s)
         /\ \A i \in 1..Len(Tail(s)) : Tail(s)[i] = s[i + 1] /\ i + 1 \in 1..Len(s)
         /\ \A i \in 1..Len(s) : i = 1 \/ (i - 1 \in 1..Len(Tail(s)) /\ Tail(s)[i - 1] = s[i])
         /\ \A x : In(s, x) <=> x = Head(s) \/ In(Tail(s), x)
<1>1. Tail(s) \in Seq(S) /\ Len(s) \in Nat \ {0} /\ Len(Tail(s)) = Len(s) - 1
      /\ Head(s) = s[1] /\ Head(s) \in S /\ 1 \in 1..Len(s)
  OBVIOUS
<1>2. \A i \in 1..Len(Tail(s)) : Tail(s)[i] = s[i + 1] /\ i + 1 \in 1..Len(s)
  BY <1>1
<1>3. \A i \in 1..Len(s) : i = 1 \/ (i - 1 \in 1..Len(Tail(s)) /\ Tail(s)[i - 1] = s[i])
  <2> SUFFICES ASSUME NEW i \in 1..Len(s), i # 1
               PROVE  i - 1 \in 1..Len(Tail(s)) /\ Tail(s)[i - 1] = s[i]
    OBVIOUS
  <2>1. i - 1 \in 1..Len(Tail(s)) /\ (i - 1) + 1 = i
    BY <1>1
  <2>2. Tail(s)[i - 1] = s[(i - 1) + 1]
    BY <1>2, <2>1
  <2>3. QED
    BY <2>1, <2>2
<1>4. ASSUME NEW x PROVE In(s, x) <=> x = Head(s) \/ In(Tail(s), x)
  BY <1>1, <1>2, <1>3, SMTT(60) DEF In
<1>5. QED
  BY <1>1, <1>2, <1>3, <1>4

LEMMA Nowhere == \A x : ~In(<<>>, x)
  BY DEF In

LEMMA Among ==
  ASSUME NEW S, NEW s \in Seq(S), NEW x, In(s, x)
  PROVE  x \in S
  BY DEF In

LEMMA Sizes ==
  ASSUME TypeOK, ChannelExact
  PROVE  /\ Len(printed) \in Nat /\ Len(events) \in Nat /\ Taken \in Nat /\ Taken <= Len(printed)
         /\ Len(printed) <= MaxEvents /\ MaxEvents \in Nat
  BY DEF TypeOK, ChannelExact, Taken

LEMMA OwnersKnown ==
  ASSUME TypeOK
  PROVE  \A n \in 1..Len(printed) :
           printed[n] \in Threads /\ Root[printed[n]] \in Roots /\ n \in Numbers
<1>1. printed \in Seq(Threads) /\ Len(printed) \in Nat /\ Len(printed) <= MaxEvents /\ MaxEvents \in Nat
  BY DEF TypeOK
<1>2. ASSUME NEW n \in 1..Len(printed)
      PROVE  printed[n] \in Threads /\ n \in Numbers
  BY <1>1
<1>3. QED
  BY <1>2

----------------------------------------------------------------------------
(* What a step leaves alone *)

Grows ==
  /\ Len(printed') \in Nat /\ Len(printed') >= Len(printed)
  /\ \A i \in 1..Len(printed) : printed'[i] = printed[i]
  /\ Taken' \in Nat /\ Taken' >= Taken

LEMMA StillGrows ==
  ASSUME TypeOK, ChannelExact, UNCHANGED <<printed, events>>
  PROVE  Grows /\ Taken' = Taken
<1>1. Taken' = Taken
  BY DEF Taken
<1>2. QED
  BY <1>1, Sizes DEF Grows

LEMMA SameOwn ==
  ASSUME IInv, Grows, NEW r, NEW n \in Numbers, n <= Taken
  PROVE  Own(r, n)' <=> Own(r, n)
<1>1. n <= Len(printed) /\ n <= Len(printed') /\ n \in 1..Len(printed)
  BY Sizes DEF IInv, Grows
<1>2. QED
  BY <1>1 DEF Own, Grows

\* A line that does not move, when the pump holds nothing new that the line has to follow.
LEMMA LineKept ==
  ASSUME IInv, Grows, NEW r \in Roots, sessions \subseteq sessions',
         delivered'[r] = delivered[r], worker'[r] = worker[r], fifo'[r] = fifo[r],
         \A n \in Numbers : InPump(n)' /\ Own(r, n)' =>
           \/ InPump(n) /\ n <= Taken
           \/ n > Taken
           \/ \A m \in Numbers : ~(InLine(r, m) /\ Own(r, m))
  PROVE  LineSound(r)'
<1>0. Taken \in Nat /\ Taken' \in Nat /\ Taken' >= Taken /\ LineSound(r)
  BY Sizes DEF IInv, Grows
<1>1. \A n : InLine(r, n)' <=> InLine(r, n)
  BY DEF InLine
<1>2. \A n \in Numbers : InLine(r, n) => n <= Taken /\ (Own(r, n)' <=> Own(r, n))
  BY <1>0, SameOwn DEF LineSound
<1>3. ASSUME NEW s, NEW i \in 1..Len(s), Own(r, s[i])', \A n : In(s, n) => InLine(r, n)
      PROVE  Own(r, s[i])
  <2>1. s[i] \in Numbers /\ In(s, s[i])
    BY <1>3 DEF Own, In
  <2>2. QED
    BY <1>2, <1>3, <2>1
<1>4. \A n : (In(delivered[r], n) => InLine(r, n)) /\ (In(fifo[r], n) => InLine(r, n))
  BY DEF InLine
<1>5. \A i, j \in 1..Len(delivered[r]) :
        i < j /\ Own(r, delivered[r][i])' /\ Own(r, delivered[r][j])' => delivered[r][i] < delivered[r][j]
  BY <1>0, <1>3, <1>4 DEF LineSound
<1>6. \A i, j \in 1..Len(fifo[r]) :
        i < j /\ Own(r, fifo[r][i])' /\ Own(r, fifo[r][j])' => fifo[r][i] < fifo[r][j]
  BY <1>0, <1>3, <1>4 DEF LineSound
<1>7. ASSUME NEW m \in Numbers, NEW n \in Numbers, Own(r, m)', Own(r, n)'
      PROVE  /\ In(delivered[r], m) /\ (worker[r] = n \/ In(fifo[r], n) \/ InPump(n)') => m < n
             /\ worker[r] = m /\ (In(fifo[r], n) \/ InPump(n)') => m < n
             /\ In(fifo[r], m) /\ InPump(n)' => m < n
  <2>1. InLine(r, m) => Own(r, m) /\ m <= Taken
    BY <1>2, <1>7
  <2>2. InLine(r, n) => Own(r, n)
    BY <1>2, <1>7
  <2>3. CASE InPump(n) /\ n <= Taken
    <3>1. Own(r, n)
      BY <1>7, <2>3, SameOwn
    <3>2. QED
      BY <1>0, <1>4, <2>1, <2>2, <2>3, <3>1 DEF LineSound, InLine
  <2>4. CASE n > Taken
    <3>1. InLine(r, m) => m < n
      BY <1>0, <2>1, <2>4
    <3>2. QED
      BY <3>1 DEF InLine
  <2>5. CASE ~InLine(r, m)
    BY <2>5 DEF InLine
  <2>6. CASE ~InPump(n)'
    BY <1>0, <1>4, <2>1, <2>2, <2>6 DEF LineSound, InLine
  <2>7. InPump(n)' => (InPump(n) /\ n <= Taken) \/ n > Taken \/ ~(InLine(r, m) /\ Own(r, m))
    BY <1>7
  <2>8. QED
    BY <2>1, <2>3, <2>4, <2>5, <2>6, <2>7
<1>8. \A n \in Numbers : InLine(r, n) => n <= Taken'
  BY <1>0, <1>2
<1>9. \A n \in Numbers : InLine(r, n) /\ Own(r, n)' => r \in sessions'
  BY <1>0, <1>2 DEF LineSound
<1>10. QED
  BY <1>1, <1>5, <1>6, <1>7, <1>8, <1>9 DEF LineSound

\* A marker that does not move.
LEMMA MarkerKept ==
  ASSUME IInv, Grows, NEW f \in Fences, sessions \subseteq sessions', mark'[f] = mark[f],
         (fence'[f] = "idle") <=> (fence[f] = "idle"),
         fence'[f] \in {"observed", "holding"} => fence[f] \in {"observed", "holding"},
         In(registrations', f) => In(registrations, f), registered' = f => registered = f,
         UNCHANGED <<worker, fifo>>, Given \subseteq Given',
         \A r \in Roots, n \in Numbers : In(delivered[r], n) => In(delivered'[r], n)
  PROVE  MarkerSound(f)'
<1>1. MarkerSound(f) /\ mark[f] \in Nat /\ Len(printed) \in Nat /\ Taken \in Nat /\ mark[f] <= MaxEvents
  <2>1. mark[f] \in 0..MaxEvents /\ MaxEvents \in Nat
    BY DEF IInv, TypeOK
  <2>2. QED
    BY <2>1, Sizes DEF IInv
<1>2. \A n \in 1..mark[f] : n \in 1..Len(printed) /\ n \in Numbers /\ printed'[n] = printed[n]
  BY <1>1, Sizes DEF MarkerSound, IInv, Grows
<1>3. \A r \in Roots, n \in 1..mark[f] : Over(r, n) => Over(r, n)'
  BY <1>2 DEF Over
<1>4. Target[f] \in Roots
  OBVIOUS
<1>5. mark[f] <= Len(printed') /\ (mark[f] <= Taken => mark[f] <= Taken')
  BY <1>1 DEF MarkerSound, Grows
<1>6. \A r \in Roots :
        /\ \A i \in 1..Len(fifo[r]) : fifo[r][i] = f => Follows(f, r, i)'
        /\ worker[r] = f =>
             /\ fence'[f] # "idle" /\ r = Target[f]
             /\ \A n \in 1..mark[f] : printed'[n] = r => Over(r, n)'
  BY <1>1, <1>2, <1>3, SMTT(60) DEF MarkerSound, Follows
<1>7. fence'[f] \in {"observed", "holding"} =>
        \A n \in 1..mark[f] : printed'[n] = Target[f] => Over(Target[f], n)'
  BY <1>1, <1>2, <1>3, <1>4 DEF MarkerSound
<1>8. QED
  BY <1>1, <1>5, <1>6, <1>7 DEF MarkerSound

\* A step that moves no event.
LEMMA NoEventMoves ==
  ASSUME IInv, TypeOK', broken => broken', UNCHANGED
           <<printed, events, queued, registered, hand, sessions, early, fifo, worker, delivered,
             lost, refused>>,
         \A f \in Fences : MarkerSound(f)'
  PROVE  IInv'
<1>1. Grows /\ Taken' = Taken
  BY StillGrows DEF IInv
<1>2. Given' = Given /\ \A n : InPump(n)' <=> InPump(n)
  BY DEF Given, InPump
<1>3. ChannelExact' /\ PumpSound' /\ NoneLost'
  BY <1>1, <1>2 DEF IInv, ChannelExact, PumpSound, Ascends, NoneLost
<1>4. ASSUME NEW r \in Roots PROVE LineSound(r)'
  <2>1. \A n \in Numbers : InPump(n) => n <= Taken
    BY DEF InPump, In, IInv, PumpSound
  <2>2. QED
    BY <1>1, <1>2, <2>1, LineKept
<1>5. \A r \in Roots, n \in Numbers : InLine(r, n)' <=> InLine(r, n)
  BY DEF InLine
<1>6. \A n \in 1..Len(printed) : Root[printed[n]] \in Roots /\ n \in Numbers
  BY OwnersKnown DEF IInv
<1>7. KeepsTrack'
  BY <1>1, <1>2, <1>5, <1>6 DEF IInv, KeepsTrack
<1>8. QED
  BY <1>3, <1>4, <1>7 DEF IInv

LEMMA MarkersKept ==
  ASSUME IInv, UNCHANGED <<printed, events, registered, sessions, fifo, worker, delivered, mark>>,
         \A f \in Fences : (fence'[f] = "idle") <=> (fence[f] = "idle"),
         \A f \in Fences : fence'[f] \in {"observed", "holding"} => fence[f] \in {"observed", "holding"},
         \A f \in Fences : In(registrations', f) => In(registrations, f),
         lost \subseteq lost', refused \subseteq refused'
  PROVE  \A f \in Fences : MarkerSound(f)'
<1>1. Grows /\ Given \subseteq Given'
  BY StillGrows DEF IInv, Given
<1>2. QED
  BY <1>1, MarkerKept

----------------------------------------------------------------------------
(* Creations and callers *)

LEMMA QuietTaskKeeps ==
  ASSUME IInv, NEW x \in Created, SetupBegins(x) \/ SetupUnusable(x) \/ SetupAccepted(x) PROVE IInv'
<1> USE DEF pumpVars, fifoVars, histVars
<1>1. TypeOK'
  <2>1. registrations \in Seq(Waiters) /\ x \in Waiters
    BY DEF IInv, TypeOK
  <2>2. Append(registrations, x) \in Seq(Waiters) /\ Len(Append(registrations, x)) = Len(registrations) + 1
    BY <2>1, AtEnd
  <2>3. Len(registrations) < RegistrationCapacity => Len(registrations) + 1 <= RegistrationCapacity
    BY <2>1
  <2>4. registrations' \in Seq(Waiters) /\ Len(registrations') <= RegistrationCapacity
    BY <2>2, <2>3, ZenonT(60) DEF SetupBegins, SetupUnusable, SetupAccepted, IInv, TypeOK
  <2>5. /\ creation' \in [Created -> {"idle", "requested", "registering", "registered", "failed", "unusable"}]
        /\ setup' \in BOOLEAN
    BY DEF SetupBegins, SetupUnusable, SetupAccepted, IInv, TypeOK
  <2>6. UNCHANGED <<printed, events, queued, registered, hand, sessions, early, fifoVars, holder,
                    delivered, lost, refused, fence, mark, broken>>
    BY DEF SetupBegins, SetupUnusable, SetupAccepted
  <2>7. QED
    BY <2>4, <2>5, <2>6 DEF IInv, TypeOK
<1>2. \A f \in Fences : In(registrations', f) => In(registrations, f)
  <2>1. registrations \in Seq(Waiters) /\ x \in Waiters
    BY DEF IInv, TypeOK
  <2>2. \A f : In(Append(registrations, x), f) => In(registrations, f) \/ f = x
    BY <2>1, AtEnd
  <2>3. registrations' = registrations \/ registrations' = Append(registrations, x)
    BY DEF SetupBegins, SetupUnusable, SetupAccepted
  <2>4. \A f \in Fences : f # x
    OBVIOUS
  <2>5. CASE registrations' = registrations
    BY <2>5
  <2>6. CASE registrations' = Append(registrations, x)
    BY <2>2, <2>4, <2>6
  <2>7. QED
    BY <2>3, <2>5, <2>6
<1>3. \A f \in Fences : MarkerSound(f)'
  BY <1>2, MarkersKept DEF SetupBegins, SetupUnusable, SetupAccepted
<1>4. QED
  BY <1>1, <1>3, NoEventMoves DEF SetupBegins, SetupUnusable, SetupAccepted

LEMMA SetupRejectedKeeps ==
  ASSUME IInv, NEW x \in Created, SetupRejected(x) PROVE IInv'
<1> USE DEF pumpVars, fifoVars, histVars
<1>1. Grows /\ Taken' = Taken
  BY StillGrows DEF IInv, SetupRejected
<1>2. PICK callbacks \in SUBSET ToSet(early) :
        refused' = refused \union callbacks /\ lost' = lost \union (ToSet(early) \ callbacks)
  BY DEF SetupRejected, Discard
<1>3. early \in Seq(Numbers)
  BY DEF IInv, TypeOK
<1>4. \A n : n \in ToSet(early) <=> In(early, n)
  BY <1>3 DEF ToSet, In
<1>5. ToSet(early) \subseteq Numbers
  BY <1>3, <1>4, Among
<1>6. Given \subseteq Given' /\ \A n : n \in Given' <=> n \in Given \/ In(early, n)
  BY <1>2, <1>4 DEF Given
<1>7. early' = <<>>
  BY DEF SetupRejected, EarlyAfterFailure
<1>8. TypeOK'
  <2>1. early' \in Seq(Numbers) /\ Len(early') = 0 /\ {events, queued} \subseteq Seq(Numbers) /\ EarlyLimit \in Nat
    BY <1>7 DEF IInv, TypeOK
  <2>2. lost' \subseteq Numbers /\ refused' \subseteq Numbers
    BY <1>2, <1>5 DEF IInv, TypeOK
  <2>3. creation' \in [Created -> {"idle", "requested", "registering", "registered", "failed", "unusable"}]
    BY DEF SetupRejected, IInv, TypeOK
  <2>4. {events, queued, early}' \subseteq Seq(Numbers) /\ Len(early') <= EarlyLimit
    BY <2>1 DEF SetupRejected
  <2>5. setup' = FALSE /\ UNCHANGED <<printed, registrations, registered, hand, sessions, fifo,
          running, worker, holder, delivered, fence, mark, broken>>
    BY DEF SetupRejected, Discard
  <2>6. QED
    BY <2>2, <2>3, <2>4, <2>5 DEF IInv, TypeOK
<1>9. \A n \in Given' : n <= Taken /\ (n \in Given \/ printed[n] \notin sessions)
  BY <1>6 DEF IInv, PumpSound, Given, In
<1>10. NoneLost'
  BY <1>9 DEF IInv, NoneLost, PumpSound, SetupRejected
<1>11. ChannelExact' /\ PumpSound'
  BY <1>1, <1>7, <1>9 DEF IInv, ChannelExact, PumpSound, Ascends, SetupRejected, Given
<1>12. \A n : InPump(n)' <=> InPump(n)
  BY DEF InPump, SetupRejected
<1>13. ASSUME NEW r \in Roots PROVE LineSound(r)'
  <2>1. \A n \in Numbers : InPump(n) => n <= Taken
    BY DEF InPump, In, IInv, PumpSound
  <2>2. QED
    BY <1>1, <1>12, <2>1, LineKept DEF SetupRejected, Discard
<1>14. KeepsTrack'
  <2>1. \A r \in Roots, n \in Numbers : InLine(r, n)' <=> InLine(r, n)
    BY DEF InLine, SetupRejected, Discard
  <2>2. \A n \in 1..Len(printed) : Root[printed[n]] \in Roots /\ n \in Numbers
    BY OwnersKnown DEF IInv
  <2>3. QED
    BY <1>1, <1>6, <1>12, <2>1, <2>2 DEF IInv, KeepsTrack, SetupRejected
<1>15. \A f \in Fences : MarkerSound(f)'
  BY <1>2, MarkersKept DEF SetupRejected, Discard
<1>16. QED
  BY <1>8, <1>10, <1>11, <1>13, <1>14, <1>15 DEF IInv

LEMMA FenceGoesOn ==
  ASSUME IInv, NEW f \in Fences, FenceTimesOut(f) \/ FenceLocks(f) \/ FenceReleases(f) PROVE IInv'
<1> USE DEF pumpVars, fifoVars, histVars
<1>0. UNCHANGED <<printed, events, pumpVars, sessions, setup, early, fifoVars, creation, mark,
                  histVars, broken>>
  BY DEF FenceTimesOut, FenceLocks, FenceReleases
<1>1. /\ fence' \in [Fences -> {"idle", "waiting", "observed", "holding", "done", "failed"}]
      /\ holder' \in [Roots -> Fences \union {Nobody}]
  <2>1. PICK to \in {"failed", "holding", "done"} : fence' = [fence EXCEPT ![f] = to]
    BY DEF FenceTimesOut, FenceLocks, FenceReleases, FenceStep
  <2>2. PICK h \in Fences \union {Nobody} : holder' = holder \/ holder' = [holder EXCEPT ![Target[f]] = h]
    BY DEF FenceTimesOut, FenceLocks, FenceReleases
  <2>3. fence \in [Fences -> {"idle", "waiting", "observed", "holding", "done", "failed"}]
        /\ holder \in [Roots -> Fences \union {Nobody}]
    BY DEF IInv, TypeOK
  <2>4. fence' \in [Fences -> {"idle", "waiting", "observed", "holding", "done", "failed"}]
    BY <2>1, <2>3
  <2>5. holder' \in [Roots -> Fences \union {Nobody}]
    BY <2>2, <2>3
  <2>6. QED
    BY <2>4, <2>5
<1>2. TypeOK'
  BY <1>0, <1>1 DEF IInv, TypeOK
<1>3. \A g \in Fences : (fence'[g] = "idle") <=> (fence[g] = "idle")
  BY SMTT(60) DEF FenceTimesOut, FenceLocks, FenceReleases, FenceStep, IInv, TypeOK
<1>4. \A g \in Fences : fence'[g] \in {"observed", "holding"} => fence[g] \in {"observed", "holding"}
  BY DEF FenceTimesOut, FenceLocks, FenceReleases, FenceStep, IInv, TypeOK
<1>5. \A g \in Fences : MarkerSound(g)'
  BY <1>3, <1>4, MarkersKept DEF FenceTimesOut, FenceLocks, FenceReleases
<1>6. QED
  BY <1>2, <1>5, NoEventMoves DEF FenceTimesOut, FenceLocks, FenceReleases

LEMMA FenceBeginsKeeps ==
  ASSUME IInv, NEW f \in Fences, FenceBegins(f) PROVE IInv'
<1> USE DEF pumpVars, fifoVars, histVars
<1>1. registrations \in Seq(Waiters) /\ f \in Waiters /\ Len(printed) \in 0..MaxEvents
  BY Sizes DEF IInv, TypeOK
<1>2. /\ registrations' \in Seq(Waiters) /\ Len(registrations') = Len(registrations) + 1
      /\ \A w : In(registrations', w) <=> In(registrations, w) \/ w = f
  BY <1>1, AtEnd, SMTT(60) DEF FenceBegins
<1>3. Len(registrations) \in Nat /\ Len(registrations) + 1 <= RegistrationCapacity
  BY <1>1 DEF FenceBegins
<1>4. /\ fence[f] = "idle" /\ fence'[f] = "waiting"
      /\ fence' \in [Fences -> {"idle", "waiting", "observed", "holding", "done", "failed"}]
      /\ \A g \in Fences \ {f} : fence'[g] = fence[g] /\ mark'[g] = mark[g]
      /\ mark'[f] = Len(printed) /\ mark' \in [Fences -> 0..MaxEvents]
  BY <1>1 DEF FenceBegins, FenceStep, IInv, TypeOK
<1>5. TypeOK'
  BY <1>2, <1>3, <1>4 DEF FenceBegins, IInv, TypeOK
<1>6. Grows
  BY StillGrows DEF IInv, FenceBegins
<1>7. ASSUME NEW g \in Fences \ {f} PROVE MarkerSound(g)'
  BY <1>2, <1>4, <1>6, MarkerKept DEF FenceBegins, Given
<1>8. MarkerSound(f)'
  <2>1. registered # f /\ \A r \in Roots : worker[r] # f /\ \A i \in 1..Len(fifo[r]) : fifo[r][i] # f
    BY <1>4 DEF IInv, MarkerSound, Follows
  <2>2. QED
    BY <1>1, <1>4, <2>1 DEF FenceBegins, MarkerSound
<1>9. QED
  BY <1>5, <1>7, <1>8, NoEventMoves DEF FenceBegins

----------------------------------------------------------------------------
(* The child *)

LEMMA ChildEmitsKeeps ==
  ASSUME IInv, NEW t \in Threads, ChildEmits(t) PROVE IInv'
<1> USE DEF pumpVars, fifoVars, taskVars, histVars
<1>1. printed \in Seq(Threads) /\ events \in Seq(Numbers)
  BY DEF IInv, TypeOK
<1>2. /\ Len(printed) \in Nat /\ Len(events) \in Nat /\ Len(events) <= Len(printed)
      /\ Taken \in Nat /\ Taken <= Len(printed) /\ MaxEvents \in Nat
  BY Sizes DEF IInv, ChannelExact
<1>3. Len(printed) + 1 \in Numbers
  BY <1>2 DEF ChildEmits
<1>4. /\ printed' \in Seq(Threads) /\ Len(printed') = Len(printed) + 1
      /\ \A i \in 1..Len(printed) : printed'[i] = printed[i]
  BY <1>1, AtEnd DEF ChildEmits
<1>5. /\ events' \in Seq(Numbers) /\ Len(events') = Len(events) + 1
      /\ \A i \in 1..Len(events) : events'[i] = events[i]
      /\ events'[Len(events) + 1] = Len(printed) + 1
      /\ \A i \in 1..Len(events') : i \in 1..Len(events) \/ i = Len(events) + 1
  BY <1>1, <1>3, AtEnd DEF ChildEmits
<1>6. Taken' = Taken
  BY <1>2, <1>4, <1>5 DEF Taken
<1>7. Grows
  BY <1>2, <1>4, <1>6 DEF Grows
<1>8. TypeOK'
  <2>1. {events', queued', early'} \subseteq Seq(Numbers) /\ Len(printed') <= MaxEvents
    BY <1>2, <1>4, <1>5 DEF ChildEmits, IInv, TypeOK
  <2>2. QED
    BY <1>4, <2>1 DEF ChildEmits, IInv, TypeOK
<1>9. ChannelExact'
  <2>1. \A i \in 1..Len(events') : events'[i] = Taken + i
    <3>1. \A i \in 1..Len(events) : events[i] = Taken + i
      BY DEF IInv, ChannelExact
    <3>2. Taken + (Len(events) + 1) = Len(printed) + 1
      BY <1>2 DEF Taken
    <3>3. QED
      BY <1>5, <3>1, <3>2
  <2>2. Len(events') <= Len(printed')
    BY <1>2, <1>4, <1>5
  <2>3. QED
    BY <1>6, <2>1, <2>2 DEF ChannelExact
<1>10. \A n \in Numbers : n <= Taken => n \in 1..Len(printed) /\ printed'[n] = printed[n]
  BY <1>2, <1>4
<1>11. \A i \in 1..Len(early) : early[i] \in Numbers
  BY SMTT(60) DEF IInv, TypeOK
<1>12. PumpSound'
  BY <1>6, <1>10, <1>11 DEF ChildEmits, IInv, PumpSound, Ascends
<1>13. \A n : InPump(n)' <=> InPump(n)
  BY DEF InPump, ChildEmits
<1>14. Given' = Given /\ Given \subseteq Numbers
  BY DEF Given, ChildEmits, IInv, TypeOK
<1>15. NoneLost'
  BY <1>10, <1>14 DEF IInv, NoneLost, PumpSound, Given
<1>16. ASSUME NEW r \in Roots PROVE LineSound(r)'
  <2>1. \A n \in Numbers : InPump(n) => n <= Taken
    BY DEF InPump, In, IInv, PumpSound
  <2>2. QED
    BY <1>7, <1>13, <2>1, LineKept DEF ChildEmits
<1>17. KeepsTrack'
  <2>1. \A r \in Roots, n \in Numbers : InLine(r, n)' <=> InLine(r, n)
    BY DEF InLine, ChildEmits
  <2>2. \A n \in 1..Len(printed) : Root[printed[n]] \in Roots /\ n \in Numbers
    BY OwnersKnown DEF IInv
  <2>3. \A n \in 1..Len(printed') : n <= Taken => n \in 1..Len(printed)
    BY <1>2
  <2>4. QED
    BY <1>4, <1>6, <1>13, <1>14, <2>1, <2>2, <2>3 DEF IInv, KeepsTrack, ChildEmits
<1>18. ASSUME NEW f \in Fences PROVE MarkerSound(f)'
  BY <1>7, <1>14, MarkerKept DEF ChildEmits
<1>19. QED
  BY <1>8, <1>9, <1>12, <1>15, <1>16, <1>17, <1>18 DEF IInv

----------------------------------------------------------------------------
(* The pump *)

\* The end of a session's queue.
Grew(r, e) ==
  /\ fifo' \in [Roots -> Seq(Numbers \union Waiters)]
  /\ fifo'[r] = Append(fifo[r], e) /\ \A q \in Roots \ {r} : fifo'[q] = fifo[q]
  /\ running' \in [Roots -> BOOLEAN] /\ running'[r] /\ \A q \in Roots \ {r} : running'[q] = running[q]
  /\ Len(fifo'[r]) <= DeliveryLimit
  /\ worker' = worker

LEMMA Enqueued ==
  ASSUME TypeOK, NEW r \in Roots, NEW e \in Numbers \union Waiters, Enqueue(r, e)
  PROVE  \/ Grew(r, e) /\ UNCHANGED broken
         \/ UNCHANGED fifoVars /\ broken'
<1>1. fifo[r] \in Seq(Numbers \union Waiters) /\ fifo \in [Roots -> Seq(Numbers \union Waiters)]
      /\ running \in [Roots -> BOOLEAN] /\ Len(fifo[r]) \in Nat /\ DeliveryLimit \in Nat
  BY SMTT(60) DEF TypeOK
<1>2. Append(fifo[r], e) \in Seq(Numbers \union Waiters)
      /\ Len(Append(fifo[r], e)) = Len(fifo[r]) + 1
  BY <1>1, AtEnd
<1>3. CASE Full(fifo[r], DeliveryLimit)
  BY <1>3 DEF Enqueue
<1>4. CASE ~Full(fifo[r], DeliveryLimit)
  <2>1. /\ fifo' = [fifo EXCEPT ![r] = Append(fifo[r], e)]
        /\ running' = [running EXCEPT ![r] = TRUE] /\ worker' = worker /\ broken' = broken
    BY <1>4 DEF Enqueue
  <2>2. Len(fifo[r]) + 1 <= DeliveryLimit
    BY <1>1, <1>4 DEF Full
  <2>3. fifo'[r] = Append(fifo[r], e)
    BY <1>1, <2>1
  <2>4. fifo' \in [Roots -> Seq(Numbers \union Waiters)] /\ running' \in [Roots -> BOOLEAN]
    BY <1>1, <1>2, <2>1
  <2>5. /\ \A q \in Roots \ {r} : fifo'[q] = fifo[q] /\ running'[q] = running[q]
        /\ running'[r]
    BY <1>1, <2>1
  <2>6. QED
    BY <1>2, <2>1, <2>2, <2>3, <2>4, <2>5 DEF Grew
<1>5. QED
  BY <1>3, <1>4

LEMMA GrewTyped ==
  ASSUME TypeOK, NEW r \in Roots, NEW e \in Numbers \union Waiters, Grew(r, e)
  PROVE  \A q \in Roots : Len(fifo'[q]) <= DeliveryLimit
                          /\ (worker'[q] # Nobody \/ fifo'[q] # <<>> => running'[q])
<1> SUFFICES ASSUME NEW q \in Roots
             PROVE  Len(fifo'[q]) <= DeliveryLimit
                    /\ (worker'[q] # Nobody \/ fifo'[q] # <<>> => running'[q])
  OBVIOUS
<1>1. CASE q = r
  BY <1>1 DEF Grew
<1>2. CASE q # r
  <2>1. fifo'[q] = fifo[q] /\ running'[q] = running[q] /\ worker'[q] = worker[q]
    BY <1>2 DEF Grew
  <2>2. Len(fifo[q]) <= DeliveryLimit /\ (worker[q] # Nobody \/ fifo[q] # <<>> => running[q])
    BY DEF TypeOK
  <2>3. QED
    BY <2>1, <2>2
<1>3. QED
  BY <1>1, <1>2

\* A marker, or the event in hand, at the end of a line.
LEMMA LineGets ==
  ASSUME IInv, NEW r \in Roots, NEW e \in Numbers \union Waiters, Grew(r, e),
         UNCHANGED <<printed, events, sessions, delivered>>,
         e \in Numbers => e = hand /\ (Own(r, e) => r \in sessions),
         \A n \in Numbers : InPump(n)' => In(queued, n)
  PROVE  LineSound(r)'
<1>1. fifo[r] \in Seq(Numbers \union Waiters) /\ Taken' = Taken /\ LineSound(r) /\ worker' = worker
  BY StillGrows DEF IInv, TypeOK, Grew
<1>2. /\ Len(fifo[r]) \in Nat /\ Len(fifo'[r]) = Len(fifo[r]) + 1
      /\ \A i \in 1..Len(fifo[r]) : fifo'[r][i] = fifo[r][i]
      /\ fifo'[r][Len(fifo[r]) + 1] = e
      /\ \A i \in 1..Len(fifo'[r]) : i \in 1..Len(fifo[r]) \/ i = Len(fifo[r]) + 1
      /\ \A n : In(fifo'[r], n) <=> In(fifo[r], n) \/ n = e
  BY <1>1, AtEnd, SMTT(60) DEF Grew
<1>3. \A n : InLine(r, n)' <=> InLine(r, n) \/ n = e
  BY <1>1, <1>2 DEF InLine
<1>4. \A n : Own(r, n)' <=> Own(r, n)
  BY DEF Own
<1>5. \A n : Own(r, n) => n \in Numbers
  BY DEF Own
<1>6. hand <= Taken /\ InPump(hand) /\ \A n : In(queued, n) => hand < n /\ InPump(n)
  BY DEF IInv, PumpSound, In, InPump
<1>7. \A n \in Numbers : InLine(r, n)' => n <= Taken /\ (Own(r, n) => r \in sessions)
  BY <1>1, <1>3, <1>6 DEF LineSound
<1>8. \A i \in 1..Len(fifo[r]) : In(fifo[r], fifo[r][i])
  BY DEF In
<1>9. ASSUME NEW i \in 1..Len(fifo'[r]), NEW j \in 1..Len(fifo'[r]), i < j,
             Own(r, fifo'[r][i]), Own(r, fifo'[r][j])
      PROVE  fifo'[r][i] < fifo'[r][j]
  <2>1. i \in 1..Len(fifo[r])
    BY <1>2, <1>9
  <2>2. CASE j \in 1..Len(fifo[r])
    BY <1>1, <1>2, <1>9, <2>1, <2>2 DEF LineSound
  <2>3. CASE j = Len(fifo[r]) + 1
    <3>1. fifo'[r][j] = hand /\ Own(r, hand)
      BY <1>2, <1>5, <1>9, <2>3
    <3>2. fifo'[r][i] = fifo[r][i] /\ In(fifo[r], fifo[r][i]) /\ Own(r, fifo[r][i])
      BY <1>2, <1>8, <1>9, <2>1
    <3>3. fifo[r][i] < hand
      BY <1>1, <1>5, <1>6, <3>1, <3>2 DEF LineSound
    <3>4. QED
      BY <3>1, <3>2, <3>3
  <2>4. QED
    BY <1>2, <2>2, <2>3
<1>10. ASSUME NEW m \in Numbers, NEW n \in Numbers, Own(r, m), Own(r, n)
       PROVE  /\ In(delivered[r], m) /\ (worker[r] = n \/ In(fifo'[r], n) \/ InPump(n)') => m < n
              /\ worker[r] = m /\ (In(fifo'[r], n) \/ InPump(n)') => m < n
              /\ In(fifo'[r], m) /\ InPump(n)' => m < n
  <2>1. InPump(n)' => In(queued, n) /\ InPump(n) /\ hand < n
    BY <1>6
  <2>2. m = e => m = hand
    OBVIOUS
  <2>3. In(fifo'[r], n) => In(fifo[r], n) \/ InPump(n)
    BY <1>2, <1>6
  <2>4. In(fifo'[r], m) => In(fifo[r], m) \/ m = hand
    BY <1>2, <2>2
  <2>5. QED
    BY <1>1, <1>10, <2>1, <2>3, <2>4 DEF LineSound
<1>11. UNCHANGED <<delivered, worker, sessions>>
  BY <1>1
<1>12. QED
  BY <1>1, <1>4, <1>7, <1>9, <1>10, <1>11 DEF LineSound

LEMMA MarkerBehind ==
  ASSUME IInv, NEW f \in Fences, NEW r \in Roots, NEW e \in Numbers \union Waiters, Grew(r, e),
         UNCHANGED <<printed, events, sessions, delivered, lost, refused, mark, fence, registrations>>,
         registered' = f => registered = f,
         e = f => /\ fence[f] # "idle" /\ r = Target[f]
                  /\ \A n \in 1..mark[f] : printed[n] = r =>
                       Over(r, n) \/ worker[r] = n \/ In(fifo[r], n)
  PROVE  MarkerSound(f)'
<1>1. fifo[r] \in Seq(Numbers \union Waiters) /\ Taken' = Taken /\ MarkerSound(f) /\ worker' = worker
  BY StillGrows DEF IInv, TypeOK, Grew
<1>2. /\ Len(fifo[r]) \in Nat /\ Len(fifo'[r]) = Len(fifo[r]) + 1
      /\ \A i \in 1..Len(fifo[r]) : fifo'[r][i] = fifo[r][i] /\ i \in 1..Len(fifo'[r]) /\ i < Len(fifo[r]) + 1
      /\ fifo'[r][Len(fifo[r]) + 1] = e
      /\ \A i \in 1..Len(fifo'[r]) : i \in 1..Len(fifo[r]) \/ i = Len(fifo[r]) + 1
  BY <1>1, AtEnd DEF Grew
<1>3. \A q \in Roots : \A n : Over(q, n)' <=> Over(q, n)
  BY DEF Over, Given
<1>4. ASSUME NEW i \in 1..Len(fifo'[r]), fifo'[r][i] = f PROVE Follows(f, r, i)'
  <2>1. CASE i \in 1..Len(fifo[r])
    <3>1. fifo[r][i] = f
      BY <1>2, <1>4, <2>1
    <3>2. Follows(f, r, i)
      BY <1>1, <2>1, <3>1 DEF MarkerSound
    <3>3. \A j \in 1..Len(fifo[r]) : j \in 1..Len(fifo'[r]) /\ fifo'[r][j] = fifo[r][j]
      BY <1>2
    <3>4. ASSUME NEW n \in 1..mark[f], printed[n] = r
          PROVE  Over(r, n) \/ worker[r] = n \/ \E j \in 1..Len(fifo'[r]) : j < i /\ fifo'[r][j] = n
      <4>1. Over(r, n) \/ worker[r] = n \/ \E j \in 1..Len(fifo[r]) : j < i /\ fifo[r][j] = n
        BY <3>2, <3>4 DEF Follows
      <4>2. QED
        BY <3>3, <4>1
    <3>5. QED
      BY <1>1, <1>3, <3>2, <3>4 DEF Follows
  <2>2. CASE i = Len(fifo[r]) + 1
    <3>1. e = f
      BY <1>2, <1>4, <2>2
    <3>2. \A n : In(fifo[r], n) => \E j \in 1..Len(fifo'[r]) : j < i /\ fifo'[r][j] = n
      BY <1>2, <2>2 DEF In
    <3>3. QED
      BY <1>1, <1>3, <3>1, <3>2 DEF Follows
  <2>3. QED
    BY <1>2, <2>1, <2>2
<1>5. ASSUME NEW q \in Roots \ {r}, NEW i \in 1..Len(fifo'[q]), fifo'[q][i] = f
      PROVE  Follows(f, q, i)'
  <2>1. fifo'[q] = fifo[q]
    BY DEF Grew
  <2>2. Follows(f, q, i)
    BY <1>1, <1>5, <2>1 DEF MarkerSound
  <2>3. QED
    BY <1>1, <1>3, <2>1, <2>2 DEF Follows
<1>6. \A q \in Roots : q = r \/ q \in Roots \ {r}
  OBVIOUS
<1>7. \A q \in Roots : \A i \in 1..Len(fifo'[q]) : fifo'[q][i] = f => Follows(f, q, i)'
  BY <1>4, <1>5, <1>6
<1>8. UNCHANGED <<printed, sessions, worker, mark, fence, registrations>>
  BY <1>1
<1>9. QED
  BY <1>1, <1>3, <1>7, <1>8 DEF MarkerSound

LEMMA PumpFinishesKeeps ==
  ASSUME IInv, PumpFinishes PROVE IInv'
<1> USE DEF taskVars, histVars
<1>1. PICK w \in Waiters : w = registered
  BY DEF PumpFinishes, PumpIdle, IInv, TypeOK
<1>2. PICK r \in Roots : r = IF w \in Created THEN w ELSE Target[w]
  OBVIOUS
<1>3. /\ hand = Nobody /\ queued = <<>> /\ ~broken /\ registered' = Nobody /\ setup' \in BOOLEAN
      /\ Enqueue(r, w)
      /\ UNCHANGED <<printed, events, registrations, queued, hand, sessions, early, holder, creation,
                     fence, mark, delivered, lost, refused>>
  BY <1>1, <1>2 DEF PumpFinishes, PumpIdle, IInv, TypeOK
<1>4. Taken' = Taken /\ Grows
  BY <1>3, StillGrows DEF IInv
<1>5. \A n \in Numbers : ~InPump(n)' /\ ~InPump(n)
  BY <1>3, Nowhere DEF InPump
<1>6. Given' = Given
  BY <1>3 DEF Given
<1>7. ChannelExact' /\ NoneLost'
  BY <1>3, <1>4, <1>6 DEF IInv, ChannelExact, NoneLost
<1>8. PumpSound'
  BY <1>3, <1>4 DEF IInv, PumpSound, Ascends
<1>9. CASE Grew(r, w) /\ UNCHANGED broken
  <2>1. TypeOK'
    <3>1. \A q \in Roots : Len(fifo'[q]) <= DeliveryLimit
                           /\ (worker'[q] # Nobody \/ fifo'[q] # <<>> => running'[q])
      BY <1>9, GrewTyped DEF IInv
    <3>2. QED
      BY <1>3, <1>9, <3>1 DEF IInv, TypeOK, Grew
  <2>2. LineSound(r)'
    <3>1. w \notin Numbers
      OBVIOUS
    <3>2. UNCHANGED <<printed, events, sessions, delivered>>
      BY <1>3
    <3>3. QED
      BY <1>5, <1>9, <3>1, <3>2, LineGets
  <2>3. ASSUME NEW q \in Roots \ {r} PROVE LineSound(q)'
    <3>1. fifo'[q] = fifo[q] /\ worker'[q] = worker[q]
      BY <1>9 DEF Grew
    <3>2. QED
      BY <1>3, <1>4, <1>5, <3>1, LineKept
  <2>4. KeepsTrack'
    <3>1. \A q \in Roots, n \in Numbers : InLine(q, n) => InLine(q, n)'
      <4>1. \A n : In(fifo[r], n) => In(fifo'[r], n)
        <5>1. fifo[r] \in Seq(Numbers \union Waiters) /\ fifo'[r] = Append(fifo[r], w)
          BY <1>9 DEF IInv, TypeOK, Grew
        <5>2. \A n : In(Append(fifo[r], w), n) <=> In(fifo[r], n) \/ n = w
          BY <5>1, AtEnd, SMTT(60)
        <5>3. QED
          BY <5>1, <5>2
      <4>2. \A q \in Roots : q = r \/ fifo'[q] = fifo[q]
        BY <1>9 DEF Grew
      <4>3. QED
        BY <1>3, <1>9, <4>1, <4>2 DEF InLine, Grew
    <3>2. \A n \in 1..Len(printed) : Root[printed[n]] \in Roots /\ n \in Numbers
      BY OwnersKnown DEF IInv
    <3>3. QED
      BY <1>3, <1>4, <1>5, <1>6, <3>1, <3>2 DEF IInv, KeepsTrack
  <2>5. ASSUME NEW f \in Fences PROVE MarkerSound(f)'
    <3>1. ASSUME w = f
          PROVE  /\ fence[f] # "idle" /\ r = Target[f]
                 /\ \A n \in 1..mark[f] : printed[n] = r => Over(r, n) \/ worker[r] = n \/ In(fifo[r], n)
      <4>1. /\ fence[f] # "idle" /\ mark[f] <= Taken /\ Target[f] \in sessions /\ r = Target[f]
            /\ mark[f] <= Len(printed)
        BY <1>1, <1>2, <3>1 DEF IInv, MarkerSound
      <4>2. ASSUME NEW n \in 1..mark[f], printed[n] = r
            PROVE  Over(r, n) \/ worker[r] = n \/ In(fifo[r], n)
        <5>1. n \in 1..Len(printed) /\ n <= Taken /\ n \in Numbers
          <6>1. mark[f] \in 0..MaxEvents /\ Len(printed) \in Nat /\ Taken \in Nat /\ MaxEvents \in Nat
            BY Sizes DEF IInv, TypeOK
          <6>2. QED
            BY <4>1, <6>1
        <5>2. InPump(n) \/ In(early, n) \/ n \in Given \/ InLine(Root[printed[n]], n)
          BY <1>3, <5>1 DEF IInv, KeepsTrack
        <5>3. ~In(early, n)
          BY <4>1, <4>2 DEF IInv, PumpSound, In
        <5>4. Root[r] = r
          OBVIOUS
        <5>5. QED
          BY <1>5, <4>2, <5>1, <5>2, <5>3, <5>4 DEF InLine, Over
      <4>3. QED
        BY <4>1, <4>2
    <3>2. registered' = f => registered = f
      BY <1>3
    <3>3. QED
      BY <1>3, <1>9, <3>1, <3>2, MarkerBehind
  <2>6. QED
    BY <1>7, <1>8, <2>1, <2>2, <2>3, <2>4, <2>5 DEF IInv
<1>10. CASE UNCHANGED fifoVars /\ broken'
  <2> USE DEF fifoVars
  <2>1. TypeOK'
    BY <1>3, <1>10 DEF IInv, TypeOK
  <2>2. ASSUME NEW q \in Roots PROVE LineSound(q)'
    BY <1>3, <1>4, <1>5, <1>10, LineKept
  <2>3. KeepsTrack'
    BY <1>10 DEF KeepsTrack
  <2>4. ASSUME NEW f \in Fences PROVE MarkerSound(f)'
    BY <1>3, <1>4, <1>6, <1>10, MarkerKept
  <2>5. QED
    BY <1>7, <1>8, <2>1, <2>2, <2>3, <2>4 DEF IInv
<1>11. QED
  BY <1>3, <1>9, <1>10, Enqueued DEF IInv

LEMMA PumpRegistersKeeps ==
  ASSUME IInv, PumpRegisters PROVE IInv'
<1> USE DEF fifoVars, taskVars, histVars
<1>1. /\ ~broken /\ hand = Nobody /\ queued = <<>> /\ registrations # <<>>
      /\ registrations' = Tail(registrations)
      /\ queued' = early /\ early' = <<>>
      /\ UNCHANGED <<printed, events, hand, setup, fifo, running, worker, holder, creation, fence,
                     mark, delivered, lost, refused, broken>>
  BY DEF PumpRegisters, PumpIdle
<1>2. PICK x \in Created : registered' = x /\ sessions' = sessions \union {x}
  BY DEF PumpRegisters
<1>3. registrations \in Seq(Waiters) /\ early \in Seq(Numbers)
  BY DEF IInv, TypeOK
<1>4. /\ registrations' \in Seq(Waiters) /\ Len(registrations') <= RegistrationCapacity
      /\ \A w : In(registrations', w) => In(registrations, w)
  <2>1. /\ Tail(registrations) \in Seq(Waiters) /\ Len(registrations) \in Nat
        /\ Len(Tail(registrations)) = Len(registrations) - 1
        /\ \A w : In(Tail(registrations), w) => In(registrations, w)
    BY <1>1, <1>3, FromFront
  <2>2. Len(registrations) <= RegistrationCapacity /\ RegistrationCapacity \in Nat
    BY DEF IInv, TypeOK
  <2>3. QED
    BY <1>1, <2>1, <2>2
<1>5. Taken' = Taken /\ Grows
  BY <1>1, StillGrows DEF IInv
<1>6. TypeOK'
  <2>1. {events', queued', early'} \subseteq Seq(Numbers) /\ Len(early') <= EarlyLimit
    BY <1>1, <1>3 DEF IInv, TypeOK
  <2>2. sessions' \subseteq Roots /\ registered' \in Waiters
    BY <1>2 DEF IInv, TypeOK
  <2>3. QED
    BY <1>1, <1>4, <2>1, <2>2 DEF IInv, TypeOK
<1>7. Given' = Given
  BY <1>1 DEF Given
<1>8. ChannelExact' /\ NoneLost'
  BY <1>1, <1>5, <1>7 DEF IInv, ChannelExact, NoneLost
<1>9. PumpSound'
  <2>1. \A i \in 1..Len(early) : early[i] \in Numbers /\ hand < early[i]
    BY <1>1, <1>3
  <2>2. registered' # Nobody
    BY <1>2
  <2>3. QED
    BY <1>1, <1>2, <1>5, <2>1, <2>2 DEF IInv, PumpSound, Ascends
<1>10. \A n \in Numbers : ~InPump(n) /\ (InPump(n)' <=> In(early, n))
  BY <1>1, Nowhere DEF InPump
<1>11. ASSUME NEW r \in Roots PROVE LineSound(r)'
  <2>1. ASSUME NEW n \in Numbers, InPump(n)', Own(r, n)', NEW m \in Numbers
        PROVE  ~(InLine(r, m) /\ Own(r, m))
    <3>1. printed[n] = r /\ In(early, n)
      BY <1>1, <1>10, <2>1 DEF Own
    <3>2. r \notin sessions
      BY <3>1 DEF In, IInv, PumpSound
    <3>3. QED
      BY <3>2 DEF IInv, LineSound
  <2>2. sessions \subseteq sessions'
    BY <1>2
  <2>3. QED
    BY <1>1, <1>5, <2>1, <2>2, LineKept
<1>12. KeepsTrack'
  <2>1. \A r \in Roots, n \in Numbers : InLine(r, n)' <=> InLine(r, n)
    BY <1>1 DEF InLine
  <2>2. \A n \in 1..Len(printed) : Root[printed[n]] \in Roots /\ n \in Numbers
    BY OwnersKnown DEF IInv
  <2>3. QED
    BY <1>1, <1>5, <1>7, <1>10, <2>1, <2>2 DEF IInv, KeepsTrack
<1>13. ASSUME NEW f \in Fences PROVE MarkerSound(f)'
  <2>1. registered' # f /\ sessions \subseteq sessions'
    BY <1>2
  <2>2. QED
    BY <1>1, <1>4, <1>5, <1>7, <2>1, MarkerKept
<1>14. QED
  BY <1>6, <1>8, <1>9, <1>11, <1>12, <1>13 DEF IInv

LEMMA PumpFencesKeeps ==
  ASSUME IInv, PumpFences PROVE IInv'
<1> USE DEF fifoVars, taskVars, histVars
<1>1. /\ ~broken /\ hand = Nobody /\ queued = <<>> /\ registrations # <<>>
      /\ registrations' = Tail(registrations)
      /\ queued' = events
      /\ UNCHANGED <<printed, hand, sessions, setup, early, fifo, running, worker, holder, creation,
                     fence, mark, delivered, lost, refused, broken>>
  BY DEF PumpFences, PumpIdle, Captured
<1>2. PICK g \in Fences : g = Head(registrations) /\ registered' = g
  BY DEF PumpFences
<1>3. registrations \in Seq(Waiters) /\ events \in Seq(Numbers)
  BY DEF IInv, TypeOK
<1>4. events' = <<>>
  BY <1>3 DEF PumpFences, Captured
<1>5. /\ registrations' \in Seq(Waiters) /\ Len(registrations') <= RegistrationCapacity
      /\ \A w : In(registrations', w) => In(registrations, w)
      /\ In(registrations, g)
  <2>1. /\ Tail(registrations) \in Seq(Waiters) /\ Len(registrations) \in Nat
        /\ Len(Tail(registrations)) = Len(registrations) - 1
        /\ \A w : In(registrations, w) <=> w = Head(registrations) \/ In(Tail(registrations), w)
    BY <1>1, <1>3, FromFront
  <2>2. Len(registrations) <= RegistrationCapacity /\ RegistrationCapacity \in Nat
    BY DEF IInv, TypeOK
  <2>3. QED
    BY <1>1, <1>2, <2>1, <2>2
<1>6. /\ Len(printed) \in Nat /\ Len(events) \in Nat /\ Taken \in Nat /\ Taken <= Len(printed)
      /\ Taken' = Len(printed) /\ MaxEvents \in Nat /\ Len(printed) <= MaxEvents
  <2>1. Len(printed) \in Nat /\ Len(events') = 0
    BY <1>4, Sizes DEF IInv
  <2>2. QED
    BY <1>1, <2>1, Sizes DEF IInv, Taken
<1>7. Grows
  BY <1>1, <1>6 DEF Grows
<1>8. TypeOK'
  <2>1. {events', queued', early'} \subseteq Seq(Numbers) /\ Len(early') <= EarlyLimit
    BY <1>1, <1>3, <1>4 DEF IInv, TypeOK
  <2>2. QED
    BY <1>1, <1>2, <1>5, <2>1 DEF IInv, TypeOK
<1>9. ChannelExact'
  BY <1>1, <1>4, <1>6 DEF ChannelExact
<1>10. Given' = Given
  BY <1>1 DEF Given
<1>11. \A i \in 1..Len(events) : events[i] = Taken + i /\ events[i] <= Len(printed) /\ hand < events[i]
  <2>1. \A i \in 1..Len(events) : events[i] = Taken + i
    BY DEF IInv, ChannelExact
  <2>2. Taken + Len(events) = Len(printed)
    BY <1>6 DEF Taken
  <2>3. QED
    BY <1>1, <1>6, <2>1, <2>2
<1>12. Ascends(events)
  BY <1>6, <1>11 DEF Ascends
<1>13. PumpSound'
  <2>0. \A w \in Waiters : w # Nobody
    OBVIOUS
  <2>1. registered' # Nobody /\ hand <= Len(printed)
    BY <1>1, <1>2, <1>6, <2>0
  <2>5. Given \subseteq Numbers
    BY DEF Given, IInv, TypeOK
  <2>2. \A n \in Given : n <= Len(printed)
    BY <1>6, <2>5 DEF IInv, PumpSound, Given
  <2>6. early \in Seq(Numbers)
    BY DEF IInv, TypeOK
  <2>7. \A i \in 1..Len(early) : early[i] \in Numbers
    BY <2>6
  <2>3. \A i \in 1..Len(early) : early[i] <= Len(printed) /\ printed[early[i]] \notin sessions
    BY <1>6, <2>7 DEF IInv, PumpSound
  <2>4. QED
    BY <1>1, <1>6, <1>10, <1>11, <1>12, <2>1, <2>2, <2>3 DEF IInv, PumpSound, Ascends, Given
<1>14. \A n \in Numbers : ~InPump(n) /\ (InPump(n)' <=> In(events, n))
  BY <1>1, Nowhere DEF InPump
<1>15. NoneLost'
  BY <1>1, <1>10 DEF IInv, NoneLost
<1>16. ASSUME NEW r \in Roots PROVE LineSound(r)'
  <2>1. \A n \in Numbers : InPump(n)' => n > Taken
    BY <1>6, <1>11, <1>14 DEF In
  <2>2. QED
    BY <1>1, <1>7, <2>1, LineKept
<1>17. KeepsTrack'
  <2>1. \A r \in Roots, n \in Numbers : InLine(r, n)' <=> InLine(r, n)
    BY <1>1 DEF InLine
  <2>2. \A n \in 1..Len(printed) : Root[printed[n]] \in Roots /\ n \in Numbers
    BY OwnersKnown DEF IInv
  <2>3. ASSUME NEW n \in 1..Len(printed), n > Taken PROVE In(events, n)
    <3>1. PICK i \in Nat : i = n - Taken
      BY <1>6, <2>3
    <3>2. i \in 1..Len(events) /\ Taken + i = n
      BY <1>6, <2>3, <3>1 DEF Taken
    <3>3. QED
      BY <1>11, <3>2 DEF In
  <2>4. \A n \in 1..Len(printed) : n <= Taken \/ n > Taken
    BY <1>6
  <2>5. QED
    BY <1>1, <1>10, <1>14, <2>1, <2>2, <2>3, <2>4 DEF IInv, KeepsTrack
<1>18. ASSUME NEW f \in Fences PROVE MarkerSound(f)'
  <2>1. CASE f # g
    BY <1>1, <1>2, <1>5, <1>7, <1>10, <2>1, MarkerKept
  <2>2. CASE f = g
    <3>1. fence[f] # "idle" /\ mark[f] <= Len(printed) /\ Target[f] \in sessions
      BY <1>5, <2>2 DEF IInv, MarkerSound
    <3>2. \A r \in Roots : \A n : Over(r, n)' <=> Over(r, n)
      BY <1>1, <1>10 DEF Over
    <3>3. \A r \in Roots : \A i \in 1..Len(fifo[r]) : Follows(f, r, i)' <=> Follows(f, r, i)
      BY <1>1, <3>2 DEF Follows
    <3>4. \A r \in Roots : \A i \in 1..Len(fifo'[r]) : fifo'[r][i] = f => Follows(f, r, i)'
      BY <1>1, <3>3 DEF IInv, MarkerSound
    <3>5. Target[f] \in Roots
      OBVIOUS
    <3>6. \A r \in Roots : worker[r] = f =>
            r = Target[f] /\ \A n \in 1..mark[f] : printed[n] = r => Over(r, n)'
      BY <3>2 DEF IInv, MarkerSound
    <3>7. fence[f] \in {"observed", "holding"} =>
            \A n \in 1..mark[f] : printed[n] = Target[f] => Over(Target[f], n)'
      BY <3>2, <3>5 DEF IInv, MarkerSound
    <3>8. QED
      BY <1>1, <1>6, <3>1, <3>4, <3>6, <3>7 DEF MarkerSound
  <2>3. QED
    BY <2>1, <2>2
<1>19. QED
  BY <1>8, <1>9, <1>13, <1>15, <1>16, <1>17, <1>18 DEF IInv

\* The pump takes the next event of what a registration has put first.
LEMMA TakesQueued ==
  ASSUME IInv, PumpTakes, queued # <<>> PROVE IInv'
<1> USE DEF fifoVars, taskVars, histVars
<1>1. queued \in Seq(Numbers) /\ events \in Seq(Numbers)
  BY DEF IInv, TypeOK
<1>2. Head(queued \o events) = Head(queued)
  BY <1>1
<1>3. registered # Nobody
  BY DEF IInv, PumpSound
<1>4. /\ ~broken /\ hand = Nobody /\ queued' = Tail(queued) /\ hand' = Head(queued)
      /\ UNCHANGED <<printed, events, registrations, registered, sessions, setup, early, fifo, running,
                     worker, holder, creation, fence, mark, delivered, lost, refused, broken>>
  BY <1>2, <1>3 DEF PumpTakes, Parked
<1>5. /\ Tail(queued) \in Seq(Numbers) /\ Head(queued) \in Numbers /\ Head(queued) = queued[1]
      /\ 1 \in 1..Len(queued) /\ Len(queued) \in Nat
      /\ \A i \in 1..Len(Tail(queued)) : Tail(queued)[i] = queued[i + 1] /\ i + 1 \in 1..Len(queued)
      /\ \A n : In(queued, n) <=> n = Head(queued) \/ In(Tail(queued), n)
  BY <1>1, FromFront
<1>6. Taken' = Taken /\ Grows
  BY <1>4, StillGrows DEF IInv
<1>7. TypeOK'
  <2>1. {events', queued', early'} \subseteq Seq(Numbers) /\ Len(early') <= EarlyLimit
    BY <1>4, <1>5 DEF IInv, TypeOK
  <2>2. QED
    BY <1>4, <1>5, <2>1 DEF IInv, TypeOK
<1>8. Given' = Given
  BY <1>4 DEF Given
<1>9. ChannelExact' /\ NoneLost'
  BY <1>4, <1>6, <1>8 DEF IInv, ChannelExact, NoneLost
<1>10. \A i \in 1..Len(queued') : queued'[i] <= Taken /\ hand' < queued'[i]
  <2>1. ASSUME NEW i \in 1..Len(queued') PROVE queued'[i] <= Taken /\ hand' < queued'[i]
    <3>1. queued'[i] = queued[i + 1] /\ i + 1 \in 1..Len(queued) /\ 1 < i + 1
      BY <1>4, <1>5
    <3>2. hand' = queued[1]
      BY <1>4, <1>5
    <3>3. QED
      BY <1>5, <3>1, <3>2 DEF IInv, PumpSound, Ascends
  <2>2. QED
    BY <2>1
<1>11. Ascends(queued')
  <2> SUFFICES ASSUME NEW i \in 1..Len(queued'), NEW j \in 1..Len(queued'), i < j
               PROVE  queued'[i] < queued'[j]
    BY DEF Ascends
  <2>1. queued'[i] = queued[i + 1] /\ queued'[j] = queued[j + 1] /\ i + 1 < j + 1
        /\ i + 1 \in 1..Len(queued) /\ j + 1 \in 1..Len(queued)
    BY <1>4, <1>5
  <2>2. QED
    BY <2>1 DEF IInv, PumpSound, Ascends
<1>12. hand' <= Taken
  BY <1>4, <1>5 DEF IInv, PumpSound
<1>13. PumpSound'
  BY <1>3, <1>4, <1>6, <1>10, <1>11, <1>12 DEF IInv, PumpSound, Ascends
<1>14. \A n \in Numbers : InPump(n)' <=> InPump(n)
  BY <1>4, <1>5 DEF InPump
<1>15. ASSUME NEW r \in Roots PROVE LineSound(r)'
  <2>1. \A n \in Numbers : InPump(n) => n <= Taken
    BY DEF InPump, In, IInv, PumpSound
  <2>2. QED
    BY <1>4, <1>6, <1>14, <2>1, LineKept
<1>16. KeepsTrack'
  <2>1. \A r \in Roots, n \in Numbers : InLine(r, n)' <=> InLine(r, n)
    BY <1>4 DEF InLine
  <2>2. \A n \in 1..Len(printed) : Root[printed[n]] \in Roots /\ n \in Numbers
    BY OwnersKnown DEF IInv
  <2>3. QED
    BY <1>4, <1>6, <1>8, <1>14, <2>1, <2>2 DEF IInv, KeepsTrack
<1>17. \A f \in Fences : MarkerSound(f)'
  BY <1>4, MarkersKept
<1>18. QED
  BY <1>7, <1>9, <1>13, <1>15, <1>16, <1>17 DEF IInv

\* Or of the channel, and takes it in hand or parks it.
LEMMA TakesNext ==
  ASSUME IInv, PumpTakes, queued = <<>> PROVE IInv'
<1> USE DEF fifoVars, taskVars, histVars
<1>1. events \in Seq(Numbers) /\ early \in Seq(Numbers)
  BY DEF IInv, TypeOK
<1>2. Head(queued \o events) = Head(events) /\ events # <<>>
  BY <1>1 DEF PumpTakes
<1>3. /\ ~broken /\ hand = Nobody /\ registered = Nobody /\ events' = Tail(events)
      /\ UNCHANGED <<printed, queued, registrations, registered, sessions, setup, fifo, running,
                     worker, holder, creation, fence, mark, delivered, lost, refused>>
  BY DEF PumpTakes
<1>4. /\ Tail(events) \in Seq(Numbers) /\ Head(events) \in Numbers /\ Head(events) = events[1]
      /\ 1 \in 1..Len(events) /\ Len(events) \in Nat \ {0} /\ Len(Tail(events)) = Len(events) - 1
      /\ \A i \in 1..Len(Tail(events)) : Tail(events)[i] = events[i + 1] /\ i + 1 \in 1..Len(events)
  BY <1>1, <1>2, FromFront
<1>5. /\ Len(printed) \in Nat /\ Taken \in Nat /\ Taken <= Len(printed) /\ MaxEvents \in Nat
      /\ Len(events) <= Len(printed) /\ Taken = Len(printed) - Len(events)
  BY Sizes DEF IInv, ChannelExact, Taken
<1>6. Taken' = Taken + 1 /\ Taken' <= Len(printed)
  BY <1>3, <1>4, <1>5 DEF Taken
<1>7. Grows
  BY <1>3, <1>5, <1>6 DEF Grows
<1>8. PICK n \in Numbers : n = Head(events) /\ n = Taken + 1
  BY <1>4 DEF IInv, ChannelExact
<1>9. ChannelExact'
  <2>1. \A i \in 1..Len(Tail(events)) : Tail(events)[i] = Taken + (i + 1) /\ Taken + (i + 1) = (Taken + 1) + i
    BY <1>4, <1>5 DEF IInv, ChannelExact
  <2>2. QED
    BY <1>3, <1>4, <1>5, <1>6, <2>1 DEF ChannelExact
<1>10. Given' = Given /\ Given \subseteq Numbers
  BY <1>3 DEF Given, IInv, TypeOK
<1>11. NoneLost'
  BY <1>3, <1>10 DEF IInv, NoneLost
<1>12. /\ \A i \in 1..Len(early) : early[i] \in Numbers /\ early[i] < n /\ early[i] <= Taken'
       /\ \A m \in Given : m <= Taken'
  <2>1. \A i \in 1..Len(early) : early[i] \in Numbers /\ early[i] <= Taken
    BY <1>1 DEF IInv, PumpSound
  <2>2. \A m \in Given : m \in Numbers /\ m <= Taken
    BY <1>10 DEF IInv, PumpSound, Given
  <2>3. QED
    BY <1>5, <1>6, <1>8, <2>1, <2>2, SMTT(60)
<1>13. \A f \in Fences : MarkerSound(f)'
  BY <1>3, <1>7, <1>10, MarkerKept
<1>14. \A r \in Roots, m \in Numbers : InLine(r, m)' <=> InLine(r, m)
  BY <1>3 DEF InLine
<1>15. \A m \in 1..Len(printed) : Root[printed[m]] \in Roots /\ m \in Numbers /\ (m <= Taken' => m <= Taken \/ m = n)
  <2>1. \A m \in 1..Len(printed) : Root[printed[m]] \in Roots /\ m \in Numbers
    BY OwnersKnown DEF IInv
  <2>2. QED
    BY <1>5, <1>6, <1>8, <2>1, SMTT(60)
<1>16. \A m \in Numbers : ~InPump(m)
  BY <1>3, Nowhere DEF InPump
<1>17. CASE hand' = n /\ UNCHANGED <<early, broken>>
  <2>1. TypeOK'
    <3>1. {events', queued', early'} \subseteq Seq(Numbers) /\ Len(early') <= EarlyLimit
      BY <1>3, <1>4, <1>17 DEF IInv, TypeOK
    <3>2. QED
      BY <1>3, <1>17, <3>1 DEF IInv, TypeOK
  <2>2. PumpSound'
    BY <1>3, <1>6, <1>8, <1>10, <1>12, <1>17 DEF IInv, PumpSound, Ascends, Given
  <2>3. \A m \in Numbers : InPump(m)' <=> m = n
    BY <1>3, <1>17, Nowhere DEF InPump
  <2>4. ASSUME NEW r \in Roots PROVE LineSound(r)'
    <3>1. n > Taken
      BY <1>5, <1>8
    <3>2. QED
      BY <1>3, <1>7, <2>3, <3>1, LineKept
  <2>5. KeepsTrack'
    BY <1>3, <1>10, <1>14, <1>15, <1>16, <1>17, <2>3 DEF IInv, KeepsTrack
  <2>6. QED
    BY <1>9, <1>11, <1>13, <2>1, <2>2, <2>4, <2>5 DEF IInv
<1>18. CASE /\ Parked(n) /\ UNCHANGED hand
            /\ broken' = Full(early, EarlyLimit)
            /\ early' = IF broken' THEN early ELSE Append(early, n)
  <2>1. /\ Append(early, n) \in Seq(Numbers) /\ Len(early) \in Nat /\ Len(Append(early, n)) = Len(early) + 1
        /\ \A i \in 1..Len(early) : Append(early, n)[i] = early[i]
        /\ Append(early, n)[Len(early) + 1] = n
        /\ \A i \in 1..Len(Append(early, n)) : i \in 1..Len(early) \/ i = Len(early) + 1
    BY <1>1, AtEnd
  <2>10. \A x : In(Append(early, n), x) <=> In(early, x) \/ x = n
    BY <1>1, AtEnd, SMTT(60)
  <2>2. ~Full(early, EarlyLimit) => Len(early) + 1 <= EarlyLimit
    BY <2>1 DEF Full, DeliveryAssumption
  <2>3. TypeOK'
    <3>0. Len(early) <= EarlyLimit /\ broken' \in BOOLEAN
      BY <1>18 DEF IInv, TypeOK, Full
    <3>1. early' \in Seq(Numbers) /\ Len(early') <= EarlyLimit /\ broken' \in BOOLEAN
      BY <1>1, <1>18, <2>1, <2>2, <3>0
    <3>2. {events', queued', early'} \subseteq Seq(Numbers)
      BY <1>3, <1>4, <3>1 DEF IInv, TypeOK
    <3>3. QED
      BY <1>3, <1>18, <3>1, <3>2 DEF IInv, TypeOK
  <2>4. Ascends(early') /\ \A i \in 1..Len(early') : early'[i] <= Taken' /\ printed[early'[i]] \notin sessions
    <3>1. Ascends(early) /\ \A i \in 1..Len(early) : early[i] <= Taken' /\ printed[early[i]] \notin sessions
      BY <1>12 DEF IInv, PumpSound
    <3>2. printed[n] \notin sessions /\ n <= Taken'
      BY <1>6, <1>8, <1>18 DEF Parked
    <3>3. CASE broken'
      BY <1>18, <3>1, <3>3
    <3>4. CASE ~broken'
      <4>1. early' = Append(early, n)
        BY <1>18, <3>4
      <4>2. \A i \in 1..Len(early') : (i \in 1..Len(early) /\ early'[i] = early[i] /\ early[i] < n)
                                        \/ (i = Len(early) + 1 /\ early'[i] = n)
        BY <1>12, <2>1, <4>1
      <4>3. Ascends(early')
        BY <2>1, <3>1, <4>1, <4>2 DEF Ascends
      <4>4. QED
        BY <3>1, <3>2, <4>2, <4>3
    <3>5. QED
      BY <3>3, <3>4
  <2>5. PumpSound'
    <3>1. hand' <= Taken' /\ queued' = <<>>
      BY <1>3, <1>5, <1>6, <1>18
    <3>2. Opened \subseteq sessions' /\ sessions' = sessions /\ printed' = printed
      BY <1>3 DEF IInv, PumpSound
    <3>3. \A m \in lost' \union refused' : m <= Taken'
      BY <1>10, <1>12 DEF Given
    <3>4. Ascends(queued') /\ \A i \in 1..Len(queued') : queued'[i] <= Taken' /\ hand' < queued'[i]
      BY <3>1 DEF Ascends
    <3>5. QED
      BY <2>4, <3>1, <3>2, <3>3, <3>4 DEF PumpSound, Ascends
  <2>6. \A m \in Numbers : ~InPump(m)'
    BY <1>3, <1>18, Nowhere DEF InPump
  <2>7. ASSUME NEW r \in Roots PROVE LineSound(r)'
    BY <1>3, <1>7, <2>6, LineKept
  <2>8. KeepsTrack'
    <3>1. ASSUME ~broken' PROVE \A m : In(early', m) <=> In(early, m) \/ m = n
      <4>1. early' = Append(early, n)
        BY <1>18, <3>1
      <4>2. QED
        BY <2>10, <4>1
    <3>2. QED
      BY <1>3, <1>10, <1>14, <1>15, <1>16, <3>1 DEF IInv, KeepsTrack
  <2>9. QED
    BY <1>9, <1>11, <1>13, <2>3, <2>5, <2>7, <2>8 DEF IInv
<1>19. QED
  BY <1>2, <1>8, <1>17, <1>18 DEF PumpTakes

LEMMA PumpRoutesKeeps ==
  ASSUME IInv, PumpRoutes PROVE IInv'
<1> USE DEF taskVars
<1>1. PICK e \in Numbers : e = hand
  BY DEF PumpRoutes, IInv, TypeOK
<1>2. /\ ~broken /\ hand' = Nobody
      /\ UNCHANGED <<printed, events, registrations, queued, registered, sessions, setup, early, holder,
                     creation, fence, mark>>
  BY DEF PumpRoutes
<1>3. Taken' = Taken /\ Grows
  BY <1>2, StillGrows DEF IInv
<1>4. ChannelExact'
  BY <1>2, <1>3 DEF IInv, ChannelExact
<1>5. e <= Taken /\ e \in 1..Len(printed) /\ Root[printed[e]] \in Roots
  <2>1. e <= Taken /\ e \in 1..Len(printed)
    BY <1>1, Sizes DEF IInv, PumpSound
  <2>2. QED
    BY <2>1, OwnersKnown DEF IInv
<1>6. \A n \in Numbers : (InPump(n)' => In(queued, n)) /\ (InPump(n) <=> n = e \/ In(queued, n))
  BY <1>1, <1>2 DEF InPump
<1>7. \A n \in Numbers : InPump(n) => n <= Taken
  BY DEF InPump, In, IInv, PumpSound
<1>8. \A n \in Numbers : InPump(n)' => InPump(n) /\ n <= Taken
  BY <1>6, <1>7
<1>9. \A i \in 1..Len(queued) : hand' < queued[i]
  BY <1>2, SMTT(60) DEF IInv, TypeOK
<1>10. hand' <= Taken'
  BY <1>2, <1>3, Sizes DEF IInv
<1>11. \A n \in 1..Len(printed) : Root[printed[n]] \in Roots /\ n \in Numbers
  BY OwnersKnown DEF IInv
<1>12. PICK r \in Roots : r = Root[printed[e]]
  BY <1>5
<1>13. CASE r \in sessions /\ Enqueue(r, e) /\ UNCHANGED histVars
  <2> USE DEF histVars
  <2>1. Given' = Given
    BY <1>13 DEF Given
  <2>2. NoneLost' /\ PumpSound'
    BY <1>2, <1>3, <1>9, <1>10, <1>13, <2>1 DEF IInv, NoneLost, PumpSound, Ascends
  <2>3. CASE Grew(r, e) /\ UNCHANGED broken
    <3>1. TypeOK'
      <4>1. \A q \in Roots : Len(fifo'[q]) <= DeliveryLimit
                             /\ (worker'[q] # Nobody \/ fifo'[q] # <<>> => running'[q])
        BY <2>3, GrewTyped DEF IInv
      <4>2. QED
        BY <1>2, <1>13, <2>3, <4>1 DEF IInv, TypeOK, Grew
    <3>2. LineSound(r)'
      <4>1. e = hand /\ (Own(r, e) => r \in sessions) /\ UNCHANGED <<printed, events, sessions, delivered>>
        BY <1>1, <1>2, <1>13
      <4>2. QED
        BY <1>6, <2>3, <4>1, LineGets
    <3>3. ASSUME NEW q \in Roots \ {r} PROVE LineSound(q)'
      <4>1. fifo'[q] = fifo[q] /\ worker'[q] = worker[q]
        BY <2>3 DEF Grew
      <4>2. QED
        BY <1>2, <1>3, <1>8, <1>13, <4>1, LineKept
    <3>4. KeepsTrack'
      <4>1. \A n : In(fifo'[r], n) <=> In(fifo[r], n) \/ n = e
        <5> PICK S : S = Numbers \union Waiters
          OBVIOUS
        <5>1. fifo[r] \in Seq(S) /\ fifo'[r] = Append(fifo[r], e) /\ e \in S
          BY <2>3 DEF IInv, TypeOK, Grew
        <5>2. \A n : In(Append(fifo[r], e), n) <=> In(fifo[r], n) \/ n = e
          BY <5>1, AtEnd, SMTT(60)
        <5>3. QED
          BY <5>1, <5>2
      <4>2. \A q \in Roots : q = r \/ fifo'[q] = fifo[q]
        BY <2>3 DEF Grew
      <4>3. InLine(r, e)' /\ \A q \in Roots, n \in Numbers : InLine(q, n) => InLine(q, n)'
        BY <1>13, <2>3, <4>1, <4>2 DEF InLine, Grew
      <4>4. \A n \in Numbers : InPump(n) => InPump(n)' \/ n = e
        BY <1>2, <1>6 DEF InPump
      <4>5. QED
        BY <1>2, <1>3, <1>11, <1>12, <2>1, <4>3, <4>4 DEF IInv, KeepsTrack
    <3>5. ASSUME NEW f \in Fences PROVE MarkerSound(f)'
      <4>1. e # f /\ registered' = registered
        BY <1>2
      <4>2. QED
        BY <1>2, <1>13, <2>3, <4>1, MarkerBehind
    <3>6. QED
      BY <1>4, <2>2, <3>1, <3>2, <3>3, <3>4, <3>5 DEF IInv
  <2>4. CASE UNCHANGED fifoVars /\ broken'
    <3> USE DEF fifoVars
    <3>1. TypeOK'
      BY <1>2, <1>13, <2>4 DEF IInv, TypeOK
    <3>2. ASSUME NEW q \in Roots PROVE LineSound(q)'
      BY <1>2, <1>3, <1>8, <1>13, <2>4, LineKept
    <3>3. KeepsTrack'
      BY <2>4 DEF KeepsTrack
    <3>4. \A f \in Fences : MarkerSound(f)'
      BY <1>2, <1>13, <2>4, MarkersKept
    <3>5. QED
      BY <1>4, <2>2, <3>1, <3>2, <3>3, <3>4 DEF IInv
  <2>5. QED
    BY <1>13, <2>3, <2>4, Enqueued DEF IInv
<1>14. CASE r \notin sessions /\ Discard({e}) /\ UNCHANGED <<fifoVars, broken>>
  <2> USE DEF fifoVars
  <2>1. PICK callbacks \in SUBSET {e} :
          refused' = refused \union callbacks /\ lost' = lost \union ({e} \ callbacks)
    BY <1>14 DEF Discard
  <2>2. delivered' = delivered
    BY <1>14 DEF Discard
  <2>3. Given' = Given \union {e}
    BY <2>1 DEF Given
  <2>4. TypeOK'
    <3>1. lost' \subseteq Numbers /\ refused' \subseteq Numbers
      BY <2>1, SMTT(60) DEF IInv, TypeOK
    <3>2. QED
      BY <1>2, <1>14, <2>2, <3>1 DEF IInv, TypeOK
  <2>5. PumpSound'
    <3>1. \A n \in lost' \union refused' : n <= Taken'
      BY <1>3, <1>5, <2>3 DEF Given, IInv, PumpSound
    <3>2. QED
      BY <1>2, <1>3, <1>9, <1>10, <3>1 DEF IInv, PumpSound, Ascends
  <2>6. NoneLost'
    <3>1. \A q \in Opened : Root[q] = q /\ q \in sessions
      BY DEF IInv, PumpSound
    <3>2. \A q \in Opened : printed[e] # q
      BY <1>12, <1>14, <3>1
    <3>3. QED
      BY <1>2, <2>3, <3>2 DEF IInv, NoneLost
  <2>7. ASSUME NEW q \in Roots PROVE LineSound(q)'
    BY <1>2, <1>3, <1>8, <1>14, <2>2, LineKept
  <2>8. KeepsTrack'
    <3>1. \A q \in Roots, n \in Numbers : InLine(q, n)' <=> InLine(q, n)
      BY <1>14, <2>2 DEF InLine
    <3>2. \A n \in Numbers : InPump(n) => InPump(n)' \/ n = e
      BY <1>2, <1>6 DEF InPump
    <3>3. QED
      BY <1>2, <1>3, <1>11, <1>14, <2>3, <3>1, <3>2 DEF IInv, KeepsTrack
  <2>9. \A f \in Fences : MarkerSound(f)'
    BY <1>2, <1>14, <2>1, <2>2, MarkersKept
  <2>10. QED
    BY <1>4, <2>4, <2>5, <2>6, <2>7, <2>8, <2>9 DEF IInv
<1>15. QED
  BY <1>1, <1>12, <1>13, <1>14 DEF PumpRoutes, OwnerOf

LEMMA PumpFailsKeeps ==
  ASSUME IInv, PumpFails PROVE IInv'
<1> USE DEF pumpVars, fifoVars, taskVars, histVars
<1>1. TypeOK'
  BY DEF PumpFails, IInv, TypeOK
<1>2. \A f \in Fences : MarkerSound(f)'
  BY MarkersKept DEF PumpFails
<1>3. QED
  BY <1>1, <1>2, NoEventMoves DEF PumpFails

----------------------------------------------------------------------------
(* The workers *)

\* What a worker leaves alone, whichever step it takes.
LEMMA WorkerKeeps ==
  ASSUME IInv, NEW r \in Roots, TypeOK',
         UNCHANGED <<printed, events, queued, registered, hand, sessions, early, lost, refused, broken>>,
         \A q \in Roots \ {r} : fifo'[q] = fifo[q] /\ worker'[q] = worker[q] /\ delivered'[q] = delivered[q],
         \A n \in Numbers : InLine(r, n)' <=> InLine(r, n),
         LineSound(r)', \A f \in Fences : MarkerSound(f)'
  PROVE  IInv'
<1>1. Grows /\ Taken' = Taken
  BY StillGrows DEF IInv
<1>2. Given' = Given /\ \A n : InPump(n)' <=> InPump(n)
  BY DEF Given, InPump
<1>3. ChannelExact' /\ PumpSound' /\ NoneLost'
  BY <1>1, <1>2 DEF IInv, ChannelExact, PumpSound, Ascends, NoneLost
<1>4. ASSUME NEW q \in Roots \ {r} PROVE LineSound(q)'
  <2>1. \A n \in Numbers : InPump(n) => n <= Taken
    BY DEF InPump, In, IInv, PumpSound
  <2>2. QED
    BY <1>1, <1>2, <2>1, LineKept
<1>5. \A q \in Roots, n \in Numbers : InLine(q, n)' <=> InLine(q, n)
  <2>1. ASSUME NEW q \in Roots \ {r} PROVE \A n : InLine(q, n)' <=> InLine(q, n)
    BY DEF InLine
  <2>2. QED
    BY <2>1
<1>6. \A n \in 1..Len(printed) : Root[printed[n]] \in Roots /\ n \in Numbers
  BY OwnersKnown DEF IInv
<1>7. KeepsTrack'
  BY <1>1, <1>2, <1>5, <1>6 DEF IInv, KeepsTrack
<1>8. QED
  BY <1>3, <1>4, <1>7 DEF IInv

\* The parts of MarkerSound that a worker touches.
LEMMA MarkerWorked ==
  ASSUME IInv, NEW r \in Roots, NEW f \in Fences,
         UNCHANGED <<printed, events, registrations, registered, sessions, lost, refused, mark>>,
         (fence'[f] = "idle") <=> (fence[f] = "idle"),
         \A q \in Roots \ {r} : fifo'[q] = fifo[q] /\ worker'[q] = worker[q],
         \A q \in Roots, n \in Numbers : In(delivered[q], n) => In(delivered'[q], n),
         \A i \in 1..Len(fifo'[r]) : fifo'[r][i] = f => Follows(f, r, i)',
         worker'[r] = f => /\ fence[f] # "idle" /\ r = Target[f]
                           /\ \A n \in 1..mark[f] : printed[n] = r => Over(r, n)',
         fence'[f] \in {"observed", "holding"} =>
           \A n \in 1..mark[f] : printed[n] = Target[f] => Over(Target[f], n)'
  PROVE  MarkerSound(f)'
<1>1. Taken' = Taken /\ MarkerSound(f)
  BY DEF Taken, IInv
<1>2. \A n \in 1..mark[f] : n \in Numbers
  <2>1. mark[f] \in 0..MaxEvents /\ MaxEvents \in Nat
    BY DEF IInv, TypeOK
  <2>2. QED
    BY <2>1
<1>3. \A q \in Roots, n \in 1..mark[f] : Over(q, n) => Over(q, n)'
  BY <1>2 DEF Over, Given
<1>4. ASSUME NEW q \in Roots \ {r}
      PROVE  /\ \A i \in 1..Len(fifo'[q]) : fifo'[q][i] = f => Follows(f, q, i)'
             /\ worker'[q] = f => /\ fence[f] # "idle" /\ q = Target[f]
                                  /\ \A n \in 1..mark[f] : printed[n] = q => Over(q, n)'
  <2>1. \A i \in 1..Len(fifo[q]) : Follows(f, q, i) => Follows(f, q, i)'
    BY <1>3 DEF Follows
  <2>2. QED
    BY <1>1, <1>3, <2>1 DEF MarkerSound
<1>5. \A q \in Roots : q = r \/ q \in Roots \ {r}
  OBVIOUS
<1>6. \A q \in Roots : \A i \in 1..Len(fifo'[q]) : fifo'[q][i] = f => Follows(f, q, i)'
  BY <1>4, <1>5
<1>7. \A q \in Roots : worker'[q] = f =>
        /\ fence[f] # "idle" /\ q = Target[f]
        /\ \A n \in 1..mark[f] : printed[n] = q => Over(q, n)'
  BY <1>4, <1>5
<1>8. /\ mark[f] <= Len(printed) /\ (fence[f] # "idle" => Target[f] \in sessions)
      /\ (In(registrations, f) => fence[f] # "idle")
      /\ (registered = f => fence[f] # "idle" /\ mark[f] <= Taken)
  BY <1>1 DEF MarkerSound
<1>9. QED
  BY <1>1, <1>6, <1>7, <1>8 DEF MarkerSound

LEMMA WorkerPopsKeeps ==
  ASSUME IInv, NEW r \in Roots, WorkerTakes(r), fifo[r] # <<>> PROVE IInv'
<1> USE DEF pumpVars, taskVars, histVars
<1>1. /\ fifo[r] \in Seq(Numbers \union Waiters) /\ worker[r] = Nobody /\ running[r]
      /\ worker' = [worker EXCEPT ![r] = Head(fifo[r])] /\ fifo' = [fifo EXCEPT ![r] = Tail(fifo[r])]
      /\ UNCHANGED <<printed, events, registrations, queued, registered, hand, sessions, setup, early,
                     running, holder, creation, fence, mark, delivered, lost, refused, broken>>
  BY DEF WorkerTakes, IInv, TypeOK
<1>2. fifo \in [Roots -> Seq(Numbers \union Waiters)]
      /\ worker \in [Roots -> Numbers \union Waiters \union {Nobody}]
  BY DEF IInv, TypeOK
<1>3. PICK S : S = Numbers \union Waiters
  OBVIOUS
<1>17. fifo[r] \in Seq(S) /\ fifo[r] # <<>>
  BY <1>1, <1>3
<1>18. PICK e \in S : e = Head(fifo[r])
  BY <1>17, FromFront
<1>4. /\ fifo'[r] = Tail(fifo[r]) /\ worker'[r] = e
      /\ \A q \in Roots \ {r} : fifo'[q] = fifo[q] /\ worker'[q] = worker[q]
  BY <1>1, <1>2, <1>18
<1>5. /\ fifo'[r] \in Seq(S) /\ Len(fifo[r]) \in Nat \ {0}
      /\ Len(fifo'[r]) = Len(fifo[r]) - 1 /\ e = fifo[r][1] /\ 1 \in 1..Len(fifo[r])
      /\ \A i \in 1..Len(fifo'[r]) : fifo'[r][i] = fifo[r][i + 1] /\ i + 1 \in 1..Len(fifo[r])
      /\ \A i \in 1..Len(fifo[r]) : i = 1 \/ (i - 1 \in 1..Len(fifo'[r]) /\ fifo'[r][i - 1] = fifo[r][i])
      /\ \A n : In(fifo[r], n) <=> n = e \/ In(fifo'[r], n)
  <2>1. Head(fifo[r]) = e /\ Tail(fifo[r]) = fifo'[r]
    BY <1>4, <1>18
  <2>2. /\ Tail(fifo[r]) \in Seq(S) /\ Len(fifo[r]) \in Nat \ {0}
        /\ Len(Tail(fifo[r])) = Len(fifo[r]) - 1 /\ Head(fifo[r]) = fifo[r][1] /\ 1 \in 1..Len(fifo[r])
    BY <1>17, FromFront
  <2>3. \A i \in 1..Len(Tail(fifo[r])) : Tail(fifo[r])[i] = fifo[r][i + 1] /\ i + 1 \in 1..Len(fifo[r])
    BY <1>17, FromFront
  <2>4. \A i \in 1..Len(fifo[r]) :
          i = 1 \/ (i - 1 \in 1..Len(Tail(fifo[r])) /\ Tail(fifo[r])[i - 1] = fifo[r][i])
    BY <1>17, FromFront
  <2>5. \A n : In(fifo[r], n) <=> n = Head(fifo[r]) \/ In(Tail(fifo[r]), n)
    BY <1>17, FromFront
  <2>6. QED
    BY <2>1, <2>2, <2>3, <2>4, <2>5, ZenonT(60)
<1>6. TypeOK'
  <2>1. fifo' \in [Roots -> Seq(Numbers \union Waiters)]
        /\ worker' \in [Roots -> Numbers \union Waiters \union {Nobody}]
    BY <1>1, <1>2, <1>3, <1>4, <1>5, <1>18
  <2>2. ASSUME NEW q \in Roots
        PROVE  Len(fifo'[q]) <= DeliveryLimit /\ (worker'[q] # Nobody \/ fifo'[q] # <<>> => running[q])
    <3>1. Len(fifo[q]) <= DeliveryLimit /\ (worker[q] # Nobody \/ fifo[q] # <<>> => running[q])
          /\ DeliveryLimit \in Nat
      BY DEF IInv, TypeOK
    <3>2. CASE q = r
      BY <1>1, <1>5, <3>1, <3>2
    <3>3. CASE q # r
      BY <1>4, <3>1, <3>3
    <3>4. QED
      BY <3>2, <3>3
  <2>3. QED
    BY <1>1, <2>1, <2>2 DEF IInv, TypeOK
<1>7. \A n \in Numbers : ~(worker[r] = n)
  BY <1>1
<1>8. \A n \in Numbers : InLine(r, n)' <=> InLine(r, n)
  BY <1>1, <1>4, <1>5, <1>7 DEF InLine
<1>9. Taken' = Taken /\ LineSound(r) /\ (\A n : Own(r, n)' <=> Own(r, n)) /\ (\A n : InPump(n)' <=> InPump(n))
  BY <1>1 DEF Taken, IInv, Own, InPump
<1>10. \A n : Own(r, n) => n \in Numbers
  BY DEF Own
<1>11. ASSUME NEW i \in 1..Len(fifo'[r]), NEW j \in 1..Len(fifo'[r]), i < j,
              Own(r, fifo'[r][i]), Own(r, fifo'[r][j])
       PROVE  fifo'[r][i] < fifo'[r][j]
  <2>1. i + 1 \in 1..Len(fifo[r]) /\ j + 1 \in 1..Len(fifo[r])
        /\ fifo'[r][i] = fifo[r][i + 1] /\ fifo'[r][j] = fifo[r][j + 1]
    BY <1>5, <1>11
  <2>2. i + 1 < j + 1
    BY <1>11
  <2>3. QED
    BY <1>9, <1>11, <2>1, <2>2 DEF LineSound
<1>12. ASSUME NEW n \in Numbers, In(fifo'[r], n), Own(r, e), Own(r, n) PROVE e < n
  <2>1. PICK i \in 1..Len(fifo'[r]) : fifo'[r][i] = n
    BY <1>12 DEF In
  <2>2. i + 1 \in 1..Len(fifo[r]) /\ fifo[r][i + 1] = n /\ 1 < i + 1
    BY <1>5, <2>1, SMTT(60)
  <2>3. QED
    BY <1>5, <1>9, <1>12, <2>2 DEF LineSound
<1>13. ASSUME NEW m \in Numbers, NEW n \in Numbers, Own(r, m), Own(r, n)
       PROVE  /\ In(delivered[r], m) /\ (e = n \/ In(fifo'[r], n) \/ InPump(n)) => m < n
              /\ e = m /\ (In(fifo'[r], n) \/ InPump(n)) => m < n
              /\ In(fifo'[r], m) /\ InPump(n) => m < n
  <2>1. In(delivered[r], m) /\ (In(fifo[r], n) \/ InPump(n)) => m < n
    BY <1>9, <1>13 DEF LineSound
  <2>2. In(fifo[r], m) /\ InPump(n) => m < n
    BY <1>9, <1>13 DEF LineSound
  <2>3. e = m /\ In(fifo'[r], n) => m < n
    BY <1>12, <1>13
  <2>4. QED
    BY <1>5, <2>1, <2>2, <2>3
<1>14. LineSound(r)'
  <2>1. \A n \in Numbers : InLine(r, n)' => n <= Taken /\ (Own(r, n) => r \in sessions)
    BY <1>8, <1>9 DEF LineSound
  <2>2. \A i, j \in 1..Len(delivered[r]) :
          i < j /\ Own(r, delivered[r][i]) /\ Own(r, delivered[r][j]) => delivered[r][i] < delivered[r][j]
    BY <1>9 DEF LineSound
  <2>3. UNCHANGED <<delivered, sessions>>
    BY <1>1
  <2>4. QED
    BY <1>4, <1>9, <1>11, <1>13, <2>1, <2>2, <2>3 DEF LineSound
<1>15. ASSUME NEW f \in Fences PROVE MarkerSound(f)'
  <2>1. \A n \in 1..mark[f] : n \in Numbers
    <3>1. mark[f] \in 0..MaxEvents /\ MaxEvents \in Nat
      BY DEF IInv, TypeOK
    <3>2. QED
      BY <3>1
  <2>2. \A n : Over(r, n)' <=> Over(r, n)
    BY <1>1 DEF Over, Given
  <2>3. ASSUME NEW i \in 1..Len(fifo'[r]), fifo'[r][i] = f PROVE Follows(f, r, i)'
    <3>1. i + 1 \in 1..Len(fifo[r]) /\ fifo[r][i + 1] = f
      BY <1>5, <2>3
    <3>2. Follows(f, r, i + 1)
      BY <3>1 DEF IInv, MarkerSound
    <3>3. ASSUME NEW n \in 1..mark[f], printed[n] = r
          PROVE  Over(r, n) \/ e = n \/ \E j \in 1..Len(fifo'[r]) : j < i /\ fifo'[r][j] = n
      <4>1. Over(r, n) \/ worker[r] = n \/ \E j \in 1..Len(fifo[r]) : j < i + 1 /\ fifo[r][j] = n
        BY <3>2, <3>3 DEF Follows
      <4>2. worker[r] # n
        BY <1>7, <2>1
      <4>3. ASSUME NEW j \in 1..Len(fifo[r]), j < i + 1, fifo[r][j] = n
            PROVE  e = n \/ \E k \in 1..Len(fifo'[r]) : k < i /\ fifo'[r][k] = n
        <5>1. CASE j = 1
          BY <1>5, <4>3, <5>1
        <5>2. CASE j # 1
          <6>1. j - 1 \in 1..Len(fifo'[r]) /\ fifo'[r][j - 1] = n
            BY <1>5, <4>3, <5>2
          <6>2. j - 1 < i
            BY <4>3
          <6>3. QED
            BY <6>1, <6>2
        <5>3. QED
          BY <5>1, <5>2
      <4>4. QED
        BY <4>1, <4>2, <4>3
    <3>4. QED
      BY <1>1, <1>4, <2>2, <3>2, <3>3 DEF Follows
  <2>4. ASSUME e = f
        PROVE  /\ fence[f] # "idle" /\ r = Target[f]
               /\ \A n \in 1..mark[f] : printed[n] = r => Over(r, n)'
    <3>1. Follows(f, r, 1)
      BY <1>5, <2>4 DEF IInv, MarkerSound
    <3>2. \A j \in 1..Len(fifo[r]) : ~(j < 1)
      BY <1>5
    <3>3. QED
      BY <1>7, <2>1, <2>2, <3>1, <3>2 DEF Follows
  <2>5. fence[f] \in {"observed", "holding"} =>
          \A n \in 1..mark[f] : printed[n] = Target[f] => Over(Target[f], n)'
    <3>1. \A q \in Roots : \A n : Over(q, n)' <=> Over(q, n)
      BY <1>1 DEF Over, Given
    <3>2. Target[f] \in Roots
      OBVIOUS
    <3>3. QED
      BY <3>1, <3>2 DEF IInv, MarkerSound
  <2>6. QED
    BY <1>1, <1>4, <2>3, <2>4, <2>5, MarkerWorked
<1>16. QED
  BY <1>1, <1>4, <1>6, <1>8, <1>14, <1>15, WorkerKeeps

LEMMA WorkerStopsKeeps ==
  ASSUME IInv, NEW r \in Roots, WorkerTakes(r), fifo[r] = <<>> PROVE IInv'
<1> USE DEF pumpVars, taskVars, histVars
<1>1. /\ running' = [running EXCEPT ![r] = FALSE] /\ worker[r] = Nobody
      /\ UNCHANGED <<printed, events, registrations, queued, registered, hand, sessions, setup, early, fifo,
                     worker, holder, creation, fence, mark, delivered, lost, refused, broken>>
  BY DEF WorkerTakes
<1>2. running' \in [Roots -> BOOLEAN]
      /\ \A q \in Roots : Len(fifo[q]) <= DeliveryLimit
                          /\ (worker[q] # Nobody \/ fifo[q] # <<>> => running'[q])
  BY <1>1 DEF IInv, TypeOK
<1>3. TypeOK'
  BY <1>1, <1>2 DEF IInv, TypeOK
<1>4. \A f \in Fences : MarkerSound(f)'
  BY <1>1, MarkersKept
<1>5. QED
  BY <1>1, <1>3, <1>4, NoEventMoves

LEMMA WorkerAnswersKeeps ==
  ASSUME IInv, NEW r \in Roots, WorkerAnswers(r) PROVE IInv'
<1> USE DEF pumpVars, histVars
<1>1. PICK w \in Waiters : w = worker[r]
  BY DEF WorkerAnswers
<1>2. /\ worker' = [worker EXCEPT ![r] = Nobody]
      /\ UNCHANGED <<printed, events, registrations, queued, registered, hand, sessions, setup, early, fifo,
                     running, holder, mark, delivered, lost, refused, broken>>
  BY DEF WorkerAnswers
<1>3. worker \in [Roots -> Numbers \union Waiters \union {Nobody}]
  BY DEF IInv, TypeOK
<1>4. worker'[r] = Nobody /\ \A q \in Roots \ {r} : worker'[q] = worker[q]
  BY <1>2, <1>3
<1>5. \A n \in Numbers : w # n /\ Nobody # n
  BY <1>1
<1>6. \/ w \in Created /\ creation' = [creation EXCEPT ![w] = "registered"] /\ UNCHANGED fence
      \/ w \in Fences /\ fence[w] = "waiting" /\ fence' = [fence EXCEPT ![w] = "observed"] /\ UNCHANGED creation
      \/ w \in Fences /\ UNCHANGED <<creation, fence>>
  BY <1>1 DEF WorkerAnswers, FenceStep
<1>7. fence \in [Fences -> {"idle", "waiting", "observed", "holding", "done", "failed"}]
      /\ creation \in [Created -> {"idle", "requested", "registering", "registered", "failed", "unusable"}]
  BY DEF IInv, TypeOK
<1>8. TypeOK'
  <2>1. fence' \in [Fences -> {"idle", "waiting", "observed", "holding", "done", "failed"}]
        /\ creation' \in [Created -> {"idle", "requested", "registering", "registered", "failed", "unusable"}]
    BY <1>6, <1>7
  <2>2. worker' \in [Roots -> Numbers \union Waiters \union {Nobody}]
    BY <1>2, <1>3
  <2>3. \A q \in Roots : Len(fifo[q]) <= DeliveryLimit /\ (worker'[q] # Nobody \/ fifo[q] # <<>> => running[q])
    BY <1>4 DEF IInv, TypeOK
  <2>4. QED
    BY <1>2, <2>1, <2>2, <2>3 DEF IInv, TypeOK
<1>9. \A n \in Numbers : InLine(r, n)' <=> InLine(r, n)
  BY <1>1, <1>2, <1>4, <1>5 DEF InLine
<1>10. Taken' = Taken /\ LineSound(r) /\ (\A n : Own(r, n)' <=> Own(r, n)) /\ (\A n : InPump(n)' <=> InPump(n))
  BY <1>2 DEF Taken, IInv, Own, InPump
<1>11. LineSound(r)'
  BY <1>2, <1>4, <1>5, <1>9, <1>10 DEF LineSound
<1>12. ASSUME NEW f \in Fences PROVE MarkerSound(f)'
  <2>1. MarkerSound(f) /\ \A n \in 1..mark[f] : n \in Numbers
    <3>1. mark[f] \in 0..MaxEvents /\ MaxEvents \in Nat
      BY DEF IInv, TypeOK
    <3>2. QED
      BY <3>1 DEF IInv
  <2>2. \A q \in Roots : \A n : Over(q, n)' <=> Over(q, n)
    BY <1>2 DEF Over, Given
  <2>3. \/ fence'[f] = fence[f]
        \/ f = w /\ fence[f] = "waiting" /\ fence'[f] = "observed"
    BY <1>6, <1>7
  <2>4. ASSUME NEW i \in 1..Len(fifo'[r]), fifo'[r][i] = f PROVE Follows(f, r, i)'
    <3>1. Follows(f, r, i)
      BY <1>2, <2>1, <2>4 DEF MarkerSound
    <3>2. \A n \in 1..mark[f] : worker[r] # n
      BY <1>1, <1>5, <2>1
    <3>3. fence'[f] # "idle"
      BY <2>3, <3>1 DEF Follows
    <3>4. QED
      BY <1>2, <2>2, <3>1, <3>2, <3>3 DEF Follows
  <2>5. worker'[r] # f
    BY <1>4
  <2>6. Target[f] \in Roots
    OBVIOUS
  <2>7. fence'[f] \in {"observed", "holding"} =>
          \A n \in 1..mark[f] : printed[n] = Target[f] => Over(Target[f], n)'
    <3>1. CASE fence'[f] = fence[f]
      BY <2>1, <2>2, <2>6, <3>1 DEF MarkerSound
    <3>2. CASE f = w
      BY <1>1, <2>1, <2>2, <3>2 DEF MarkerSound
    <3>3. QED
      BY <2>3, <3>1, <3>2
  <2>8. (fence'[f] = "idle") <=> (fence[f] = "idle")
    BY <2>3
  <2>9. QED
    BY <1>2, <1>4, <2>4, <2>5, <2>7, <2>8, MarkerWorked
<1>13. QED
  BY <1>2, <1>4, <1>8, <1>9, <1>11, <1>12, WorkerKeeps

LEMMA WorkerDeliversKeeps ==
  ASSUME IInv, NEW r \in Roots, WorkerDelivers(r) PROVE IInv'
<1> USE DEF pumpVars, taskVars
<1>1. PICK e \in Numbers : e = worker[r]
  BY DEF WorkerDelivers, IInv, TypeOK
<1>2. /\ worker' = [worker EXCEPT ![r] = Nobody]
      /\ delivered' = [delivered EXCEPT ![r] = Append(delivered[r], e)]
      /\ UNCHANGED <<printed, events, registrations, queued, registered, hand, sessions, setup, early, fifo,
                     running, holder, creation, fence, mark, lost, refused, broken>>
  BY <1>1 DEF WorkerDelivers
<1>3. worker \in [Roots -> Numbers \union Waiters \union {Nobody}] /\ delivered \in [Roots -> Seq(Numbers)]
  BY DEF IInv, TypeOK
<1>4. /\ worker'[r] = Nobody /\ delivered'[r] = Append(delivered[r], e) /\ delivered[r] \in Seq(Numbers)
      /\ \A q \in Roots \ {r} : worker'[q] = worker[q] /\ delivered'[q] = delivered[q]
  BY <1>2, <1>3
<1>5. /\ delivered'[r] \in Seq(Numbers) /\ Len(delivered[r]) \in Nat
      /\ Len(delivered'[r]) = Len(delivered[r]) + 1
      /\ \A i \in 1..Len(delivered[r]) : delivered'[r][i] = delivered[r][i]
      /\ delivered'[r][Len(delivered[r]) + 1] = e
      /\ \A i \in 1..Len(delivered'[r]) : i \in 1..Len(delivered[r]) \/ i = Len(delivered[r]) + 1
      /\ \A n : In(delivered'[r], n) <=> In(delivered[r], n) \/ n = e
  <2> PICK S : S = Numbers
    OBVIOUS
  <2>1. delivered[r] \in Seq(S) /\ e \in S
    BY <1>4
  <2>2. \A n : In(Append(delivered[r], e), n) <=> In(delivered[r], n) \/ n = e
    BY <2>1, AtEnd
  <2>3. QED
    BY <1>4, <2>1, <2>2, AtEnd, SMTT(60)
<1>6. \A n \in Numbers : Nobody # n
  OBVIOUS
<1>7. TypeOK'
  <2>1. delivered' \in [Roots -> Seq(Numbers)]
    BY <1>2, <1>3, <1>4, <1>5
  <2>2. worker' \in [Roots -> Numbers \union Waiters \union {Nobody}]
    BY <1>2, <1>3
  <2>3. \A q \in Roots : Len(fifo[q]) <= DeliveryLimit /\ (worker'[q] # Nobody \/ fifo[q] # <<>> => running[q])
    BY <1>4 DEF IInv, TypeOK
  <2>4. QED
    BY <1>2, <2>1, <2>2, <2>3 DEF IInv, TypeOK
<1>8. \A n \in Numbers : InLine(r, n)' <=> InLine(r, n)
  BY <1>1, <1>2, <1>4, <1>5, <1>6 DEF InLine
<1>9. Taken' = Taken /\ LineSound(r) /\ (\A n : Own(r, n)' <=> Own(r, n)) /\ (\A n : InPump(n)' <=> InPump(n))
  BY <1>2 DEF Taken, IInv, Own, InPump
<1>10. ASSUME NEW i \in 1..Len(delivered'[r]), NEW j \in 1..Len(delivered'[r]), i < j,
              Own(r, delivered'[r][i]), Own(r, delivered'[r][j])
       PROVE  delivered'[r][i] < delivered'[r][j]
  <2>1. i \in 1..Len(delivered[r])
    BY <1>5, <1>10
  <2>2. delivered'[r][i] = delivered[r][i] /\ In(delivered[r], delivered[r][i])
    BY <1>5, <2>1 DEF In
  <2>3. CASE j \in 1..Len(delivered[r])
    <3>1. delivered'[r][j] = delivered[r][j]
      BY <1>5, <2>3
    <3>2. QED
      BY <1>9, <1>10, <2>1, <2>2, <2>3, <3>1 DEF LineSound
  <2>4. CASE j = Len(delivered[r]) + 1
    <3>1. delivered'[r][j] = e /\ delivered[r][i] \in Numbers
      BY <1>4, <1>5, <2>1, <2>4, SMTT(60)
    <3>2. QED
      BY <1>1, <1>9, <1>10, <2>2, <3>1 DEF LineSound
  <2>5. QED
    BY <1>5, <2>3, <2>4
<1>11. ASSUME NEW m \in Numbers, NEW n \in Numbers, Own(r, m), Own(r, n)
       PROVE  /\ In(delivered'[r], m) /\ (In(fifo[r], n) \/ InPump(n)) => m < n
              /\ In(fifo[r], m) /\ InPump(n) => m < n
  <2>1. In(delivered[r], m) /\ (In(fifo[r], n) \/ InPump(n)) => m < n
    BY <1>9, <1>11 DEF LineSound
  <2>2. e = m /\ (In(fifo[r], n) \/ InPump(n)) => m < n
    BY <1>1, <1>9, <1>11 DEF LineSound
  <2>3. In(fifo[r], m) /\ InPump(n) => m < n
    BY <1>9, <1>11 DEF LineSound
  <2>4. QED
    BY <1>5, <2>1, <2>2, <2>3
<1>12. LineSound(r)'
  <2>1. \A n \in Numbers : InLine(r, n)' => n <= Taken /\ (Own(r, n) => r \in sessions)
    BY <1>8, <1>9 DEF LineSound
  <2>2. \A i, j \in 1..Len(fifo[r]) :
          i < j /\ Own(r, fifo[r][i]) /\ Own(r, fifo[r][j]) => fifo[r][i] < fifo[r][j]
    BY <1>9 DEF LineSound
  <2>3. UNCHANGED <<fifo, sessions>>
    BY <1>2
  <2>4. QED
    BY <1>4, <1>6, <1>9, <1>10, <1>11, <2>1, <2>2, <2>3, ZenonT(60) DEF LineSound
<1>13. \A q \in Roots, n \in Numbers : In(delivered[q], n) => In(delivered'[q], n)
  BY <1>4, <1>5
<1>14. ASSUME NEW f \in Fences PROVE MarkerSound(f)'
  <2>1. MarkerSound(f) /\ \A n \in 1..mark[f] : n \in Numbers
    <3>1. mark[f] \in 0..MaxEvents /\ MaxEvents \in Nat
      BY DEF IInv, TypeOK
    <3>2. QED
      BY <3>1 DEF IInv
  <2>2. \A q \in Roots, n \in Numbers : Over(q, n) => Over(q, n)'
    BY <1>2, <1>13 DEF Over, Given
  <2>3. Over(r, e)'
    BY <1>5 DEF Over
  <2>4. ASSUME NEW i \in 1..Len(fifo'[r]), fifo'[r][i] = f PROVE Follows(f, r, i)'
    <3>1. Follows(f, r, i)
      BY <1>2, <2>1, <2>4 DEF MarkerSound
    <3>2. \A n \in 1..mark[f] : (Over(r, n) => Over(r, n)') /\ (worker[r] = n => Over(r, n)')
      BY <1>1, <2>1, <2>2, <2>3
    <3>3. QED
      BY <1>2, <3>1, <3>2 DEF Follows
  <2>5. worker'[r] # f /\ Target[f] \in Roots
    BY <1>4
  <2>6. fence[f] \in {"observed", "holding"} =>
          \A n \in 1..mark[f] : printed[n] = Target[f] => Over(Target[f], n)'
    BY <2>1, <2>2, <2>5 DEF MarkerSound
  <2>7. QED
    BY <1>2, <1>4, <1>13, <2>4, <2>5, <2>6, MarkerWorked, ZenonT(60)
<1>15. QED
  BY <1>2, <1>4, <1>7, <1>8, <1>12, <1>14, WorkerKeeps

----------------------------------------------------------------------------
(* The theorems *)

LEMMA StutterKeeps == IInv /\ UNCHANGED vars => IInv'
<1> SUFFICES ASSUME IInv, UNCHANGED vars PROVE IInv'
  OBVIOUS
<1> USE DEF vars, pumpVars, fifoVars, taskVars, histVars
<1>1. TypeOK'
  BY DEF IInv, TypeOK
<1>2. \A f \in Fences : MarkerSound(f)'
  BY MarkersKept
<1>3. QED
  BY <1>1, <1>2, NoEventMoves

LEMMA StepKeeps == IInv /\ [Next]_vars => IInv'
<1> SUFFICES ASSUME IInv, [Next]_vars PROVE IInv'
  OBVIOUS
<1>1. CASE \E t \in Threads : ChildEmits(t)
  BY <1>1, ChildEmitsKeeps
<1>2. CASE PumpStep
  BY <1>2, PumpFinishesKeeps, PumpRegistersKeeps, PumpFencesKeeps, TakesQueued, TakesNext, PumpRoutesKeeps
     DEF PumpStep
<1>3. CASE PumpFails
  BY <1>3, PumpFailsKeeps
<1>4. CASE \E r \in Roots : WorkerStep(r)
  BY <1>4, WorkerPopsKeeps, WorkerStopsKeeps, WorkerAnswersKeeps, WorkerDeliversKeeps DEF WorkerStep
<1>5. CASE \E x \in Created : CreationStep(x)
  BY <1>5, QuietTaskKeeps, SetupRejectedKeeps DEF CreationStep
<1>6. CASE \E f \in Fences : FenceTaskStep(f)
  BY <1>6, FenceBeginsKeeps, FenceGoesOn DEF FenceTaskStep
<1>7. CASE UNCHANGED vars
  BY <1>7, StutterKeeps
<1>8. QED
  BY <1>1, <1>2, <1>3, <1>4, <1>5, <1>6, <1>7 DEF Next

\* What the pump, the sessions' lines and the markers hold is always accounted for, in
\* order, between the channel and the client.
THEOREM InvariantHolds == Spec => []IInv
<1>1. QED
  BY Initial, StepKeeps, PTL DEF Spec

\* The tasks of the event path keep to the types of their state, and the queues to
\* their capacities.
THEOREM TypeCorrect == Spec => []TypeOK
<1>1. IInv => TypeOK
  BY DEF IInv
<1>2. QED
  BY <1>1, InvariantHolds, PTL

\* OwnThreadInOrder for every set of threads and sessions: no creation, replay or slow session
\* reorders or loses what an open session's own thread says.
THEOREM InOrder == Spec => []OwnThreadInOrder
<1>1. ASSUME IInv PROVE OwnThreadInOrder
  <2>1. ASSUME NEW r \in Roots,
               NEW i \in {k \in DOMAIN delivered[r] : printed[delivered[r][k]] = r},
               NEW j \in {k \in DOMAIN delivered[r] : printed[delivered[r][k]] = r}, i < j
        PROVE  delivered[r][i] < delivered[r][j]
    <3>1. delivered[r] \in Seq(Numbers)
      BY <1>1 DEF IInv, TypeOK
    <3>2. /\ i \in 1..Len(delivered[r]) /\ j \in 1..Len(delivered[r])
          /\ printed[delivered[r][i]] = r /\ printed[delivered[r][j]] = r
      BY <3>1
    <3>3. ASSUME NEW k \in 1..Len(delivered[r]), printed[delivered[r][k]] = r
          PROVE  Own(r, delivered[r][k])
      <4>1. delivered[r][k] \in Numbers /\ InLine(r, delivered[r][k])
        BY <3>1, SMTT(60) DEF InLine, In
      <4>2. delivered[r][k] <= Taken
        BY <1>1, <4>1 DEF IInv, LineSound
      <4>3. delivered[r][k] <= Len(printed)
        BY <1>1, <4>1, <4>2, Sizes DEF IInv
      <4>4. QED
        BY <3>3, <4>1, <4>3 DEF Own
    <3>4. QED
      BY <1>1, <2>1, <3>2, <3>3 DEF IInv, LineSound
  <2>2. \A r \in Opened : \A n \in lost \union refused : printed[n] # r
    BY <1>1 DEF IInv, NoneLost, Given
  <2>3. QED
    BY <2>1, <2>2 DEF OwnThreadInOrder
<1>2. QED
  BY <1>1, InvariantHolds, PTL

\* FenceObservesOwn for any number of callers of synchronize_session: when it has returned,
\* nothing its session's thread said before is still on its way.
THEOREM FenceObserves == Spec => []FenceObservesOwn
<1>1. ASSUME IInv PROVE FenceObservesOwn
  <2>1. SUFFICES ASSUME NEW f \in Fences, fence[f] \in {"observed", "holding"},
                        NEW n \in 1..mark[f], printed[n] = Target[f]
                 PROVE  n \in ToSet(delivered[Target[f]]) \union lost \union refused
    BY DEF FenceObservesOwn
  <2>2. Over(Target[f], n)
    BY <1>1, <2>1 DEF IInv, MarkerSound
  <2>3. delivered[Target[f]] \in Seq(Numbers)
    BY <1>1 DEF IInv, TypeOK
  <2>4. In(delivered[Target[f]], n) => n \in ToSet(delivered[Target[f]])
    BY <2>3 DEF In, ToSet
  <2>5. QED
    BY <2>2, <2>4 DEF Over, Given
<1>2. QED
  BY <1>1, InvariantHolds, PTL

----------------------------------------------------------------------------
(* Each event in one place *)

\* Nothing is at two stages of its way, nor in the line of a session that does not own it.
Parted ==
  \A n \in Numbers :
    /\ In(early, n) => ~InPump(n) /\ n \notin Given
    /\ n \in Given => ~InPump(n)
    /\ ~(n \in lost /\ n \in refused)
    /\ \A r \in Roots :
         InLine(r, n) => r = Root[printed[n]] /\ ~InPump(n) /\ ~In(early, n) /\ n \notin Given

\* Nor twice in a line.
Distinct(line) == \A i, j \in 1..Len(line) : line[i] = line[j] /\ line[i] \in Numbers => i = j
Apart(r) ==
  /\ Distinct(delivered[r]) /\ Distinct(fifo[r])
  /\ \A n \in Numbers : /\ In(delivered[r], n) => worker[r] # n /\ ~In(fifo[r], n)
                        /\ worker[r] = n => ~In(fifo[r], n)

OInv == Parted /\ \A r \in Roots : Apart(r)

LEMMA InitiallyOnce == Init => OInv
BY DEF Init, OInv, Parted, Apart, Distinct, In, InPump, InLine, Given

\* What is read is new to everything but the channel.
LEMMA NewToAll ==
  ASSUME IInv
  PROVE  \A n \in Numbers : n > Taken =>
           /\ ~InPump(n) /\ ~In(early, n) /\ n \notin Given
           /\ \A r \in Roots : ~InLine(r, n)
<1> SUFFICES ASSUME NEW n \in Numbers, n > Taken
             PROVE  ~InPump(n) /\ ~In(early, n) /\ n \notin Given /\ \A r \in Roots : ~InLine(r, n)
  OBVIOUS
<1>1. Taken \in Nat
  BY Sizes DEF IInv
<1>2. ~InPump(n) /\ ~In(early, n) /\ n \notin Given
  BY <1>1 DEF IInv, PumpSound, InPump, In, Given
<1>3. \A r \in Roots : ~InLine(r, n)
  BY <1>1 DEF IInv, LineSound
<1>4. QED
  BY <1>2, <1>3

\* What was read keeps its owner.
LEMMA SameOwner ==
  ASSUME IInv, Grows
  PROVE  \A n \in Numbers : n <= Taken => printed'[n] = printed[n]
<1>1. Len(printed) \in Nat /\ Taken \in Nat /\ Taken <= Len(printed)
  BY Sizes DEF IInv
<1>2. QED
  BY <1>1 DEF Grows

\* A step that moves events on, each from where it was.
Advances ==
  \A n \in Numbers :
    /\ InPump(n)' => InPump(n) \/ n > Taken \/ (In(early, n) /\ ~In(early, n)')
    /\ In(early, n)' => In(early, n) \/ ((InPump(n) \/ n > Taken) /\ ~InPump(n)')
    /\ n \in Given' => \/ n \in Given
                       \/ (InPump(n) \/ In(early, n)) /\ ~InPump(n)' /\ ~In(early, n)'
    /\ ~(n \in lost' /\ n \in refused')
    /\ \A r \in Roots :
         InLine(r, n)' =>
           \/ InLine(r, n)
           \/ /\ InPump(n) /\ r = Root[printed[n]]
              /\ ~InPump(n)' /\ ~In(early, n)' /\ n \notin Given'

LEMMA PartedKept ==
  ASSUME IInv, Parted, Grows, Advances PROVE Parted'
<1> SUFFICES ASSUME NEW n \in Numbers
             PROVE  /\ In(early, n)' => ~InPump(n)' /\ n \notin Given'
                    /\ n \in Given' => ~InPump(n)'
                    /\ ~(n \in lost' /\ n \in refused')
                    /\ \A r \in Roots :
                         InLine(r, n)' => /\ r = Root[printed'[n]]
                                          /\ ~InPump(n)' /\ ~In(early, n)' /\ n \notin Given'
  BY DEF Parted
<1>1. Taken \in Nat
  BY Sizes DEF IInv
<1>2. CASE n > Taken
  <2>1. ~InPump(n) /\ ~In(early, n) /\ n \notin Given /\ \A r \in Roots : ~InLine(r, n)
    BY <1>2, NewToAll
  <2>2. n \notin Given' /\ \A r \in Roots : ~InLine(r, n)'
    BY <2>1 DEF Advances
  <2>3. In(early, n)' => ~InPump(n)'
    BY <2>1 DEF Advances
  <2>4. QED
    BY <2>2, <2>3 DEF Advances
<1>3. CASE ~(n > Taken)
  <2>1. printed'[n] = printed[n]
    BY <1>1, <1>3, SameOwner
  <2>2. /\ InPump(n)' => InPump(n) \/ (In(early, n) /\ ~In(early, n)')
        /\ In(early, n)' => In(early, n) \/ (InPump(n) /\ ~InPump(n)')
        /\ n \in Given' => \/ n \in Given
                           \/ (InPump(n) \/ In(early, n)) /\ ~InPump(n)' /\ ~In(early, n)'
        /\ ~(n \in lost' /\ n \in refused')
    BY <1>3 DEF Advances
  <2>3. /\ In(early, n) => ~InPump(n) /\ n \notin Given
        /\ n \in Given => ~InPump(n)
    BY DEF Parted
  <2>4. /\ In(early, n)' => ~InPump(n)' /\ n \notin Given'
        /\ n \in Given' => ~InPump(n)'
    BY <2>2, <2>3
  <2>5. ASSUME NEW r \in Roots, InLine(r, n)'
        PROVE  r = Root[printed'[n]] /\ ~InPump(n)' /\ ~In(early, n)' /\ n \notin Given'
    <3>1. CASE InLine(r, n)
      BY <2>1, <2>2, <3>1 DEF Parted
    <3>2. CASE /\ InPump(n) /\ r = Root[printed[n]]
               /\ ~InPump(n)' /\ ~In(early, n)' /\ n \notin Given'
      BY <2>1, <3>2
    <3>3. QED
      BY <2>5, <3>1, <3>2 DEF Advances
  <2>6. QED
    BY <2>2, <2>4, <2>5
<1>4. QED
  BY <1>2, <1>3

LEMMA ApartKept ==
  ASSUME NEW r \in Roots, Apart(r),
         delivered'[r] = delivered[r], worker'[r] = worker[r], fifo'[r] = fifo[r]
  PROVE  Apart(r)'
BY DEF Apart, Distinct, In

\* A step that moves no event.
LEMMA NoneMoves ==
  ASSUME IInv, OInv, Grows,
         UNCHANGED <<queued, hand, early, lost, refused, delivered, worker, fifo>>
  PROVE  OInv'
<1>1. Parted'
  <2>1. \A n : (InPump(n)' <=> InPump(n)) /\ (n \in Given' <=> n \in Given)
               /\ (In(early, n)' <=> In(early, n))
    BY DEF InPump, Given
  <2>2. \A r \in Roots, n \in Numbers : InLine(r, n)' <=> InLine(r, n)
    BY DEF InLine
  <2>3. \A n \in Numbers : ~(n \in lost' /\ n \in refused')
    BY DEF OInv, Parted
  <2>4. Advances
    BY <2>1, <2>2, <2>3 DEF Advances
  <2>5. QED
    BY <2>4, PartedKept DEF OInv
<1>2. ASSUME NEW r \in Roots PROVE Apart(r)'
  BY ApartKept DEF OInv
<1>3. QED
  BY <1>1, <1>2 DEF OInv

LEMMA RejectsOnce ==
  ASSUME IInv, OInv, NEW x \in Created, SetupRejected(x) PROVE OInv'
<1> USE DEF pumpVars, fifoVars
<1>1. Grows
  BY StillGrows DEF IInv, SetupRejected
<1>2. PICK callbacks \in SUBSET ToSet(early) :
        refused' = refused \union callbacks /\ lost' = lost \union (ToSet(early) \ callbacks)
  BY DEF SetupRejected, Discard
<1>3. \A n : n \in ToSet(early) <=> In(early, n)
  <2>1. early \in Seq(Numbers)
    BY DEF IInv, TypeOK
  <2>2. DOMAIN early = 1..Len(early)
    BY <2>1
  <2>3. QED
    BY <2>2, Zenon DEF ToSet, In
<1>4. /\ early' = <<>> /\ UNCHANGED <<queued, hand, delivered, worker, fifo>>
  BY DEF SetupRejected, EarlyAfterFailure, Discard
<1>5. \A n \in Numbers : ~In(early, n)' /\ (InPump(n)' <=> InPump(n))
  BY <1>4, Nowhere DEF InPump
<1>6. \A n \in Numbers : n \in Given' <=> n \in Given \/ In(early, n)
  BY <1>2, <1>3 DEF Given
<1>7. \A n \in Numbers : ~(n \in lost' /\ n \in refused')
  BY <1>2, <1>3 DEF OInv, Parted, Given
<1>8. \A r \in Roots, n \in Numbers : InLine(r, n)' <=> InLine(r, n)
  BY <1>4 DEF InLine
<1>9. \A n \in Numbers : In(early, n) => ~InPump(n)
  BY DEF OInv, Parted
<1>10. Advances
  BY <1>5, <1>6, <1>7, <1>8, <1>9 DEF Advances
<1>11. \A r \in Roots : Apart(r)'
  BY <1>4, ApartKept DEF OInv
<1>12. QED
  BY <1>1, <1>10, <1>11, PartedKept DEF OInv

LEMMA EmitsOnce ==
  ASSUME IInv, OInv, NEW t \in Threads, ChildEmits(t) PROVE OInv'
<1> USE DEF pumpVars, fifoVars, histVars
<1>1. printed \in Seq(Threads) /\ events \in Seq(Numbers) /\ Len(printed) < MaxEvents
      /\ printed' = Append(printed, t) /\ events' = Append(events, Len(printed) + 1)
  BY DEF ChildEmits, IInv, TypeOK
<1>2. /\ Len(printed) \in Nat /\ Len(printed') = Len(printed) + 1
      /\ \A i \in 1..Len(printed) : printed'[i] = printed[i]
  BY <1>1, AtEnd
<1>3. Len(events) \in Nat /\ Len(events') = Len(events) + 1
  BY <1>1
<1>4. Taken' = Taken /\ Taken \in Nat
  BY <1>2, <1>3, Sizes DEF Taken, IInv
<1>5. Grows
  BY <1>2, <1>4 DEF Grows
<1>6. QED
  BY <1>5, NoneMoves DEF ChildEmits

\* A line that gets a marker, or an event of its session that is nowhere else.
LEMMA GetsOnce ==
  ASSUME IInv, OInv, NEW r \in Roots, NEW e \in Numbers \union Waiters, Grew(r, e),
         delivered' = delivered, e \in Numbers => ~InLine(r, e)
  PROVE  /\ \A q \in Roots : Apart(q)'
         /\ \A q \in Roots, n \in Numbers : InLine(q, n)' <=> InLine(q, n) \/ (q = r /\ n = e)
<1>1. fifo[r] \in Seq(Numbers \union Waiters) /\ fifo'[r] = Append(fifo[r], e) /\ worker' = worker
      /\ \A q \in Roots \ {r} : fifo'[q] = fifo[q]
  BY DEF IInv, TypeOK, Grew
<1>2. /\ Len(fifo[r]) \in Nat
      /\ \A i \in 1..Len(fifo[r]) : fifo'[r][i] = fifo[r][i]
      /\ fifo'[r][Len(fifo[r]) + 1] = e
      /\ \A i \in 1..Len(fifo'[r]) : i \in 1..Len(fifo[r]) \/ i = Len(fifo[r]) + 1
      /\ \A n : In(fifo'[r], n) <=> In(fifo[r], n) \/ n = e
  BY <1>1, AtEnd, SMTT(60)
<1>3. \A i \in 1..Len(fifo[r]) : fifo[r][i] \in Numbers => In(fifo[r], fifo[r][i])
  BY DEF In
<1>4. Apart(r)
  BY DEF OInv
<1>5. \A i \in 1..Len(fifo[r]) : e \in Numbers => fifo[r][i] # e
  BY <1>3 DEF InLine
<1>6. Distinct(fifo'[r])
  <2> SUFFICES ASSUME NEW i \in 1..Len(fifo'[r]), NEW j \in 1..Len(fifo'[r]),
                      fifo'[r][i] = fifo'[r][j], fifo'[r][i] \in Numbers
               PROVE  i = j
    BY DEF Distinct
  <2>1. CASE i \in 1..Len(fifo[r]) /\ j \in 1..Len(fifo[r])
    BY <1>2, <1>4, <2>1 DEF Apart, Distinct
  <2>2. CASE i = Len(fifo[r]) + 1 /\ j \in 1..Len(fifo[r])
    BY <1>2, <1>5, <2>2
  <2>3. CASE i \in 1..Len(fifo[r]) /\ j = Len(fifo[r]) + 1
    BY <1>2, <1>5, <2>3
  <2>4. QED
    BY <1>2, <2>1, <2>2, <2>3
<1>7. Apart(r)'
  <2>1. \A n \in Numbers : n = e => ~In(delivered[r], n) /\ worker[r] # n
    BY DEF InLine
  <2>2. QED
    BY <1>1, <1>2, <1>4, <1>6, <2>1 DEF Apart
<1>8. \A q \in Roots \ {r} : Apart(q)'
  BY <1>1, ApartKept DEF OInv
<1>9. \A q \in Roots, n \in Numbers : InLine(q, n)' <=> InLine(q, n) \/ (q = r /\ n = e)
  <2> SUFFICES ASSUME NEW q \in Roots, NEW n \in Numbers
               PROVE  InLine(q, n)' <=> InLine(q, n) \/ (q = r /\ n = e)
    OBVIOUS
  <2>1. CASE q = r
    BY <1>1, <1>2, <2>1 DEF InLine
  <2>2. CASE q # r
    BY <1>1, <2>2 DEF InLine
  <2>3. QED
    BY <2>1, <2>2
<1>10. QED
  BY <1>7, <1>8, <1>9

LEMMA FinishesOnce ==
  ASSUME IInv, OInv, PumpFinishes PROVE OInv'
<1> USE DEF histVars, taskVars
<1>1. Grows
  BY StillGrows DEF IInv, PumpFinishes
<1>2. registered \in Waiters /\ UNCHANGED <<queued, hand, early, lost, refused, delivered>>
  BY DEF PumpFinishes, IInv, TypeOK
<1>3. PICK r \in Roots : Enqueue(r, registered)
  <2>1. registered \in Created => registered \in Roots
    OBVIOUS
  <2>2. registered \notin Created => Target[registered] \in Roots
    BY <1>2
  <2>3. QED
    BY <2>1, <2>2 DEF PumpFinishes
<1>4. CASE Grew(r, registered)
  <2>1. registered \notin Numbers
    BY <1>2
  <2>2. /\ \A q \in Roots : Apart(q)'
        /\ \A q \in Roots, n \in Numbers : InLine(q, n)' <=> InLine(q, n)
    BY <1>2, <1>4, <2>1, GetsOnce
  <2>3. \A n : (InPump(n)' <=> InPump(n)) /\ (n \in Given' <=> n \in Given)
               /\ (In(early, n)' <=> In(early, n))
    BY <1>2 DEF InPump, Given
  <2>4. \A n \in Numbers : ~(n \in lost' /\ n \in refused')
    BY <1>2 DEF OInv, Parted
  <2>5. Advances
    BY <2>2, <2>3, <2>4 DEF Advances
  <2>6. QED
    BY <1>1, <2>2, <2>5, PartedKept DEF OInv
<1>5. CASE UNCHANGED fifoVars
  BY <1>1, <1>2, <1>5, NoneMoves DEF fifoVars
<1>6. QED
  BY <1>2, <1>3, <1>4, <1>5, Enqueued DEF IInv

LEMMA RegistersOnce ==
  ASSUME IInv, OInv, PumpRegisters PROVE OInv'
<1> USE DEF histVars, taskVars, fifoVars
<1>1. Grows
  BY StillGrows DEF IInv, PumpRegisters
<1>2. /\ hand = Nobody /\ queued = <<>> /\ queued' = early /\ early' = <<>>
      /\ UNCHANGED <<hand, lost, refused, delivered, worker, fifo>>
  BY DEF PumpRegisters, PumpIdle
<1>3. \A n \in Numbers : ~In(early, n)' /\ ~InPump(n) /\ (InPump(n)' <=> In(early, n))
  BY <1>2, Nowhere DEF InPump
<1>4. \A n : n \in Given' <=> n \in Given
  BY <1>2 DEF Given
<1>5. \A r \in Roots, n \in Numbers : InLine(r, n)' <=> InLine(r, n)
  BY <1>2 DEF InLine
<1>6. \A n \in Numbers : ~(n \in lost' /\ n \in refused')
  BY <1>2 DEF OInv, Parted
<1>7. Advances
  BY <1>3, <1>4, <1>5, <1>6 DEF Advances
<1>8. \A r \in Roots : Apart(r)'
  BY <1>2, ApartKept DEF OInv
<1>9. QED
  BY <1>1, <1>7, <1>8, PartedKept DEF OInv

LEMMA FencesOnce ==
  ASSUME IInv, OInv, PumpFences PROVE OInv'
<1> USE DEF histVars, taskVars, fifoVars
<1>1. /\ queued = <<>> /\ queued' = events /\ events \in Seq(Numbers)
      /\ UNCHANGED <<printed, hand, early, lost, refused, delivered, worker, fifo>>
  BY DEF PumpFences, PumpIdle, Captured, IInv, TypeOK
<1>2. Len(events') \in Nat /\ Len(events') = 0
  BY <1>1 DEF PumpFences, Captured
<1>3. /\ Taken \in Nat /\ Taken' = Len(printed) /\ Taken <= Taken' /\ Len(printed) \in Nat
  BY <1>1, <1>2, Sizes DEF Taken, IInv
<1>4. Grows
  BY <1>1, <1>3 DEF Grows
<1>5. \A n \in Numbers : InPump(n)' => InPump(n) \/ n > Taken
  <2> SUFFICES ASSUME NEW n \in Numbers, In(events, n) PROVE n > Taken
    BY <1>1 DEF InPump
  <2>1. PICK i \in 1..Len(events) : events[i] = n
    BY DEF In
  <2>2. n = Taken + i /\ i > 0
    BY <1>1, <2>1 DEF IInv, ChannelExact
  <2>3. QED
    BY <1>3, <2>2
<1>6. \A n : (n \in Given' <=> n \in Given) /\ (In(early, n)' <=> In(early, n))
  BY <1>1 DEF Given
<1>7. \A r \in Roots, n \in Numbers : InLine(r, n)' <=> InLine(r, n)
  BY <1>1 DEF InLine
<1>8. \A n \in Numbers : ~(n \in lost' /\ n \in refused')
  BY <1>1 DEF OInv, Parted
<1>9. Advances
  BY <1>5, <1>6, <1>7, <1>8 DEF Advances
<1>10. \A r \in Roots : Apart(r)'
  BY <1>1, ApartKept DEF OInv
<1>11. QED
  BY <1>4, <1>9, <1>10, PartedKept DEF OInv

LEMMA TakesOnce ==
  ASSUME IInv, OInv, PumpTakes PROVE OInv'
<1> USE DEF histVars, taskVars, fifoVars
<1>1. /\ queued \in Seq(Numbers) /\ events \in Seq(Numbers) /\ early \in Seq(Numbers)
      /\ UNCHANGED <<printed, lost, refused, delivered, worker, fifo>> /\ hand = Nobody
  BY DEF PumpTakes, IInv, TypeOK
<1>2. /\ Taken \in Nat /\ Len(printed) \in Nat /\ Len(events) \in Nat
  BY Sizes DEF IInv
<1>3. PICK n \in Numbers :
        /\ \/ hand' = n /\ early' = early
           \/ hand' = hand /\ early' \in {early, Append(early, n)}
        /\ \/ /\ queued # <<>> /\ n = Head(queued) /\ queued' = Tail(queued)
              /\ events' = events /\ early' = early
           \/ /\ queued = <<>> /\ events # <<>> /\ n = Head(events)
              /\ queued' = queued /\ events' = Tail(events)
  <2>1. CASE queued # <<>>
    <3>1. Head(queued \o events) = Head(queued) /\ Head(queued) \in Numbers
      BY <1>1, <2>1, FromFront
    <3>2. registered # Nobody
      BY <2>1 DEF IInv, PumpSound
    <3>3. hand' = Head(queued) /\ queued' = Tail(queued) /\ events' = events /\ early' = early
      BY <2>1, <3>1, <3>2 DEF PumpTakes, Parked
    <3>4. QED
      BY <2>1, <3>1, <3>3
  <2>2. CASE queued = <<>>
    <3>1. Head(queued \o events) = Head(events) /\ events # <<>> /\ Head(events) \in Numbers
      BY <1>1, <2>2 DEF PumpTakes
    <3>2. queued' = queued /\ events' = Tail(events)
      BY <2>2 DEF PumpTakes
    <3>3. \/ hand' = Head(events) /\ early' = early
          \/ hand' = hand /\ early' \in {early, Append(early, Head(events))}
      BY <3>1 DEF PumpTakes
    <3>4. QED
      BY <2>2, <3>1, <3>2, <3>3
  <2>3. QED
    BY <2>1, <2>2
<1>4. Grows
  <2>1. CASE events' = events
    BY <1>1, <2>1, StillGrows DEF IInv
  <2>2. CASE events # <<>> /\ events' = Tail(events)
    <3>1. Len(events') = Len(events) - 1
      BY <1>1, <2>2
    <3>2. Taken' = Taken + 1
      BY <1>1, <1>2, <3>1 DEF Taken
    <3>3. QED
      BY <1>1, <1>2, <3>2 DEF Grows
  <2>3. QED
    BY <1>3, <2>1, <2>2
<1>5. \A m : In(early, m)' => In(early, m) \/ (m = n /\ early' # early)
  <2>1. \A m : In(Append(early, n), m) <=> In(early, m) \/ m = n
    <3>1. PICK S : S = Numbers
      OBVIOUS
    <3>2. early \in Seq(S) /\ n \in S
      BY <1>1, <3>1
    <3>3. QED
      BY <3>2, AtEnd
  <2>2. early' = early \/ early' = Append(early, n)
    BY <1>3
  <2>3. CASE early' = early
    BY <2>3
  <2>4. CASE early' = Append(early, n)
    <3>1. early # Append(early, n)
      BY <1>1
    <3>2. QED
      BY <2>1, <2>4, <3>1
  <2>5. QED
    BY <2>2, <2>3, <2>4
<1>6. queued = <<>> => n > Taken
  <2> SUFFICES ASSUME queued = <<>> PROVE n > Taken
    OBVIOUS
  <2>1. events # <<>> /\ n = Head(events)
    BY <1>3
  <2>2. n = events[1] /\ 1 \in 1..Len(events)
    BY <1>1, <2>1
  <2>3. n = Taken + 1
    BY <2>2 DEF IInv, ChannelExact
  <2>4. QED
    BY <1>2, <2>3
<1>7. \A m \in Numbers : InPump(m)' => InPump(m) \/ m > Taken
  <2>1. CASE queued # <<>>
    <3>1. \A m : In(queued, m) <=> m = Head(queued) \/ In(Tail(queued), m)
      BY <1>1, <2>1, FromFront
    <3>2. n = Head(queued) /\ queued' = Tail(queued) /\ hand' \in {n, hand}
      BY <1>3, <2>1
    <3>3. QED
      BY <3>1, <3>2 DEF InPump
  <2>2. CASE queued = <<>>
    <3>1. queued' = queued /\ hand' \in {n, hand}
      BY <1>3, <2>2
    <3>2. QED
      BY <1>6, <2>2, <3>1 DEF InPump
  <2>3. QED
    BY <2>1, <2>2
<1>8. \A m \in Numbers : In(early, m)' => In(early, m) \/ (m > Taken /\ ~InPump(m)')
  <2> SUFFICES ASSUME NEW m \in Numbers, In(early, m)', ~In(early, m)
               PROVE  m > Taken /\ ~InPump(m)'
    OBVIOUS
  <2>1. m = n /\ early' # early
    BY <1>5
  <2>2. queued = <<>> /\ queued' = queued /\ hand' = hand
    BY <1>3, <2>1
  <2>3. ~InPump(m)'
    BY <1>1, <2>2, Nowhere DEF InPump
  <2>4. QED
    BY <1>6, <2>1, <2>2, <2>3
<1>9. \A m : m \in Given' <=> m \in Given
  BY <1>1 DEF Given
<1>10. \A r \in Roots, m \in Numbers : InLine(r, m)' <=> InLine(r, m)
  BY <1>1 DEF InLine
<1>11. \A m \in Numbers : ~(m \in lost' /\ m \in refused')
  BY <1>1 DEF OInv, Parted
<1>12. Advances
  BY <1>7, <1>8, <1>9, <1>10, <1>11 DEF Advances
<1>13. \A r \in Roots : Apart(r)'
  BY <1>1, ApartKept DEF OInv
<1>14. QED
  BY <1>4, <1>12, <1>13, PartedKept DEF OInv

LEMMA RoutesOnce ==
  ASSUME IInv, OInv, PumpRoutes PROVE OInv'
<1> USE DEF taskVars
<1>1. PICK e \in Numbers : e = hand
  BY DEF PumpRoutes, IInv, TypeOK
<1>2. /\ hand' = Nobody /\ UNCHANGED <<printed, events, queued, early>>
      /\ queued \in Seq(Numbers)
  BY DEF PumpRoutes, IInv, TypeOK
<1>3. Grows /\ Taken \in Nat
  BY <1>2, StillGrows, Sizes DEF IInv
<1>4. InPump(e) /\ ~In(queued, e)
  <2>1. \A i \in 1..Len(queued) : e < queued[i] /\ queued[i] \in Numbers
    BY <1>1, <1>2 DEF IInv, PumpSound
  <2>2. QED
    BY <1>1, <2>1 DEF In, InPump
<1>5. \A n \in Numbers : InPump(n)' <=> InPump(n) /\ n # e
  BY <1>1, <1>2, <1>4 DEF InPump
<1>6. /\ ~In(early, e) /\ e \notin Given /\ \A r \in Roots : ~InLine(r, e)
  BY <1>4 DEF OInv, Parted
<1>7. PICK r \in Roots : r = Root[printed[e]]
  <2>1. e \in 1..Len(printed)
    BY <1>1, Sizes DEF IInv, PumpSound
  <2>2. QED
    BY <2>1, OwnersKnown DEF IInv
<1>8. \A n : In(early, n)' <=> In(early, n)
  BY <1>2
<1>9. CASE Enqueue(r, e) /\ UNCHANGED histVars
  <2>1. \A n : n \in Given' <=> n \in Given
    BY <1>9 DEF Given, histVars
  <2>2. \A n \in Numbers : ~(n \in lost' /\ n \in refused')
    BY <1>9 DEF OInv, Parted, histVars
  <2>3. CASE Grew(r, e)
    <3>1. /\ \A q \in Roots : Apart(q)'
          /\ \A q \in Roots, n \in Numbers : InLine(q, n)' <=> InLine(q, n) \/ (q = r /\ n = e)
      BY <1>6, <1>9, <2>3, GetsOnce DEF histVars
    <3>2. Advances
      BY <1>4, <1>5, <1>6, <1>7, <1>8, <2>1, <2>2, <3>1 DEF Advances
    <3>3. QED
      BY <1>3, <3>1, <3>2, PartedKept DEF OInv
  <2>4. CASE UNCHANGED fifoVars
    <3>1. \A q \in Roots, n \in Numbers : InLine(q, n)' <=> InLine(q, n)
      BY <1>9, <2>4 DEF InLine, fifoVars, histVars
    <3>2. Advances
      BY <1>5, <1>8, <2>1, <2>2, <3>1 DEF Advances
    <3>3. \A q \in Roots : Apart(q)'
      BY <1>9, <2>4, ApartKept DEF OInv, fifoVars, histVars
    <3>4. QED
      BY <1>3, <3>2, <3>3, PartedKept DEF OInv
  <2>5. QED
    BY <1>9, <2>3, <2>4, Enqueued DEF IInv
<1>10. CASE Discard({hand}) /\ UNCHANGED <<fifoVars, broken>>
  <2>1. PICK callbacks \in SUBSET {e} :
          refused' = refused \union callbacks /\ lost' = lost \union ({e} \ callbacks)
    BY <1>1, <1>10 DEF Discard
  <2>2. \A n : n \in Given' <=> n \in Given \/ n = e
    BY <2>1 DEF Given
  <2>3. \A n \in Numbers : ~(n \in lost' /\ n \in refused')
    BY <1>6, <2>1 DEF OInv, Parted, Given
  <2>4. \A q \in Roots, n \in Numbers : InLine(q, n)' <=> InLine(q, n)
    BY <1>10 DEF InLine, fifoVars, Discard
  <2>5. Advances
    BY <1>4, <1>5, <1>6, <1>8, <2>2, <2>3, <2>4 DEF Advances
  <2>6. \A q \in Roots : Apart(q)'
    BY <1>10, ApartKept DEF OInv, fifoVars, Discard
  <2>7. QED
    BY <1>3, <2>5, <2>6, PartedKept DEF OInv
<1>11. QED
  BY <1>1, <1>7, <1>9, <1>10 DEF PumpRoutes, OwnerOf

LEMMA PopsOnce ==
  ASSUME IInv, OInv, NEW r \in Roots, WorkerTakes(r), fifo[r] # <<>> PROVE OInv'
<1> USE DEF pumpVars, taskVars, histVars
<1>1. /\ fifo[r] \in Seq(Numbers \union Waiters) /\ worker[r] = Nobody
      /\ worker' = [worker EXCEPT ![r] = Head(fifo[r])] /\ fifo' = [fifo EXCEPT ![r] = Tail(fifo[r])]
      /\ UNCHANGED <<printed, events, queued, hand, early, delivered, lost, refused>>
      /\ fifo \in [Roots -> Seq(Numbers \union Waiters)]
      /\ worker \in [Roots -> Numbers \union Waiters \union {Nobody}]
  BY DEF WorkerTakes, IInv, TypeOK
<1>2. Grows
  BY <1>1, StillGrows DEF IInv
<1>3. PICK S : S = Numbers \union Waiters
  OBVIOUS
<1>3a. fifo[r] \in Seq(S) /\ fifo[r] # <<>>
  BY <1>1, <1>3
<1>4. PICK e \in S : e = Head(fifo[r])
  BY <1>3a, FromFront
<1>5. /\ fifo'[r] = Tail(fifo[r]) /\ worker'[r] = e
      /\ \A q \in Roots \ {r} : fifo'[q] = fifo[q] /\ worker'[q] = worker[q]
  BY <1>1, <1>4
<1>6. /\ Len(fifo[r]) \in Nat \ {0} /\ e = fifo[r][1] /\ 1 \in 1..Len(fifo[r])
      /\ \A i \in 1..Len(fifo'[r]) : fifo'[r][i] = fifo[r][i + 1] /\ i + 1 \in 1..Len(fifo[r])
      /\ \A n : In(fifo[r], n) <=> n = e \/ In(fifo'[r], n)
      /\ Len(fifo'[r]) \in Nat
  BY <1>4, <1>5, <1>3a, FromFront
<1>7. Apart(r)
  BY DEF OInv
<1>8. Distinct(fifo'[r])
  <2> SUFFICES ASSUME NEW i \in 1..Len(fifo'[r]), NEW j \in 1..Len(fifo'[r]),
                      fifo'[r][i] = fifo'[r][j], fifo'[r][i] \in Numbers
               PROVE  i = j
    BY DEF Distinct
  <2>1. i + 1 \in 1..Len(fifo[r]) /\ j + 1 \in 1..Len(fifo[r])
        /\ fifo[r][i + 1] = fifo[r][j + 1] /\ fifo[r][i + 1] \in Numbers
    BY <1>6
  <2>2. i + 1 = j + 1
    BY <1>7, <2>1 DEF Apart, Distinct
  <2>3. QED
    BY <2>2
<1>9. e \in Numbers => ~In(fifo'[r], e)
  <2> SUFFICES ASSUME e \in Numbers, NEW i \in 1..Len(fifo'[r]), fifo'[r][i] = e PROVE FALSE
    BY DEF In
  <2>1. fifo[r][1] = fifo[r][i + 1] /\ i + 1 \in 1..Len(fifo[r]) /\ fifo[r][1] \in Numbers
    BY <1>6
  <2>2. 1 = i + 1
    BY <1>6, <1>7, <2>1 DEF Apart, Distinct
  <2>3. QED
    BY <1>6, <2>2
<1>10. Apart(r)'
  BY <1>1, <1>5, <1>6, <1>7, <1>8, <1>9 DEF Apart
<1>11. \A q \in Roots \ {r} : Apart(q)'
  BY <1>1, <1>5, ApartKept DEF OInv
<1>12. \A q \in Roots, n \in Numbers : InLine(q, n)' <=> InLine(q, n)
  <2> SUFFICES ASSUME NEW q \in Roots, NEW n \in Numbers PROVE InLine(q, n)' <=> InLine(q, n)
    OBVIOUS
  <2>1. CASE q = r
    BY <1>1, <1>5, <1>6, <2>1 DEF InLine
  <2>2. CASE q # r
    BY <1>1, <1>5, <2>2 DEF InLine
  <2>3. QED
    BY <2>1, <2>2
<1>13. \A n : (InPump(n)' <=> InPump(n)) /\ (n \in Given' <=> n \in Given)
              /\ (In(early, n)' <=> In(early, n))
  BY <1>1 DEF InPump, Given
<1>14. \A n \in Numbers : ~(n \in lost' /\ n \in refused')
  BY <1>1 DEF OInv, Parted
<1>15. Advances
  BY <1>12, <1>13, <1>14 DEF Advances
<1>16. QED
  BY <1>2, <1>10, <1>11, <1>15, PartedKept DEF OInv

LEMMA AnswersOnce ==
  ASSUME IInv, OInv, NEW r \in Roots, WorkerAnswers(r) PROVE OInv'
<1> USE DEF pumpVars, histVars
<1>1. /\ worker[r] \in Waiters /\ worker' = [worker EXCEPT ![r] = Nobody]
      /\ worker \in [Roots -> Numbers \union Waiters \union {Nobody}]
      /\ UNCHANGED <<printed, events, queued, hand, early, fifo, delivered, lost, refused>>
  BY DEF WorkerAnswers, IInv, TypeOK
<1>2. Grows
  BY <1>1, StillGrows DEF IInv
<1>3. worker'[r] = Nobody /\ worker[r] \notin Numbers /\ \A q \in Roots \ {r} : worker'[q] = worker[q]
  BY <1>1
<1>4. Nobody \notin Numbers
  OBVIOUS
<1>5. \A q \in Roots, n \in Numbers : worker'[q] = n <=> worker[q] = n
  BY <1>3, <1>4
<1>6. \A q \in Roots : Apart(q)'
  BY <1>1, <1>5 DEF OInv, Apart, Distinct
<1>7. \A q \in Roots, n \in Numbers : InLine(q, n)' <=> InLine(q, n)
  BY <1>1, <1>5 DEF InLine
<1>8. \A n : (InPump(n)' <=> InPump(n)) /\ (n \in Given' <=> n \in Given)
             /\ (In(early, n)' <=> In(early, n))
  BY <1>1 DEF InPump, Given
<1>9. \A n \in Numbers : ~(n \in lost' /\ n \in refused')
  BY <1>1 DEF OInv, Parted
<1>10. Advances
  BY <1>7, <1>8, <1>9 DEF Advances
<1>11. QED
  BY <1>2, <1>6, <1>10, PartedKept DEF OInv

LEMMA DeliversOnce ==
  ASSUME IInv, OInv, NEW r \in Roots, WorkerDelivers(r) PROVE OInv'
<1> USE DEF pumpVars, taskVars
<1>1. /\ worker' = [worker EXCEPT ![r] = Nobody]
      /\ delivered' = [delivered EXCEPT ![r] = Append(delivered[r], worker[r])]
      /\ worker \in [Roots -> Numbers \union Waiters \union {Nobody}]
      /\ delivered \in [Roots -> Seq(Numbers)]
      /\ UNCHANGED <<printed, events, queued, hand, early, fifo, lost, refused>>
  BY DEF WorkerDelivers, IInv, TypeOK
<1>2. Grows
  BY <1>1, StillGrows DEF IInv
<1>3. PICK e \in Numbers : e = worker[r]
  BY <1>1 DEF WorkerDelivers
<1>4. /\ worker'[r] = Nobody /\ Nobody \notin Numbers /\ delivered[r] \in Seq(Numbers)
      /\ delivered'[r] = Append(delivered[r], e)
      /\ \A q \in Roots \ {r} : worker'[q] = worker[q] /\ delivered'[q] = delivered[q]
  BY <1>1, <1>3
<1>5. /\ Len(delivered[r]) \in Nat
      /\ \A i \in 1..Len(delivered[r]) : delivered'[r][i] = delivered[r][i]
      /\ delivered'[r][Len(delivered[r]) + 1] = e
      /\ \A i \in 1..Len(delivered'[r]) : i \in 1..Len(delivered[r]) \/ i = Len(delivered[r]) + 1
      /\ \A n : In(delivered'[r], n) <=> In(delivered[r], n) \/ n = e
  <2>1. PICK S : S = Numbers
    OBVIOUS
  <2>2. delivered[r] \in Seq(S) /\ e \in S
    BY <1>4, <2>1
  <2>3. QED
    BY <1>4, <2>2, AtEnd
<1>6. Apart(r) /\ ~In(delivered[r], e) /\ ~In(fifo[r], e)
  BY <1>3 DEF OInv, Apart
<1>7. Distinct(delivered'[r])
  <2> SUFFICES ASSUME NEW i \in 1..Len(delivered'[r]), NEW j \in 1..Len(delivered'[r]),
                      delivered'[r][i] = delivered'[r][j], delivered'[r][i] \in Numbers
               PROVE  i = j
    BY DEF Distinct
  <2>1. CASE i \in 1..Len(delivered[r]) /\ j \in 1..Len(delivered[r])
    BY <1>5, <1>6, <2>1 DEF Apart, Distinct
  <2>2. \A k \in 1..Len(delivered[r]) : delivered[r][k] # e
    BY <1>6 DEF In
  <2>3. QED
    BY <1>5, <2>1, <2>2
<1>8. Apart(r)'
  BY <1>1, <1>4, <1>5, <1>6, <1>7 DEF Apart
<1>9. \A q \in Roots \ {r} : Apart(q)'
  BY <1>1, <1>4, ApartKept DEF OInv
<1>10. \A q \in Roots, n \in Numbers : InLine(q, n)' <=> InLine(q, n)
  <2> SUFFICES ASSUME NEW q \in Roots, NEW n \in Numbers PROVE InLine(q, n)' <=> InLine(q, n)
    OBVIOUS
  <2>1. CASE q = r
    BY <1>1, <1>3, <1>4, <1>5, <2>1 DEF InLine
  <2>2. CASE q # r
    BY <1>1, <1>4, <2>2 DEF InLine
  <2>3. QED
    BY <2>1, <2>2
<1>11. \A n : (InPump(n)' <=> InPump(n)) /\ (n \in Given' <=> n \in Given)
              /\ (In(early, n)' <=> In(early, n))
  BY <1>1 DEF InPump, Given
<1>12. \A n \in Numbers : ~(n \in lost' /\ n \in refused')
  BY <1>1 DEF OInv, Parted
<1>13. Advances
  BY <1>10, <1>11, <1>12 DEF Advances
<1>14. QED
  BY <1>2, <1>8, <1>9, <1>13, PartedKept DEF OInv

LEMMA StepKeepsOnce == IInv /\ OInv /\ [Next]_vars => OInv'
<1> SUFFICES ASSUME IInv, OInv, [Next]_vars PROVE OInv'
  OBVIOUS
<1>1. CASE \E t \in Threads : ChildEmits(t)
  BY <1>1, EmitsOnce
<1>2. CASE PumpStep
  BY <1>2, FinishesOnce, RegistersOnce, FencesOnce, TakesOnce, RoutesOnce DEF PumpStep
<1>3. ASSUME UNCHANGED <<printed, events, queued, hand, early, lost, refused, delivered, worker, fifo>>
      PROVE  OInv'
  BY <1>3, StillGrows, NoneMoves DEF IInv
<1>4. CASE PumpFails \/ UNCHANGED vars
  BY <1>3, <1>4 DEF PumpFails, vars, pumpVars, fifoVars, taskVars, histVars
<1>5. ASSUME NEW r \in Roots, WorkerStep(r) PROVE OInv'
  <2>1. CASE WorkerTakes(r) /\ fifo[r] = <<>>
    BY <1>3, <2>1 DEF WorkerTakes, pumpVars, taskVars, histVars
  <2>2. QED
    BY <1>5, <2>1, PopsOnce, AnswersOnce, DeliversOnce DEF WorkerStep
<1>6. ASSUME NEW x \in Created, CreationStep(x) PROVE OInv'
  <2>1. CASE SetupBegins(x) \/ SetupAccepted(x) \/ SetupUnusable(x)
    BY <1>3, <2>1 DEF SetupBegins, SetupAccepted, SetupUnusable, pumpVars, fifoVars, histVars
  <2>2. QED
    BY <1>6, <2>1, RejectsOnce DEF CreationStep
<1>7. ASSUME NEW f \in Fences, FenceTaskStep(f) PROVE OInv'
  BY <1>3, <1>7 DEF FenceTaskStep, FenceBegins, FenceTimesOut, FenceLocks, FenceReleases, pumpVars,
                    fifoVars, histVars
<1>8. QED
  BY <1>1, <1>2, <1>4, <1>5, <1>6, <1>7 DEF Next

LEMMA AlwaysOnce == Spec => [](IInv /\ OInv)
BY Initial, StepKeeps, InitiallyOnce, StepKeepsOnce, PTL DEF Spec

LEMMA OneImage ==
  ASSUME NEW place, NEW r, NEW i
  PROVE  {<<place, r, k>> : k \in {i}} = {<<place, r, i>>}
OBVIOUS

\* A line names a place for each time an event is in it.
LEMMA AtMeans ==
  ASSUME NEW S, NEW line \in Seq(S), NEW place, NEW r, NEW n
  PROVE  /\ ~In(line, n) => At(place, r, line, n) = {}
         /\ In(line, n) /\ (\A i, j \in 1..Len(line) : line[i] = n /\ line[j] = n => i = j)
              => \E i : At(place, r, line, n) = {<<place, r, i>>}
<1>1. DOMAIN line = 1..Len(line)
  OBVIOUS
<1>2. ASSUME ~In(line, n) PROVE At(place, r, line, n) = {}
  BY <1>1, <1>2 DEF At, In
<1>3. ASSUME In(line, n), \A i, j \in 1..Len(line) : line[i] = n /\ line[j] = n => i = j
      PROVE  \E i : At(place, r, line, n) = {<<place, r, i>>}
  <2>1. PICK i \in 1..Len(line) : line[i] = n
    BY <1>3 DEF In
  <2>2. {j \in DOMAIN line : line[j] = n} = {i}
    BY <1>1, <1>3, <2>1
  <2>3. At(place, r, line, n) = {<<place, r, k>> : k \in {i}}
    BY <2>2, Zenon DEF At
  <2>4. {<<place, r, k>> : k \in {i}} = {<<place, r, i>>}
    BY OneImage, Zenon
  <2>5. QED
    BY <2>3, <2>4
<1>4. QED
  BY <1>2, <1>3

LEMMA AtOne ==
  ASSUME NEW e, NEW place, NEW r, NEW n
  PROVE  At(place, r, <<e>>, n) = IF e = n THEN {<<place, r, 1>>} ELSE {}
<1>1. DOMAIN <<e>> = {1} /\ <<e>>[1] = e
  OBVIOUS
<1>2. {j \in DOMAIN <<e>> : <<e>>[j] = n} = IF e = n THEN {1} ELSE {}
  BY <1>1
<1>3. QED
  BY <1>2 DEF At

\* Where an event is in the line of a session.
LEMMA LineMeans ==
  ASSUME IInv, OInv, NEW r \in Roots, NEW n \in Numbers
  PROVE  /\ ~InLine(r, n) => Line(r, n) = {}
         /\ InLine(r, n) => \E place : Line(r, n) = {place}
<1>1. fifo[r] \in Seq(Numbers \union Waiters) /\ delivered[r] \in Seq(Numbers)
  BY DEF IInv, TypeOK
<1>2. /\ Apart(r)
      /\ \A i, j \in 1..Len(fifo[r]) : fifo[r][i] = n /\ fifo[r][j] = n => i = j
      /\ \A i, j \in 1..Len(delivered[r]) : delivered[r][i] = n /\ delivered[r][j] = n => i = j
  <2>1. Apart(r)
    BY DEF OInv
  <2>2. ASSUME NEW line, Distinct(line)
        PROVE  \A i, j \in 1..Len(line) : line[i] = n /\ line[j] = n => i = j
    BY <2>2, Zenon DEF Distinct
  <2>3. Distinct(fifo[r]) /\ Distinct(delivered[r])
    BY <2>1 DEF Apart
  <2>4. QED
    BY <2>1, <2>2, <2>3
<1>3. /\ ~In(fifo[r], n) => At("queue", r, fifo[r], n) = {}
      /\ In(fifo[r], n) => \E i : At("queue", r, fifo[r], n) = {<<"queue", r, i>>}
  <2>1. PICK S : S = Numbers \union Waiters
    OBVIOUS
  <2>2. fifo[r] \in Seq(S)
    BY <1>1, <2>1
  <2>3. QED
    BY <1>2, <2>2, AtMeans
<1>4. /\ ~In(delivered[r], n) => At("client", r, delivered[r], n) = {}
      /\ In(delivered[r], n) => \E i : At("client", r, delivered[r], n) = {<<"client", r, i>>}
  <2>1. PICK S : S = Numbers
    OBVIOUS
  <2>2. delivered[r] \in Seq(S)
    BY <1>1, <2>1
  <2>3. QED
    BY <1>2, <2>2, AtMeans
<1>5. /\ worker[r] # n => At("worker", r, <<worker[r]>>, n) = {}
      /\ worker[r] = n => At("worker", r, <<worker[r]>>, n) = {<<"worker", r, 1>>}
  <2>1. At("worker", r, <<worker[r]>>, n) = IF worker[r] = n THEN {<<"worker", r, 1>>} ELSE {}
    BY AtOne, Zenon
  <2>2. QED
    BY <2>1
<1>6. /\ In(delivered[r], n) => worker[r] # n /\ ~In(fifo[r], n)
      /\ worker[r] = n => ~In(fifo[r], n)
  BY <1>2 DEF Apart
<1>7. ASSUME InLine(r, n) PROVE \E place : Line(r, n) = {place}
  <2>1. CASE In(delivered[r], n)
    BY <1>3, <1>4, <1>5, <1>6, <2>1 DEF Line
  <2>2. CASE worker[r] = n
    BY <1>3, <1>4, <1>5, <1>6, <2>2 DEF Line
  <2>3. CASE In(fifo[r], n)
    BY <1>3, <1>4, <1>5, <1>6, <2>3 DEF Line
  <2>4. QED
    BY <1>7, <2>1, <2>2, <2>3 DEF InLine
<1>8. ~InLine(r, n) => Line(r, n) = {}
  BY <1>3, <1>4, <1>5 DEF Line, InLine
<1>9. QED
  BY <1>7, <1>8

\* Of rising numbers none comes twice.
LEMMA RisingIsDistinct ==
  ASSUME NEW line \in Seq(Numbers), Ascends(line), NEW n
  PROVE  \A i, j \in 1..Len(line) : line[i] = n /\ line[j] = n => i = j
<1> SUFFICES ASSUME NEW i \in 1..Len(line), NEW j \in 1..Len(line), line[i] = n, line[j] = n, i # j
             PROVE  FALSE
  OBVIOUS
<1>1. i < j \/ j < i
  OBVIOUS
<1>2. n < n /\ n \in Numbers
  BY <1>1 DEF Ascends
<1>3. QED
  BY <1>2

\* ExactlyOnce for any threads, sessions, creations, callers and capacities: the pump, the
\* parking buffer, the queues and the workers pass an event on whole, and give it up aloud.
THEOREM NoneLostOrDoubled == Spec => []ExactlyOnce
<1>1. ASSUME IInv, OInv PROVE ExactlyOnce
  <2> SUFFICES ASSUME ~broken, NEW n \in Events
               PROVE  \E place \in Places(n) : Places(n) = {place}
    BY DEF ExactlyOnce
  <2> DEFINE Channel == At("channel", Nobody, events, n)
             Prefix  == At("captured", Nobody, queued, n)
             InHand  == At("hand", Nobody, <<hand>>, n)
             Aside   == At("parked", Nobody, early, n)
             Gone    == {<<"given up", Nobody, i>> : i \in {j \in 1 .. 2 : n \in <<lost, refused>>[j]}}
             Lines   == UNION {Line(r, n) : r \in Roots}
  <2>1. /\ events \in Seq(Numbers) /\ queued \in Seq(Numbers) /\ early \in Seq(Numbers)
        /\ n \in Numbers /\ n \in 1..Len(printed) /\ Taken \in Nat /\ Taken <= Len(printed)
        /\ Len(events) \in Nat /\ Len(printed) \in Nat
    BY <1>1, Sizes, OwnersKnown DEF IInv, TypeOK, Events
  <2>2. PICK S : S = Numbers
    OBVIOUS
  <2>3. events \in Seq(S) /\ queued \in Seq(S) /\ early \in Seq(S)
    BY <2>1, <2>2
  <2>4. In(events, n) <=> n > Taken
    <3>1. \A i \in 1..Len(events) : events[i] = Taken + i
      BY <1>1 DEF IInv, ChannelExact
    <3>2. In(events, n) => n > Taken
      BY <2>1, <3>1 DEF In
    <3>3. n > Taken => n - Taken \in 1..Len(events) /\ Taken + (n - Taken) = n
      BY <2>1 DEF Taken
    <3>4. QED
      BY <3>1, <3>2, <3>3 DEF In
  <2>5. /\ n <= Taken => Channel = {}
        /\ n > Taken => \E place : Channel = {place}
    <3>1. \A i, j \in 1..Len(events) : events[i] = n /\ events[j] = n => i = j
      <4>1. \A i \in 1..Len(events) : events[i] = Taken + i
        BY <1>1 DEF IInv, ChannelExact
      <4>2. \A i, j \in 1..Len(events) : Taken + i = Taken + j => i = j
        BY <2>1
      <4>3. QED
        BY <4>1, <4>2
    <3>2. n <= Taken => ~(n > Taken)
      BY <2>1
    <3>3. QED
      BY <2>3, <2>4, <3>1, <3>2, AtMeans
  <2>6. /\ ~In(queued, n) => Prefix = {}
        /\ In(queued, n) => \E place : Prefix = {place}
    <3>1. Ascends(queued)
      BY <1>1 DEF IInv, PumpSound
    <3>2. \A i, j \in 1..Len(queued) : queued[i] = n /\ queued[j] = n => i = j
      BY <2>1, <3>1, RisingIsDistinct
    <3>3. QED
      BY <2>3, <3>2, AtMeans
  <2>7. /\ ~In(early, n) => Aside = {}
        /\ In(early, n) => \E place : Aside = {place}
    <3>1. Ascends(early)
      BY <1>1 DEF IInv, PumpSound
    <3>2. \A i, j \in 1..Len(early) : early[i] = n /\ early[j] = n => i = j
      BY <2>1, <3>1, RisingIsDistinct
    <3>3. QED
      BY <2>3, <3>2, AtMeans
  <2>8. /\ hand # n => InHand = {}
        /\ hand = n => \E place : InHand = {place}
    <3>1. InHand = IF hand = n THEN {<<"hand", Nobody, 1>>} ELSE {}
      BY AtOne, Zenon
    <3>2. QED
      BY <3>1
  <2>9. /\ n \notin Given => Gone = {}
        /\ n \in Given => \E place : Gone = {place}
    <3> DEFINE Which == {j \in 1 .. 2 : n \in <<lost, refused>>[j]}
    <3>1. ~(n \in lost /\ n \in refused)
      BY <1>1, <2>1 DEF OInv, Parted
    <3>2. Which = (IF n \in lost THEN {1} ELSE {}) \union (IF n \in refused THEN {2} ELSE {})
      OBVIOUS
    <3>3. /\ n \notin Given => Which = {}
          /\ n \in Given => \E i : Which = {i}
      BY <3>1, <3>2 DEF Given
    <3>4. \A i : {<<"given up", Nobody, j>> : j \in {i}} = {<<"given up", Nobody, i>>}
      BY OneImage, Zenon
    <3>5. {<<"given up", Nobody, j>> : j \in {}} = {}
      BY Zenon
    <3>6. Gone = {<<"given up", Nobody, i>> : i \in Which}
      BY Zenon
    <3> HIDE DEF Which, Gone
    <3>7. n \notin Given => Gone = {}
      BY <3>3, <3>5, <3>6, Zenon
    <3>8. ASSUME n \in Given PROVE \E place : Gone = {place}
      <4>1. PICK i : Which = {i}
        BY <3>3, <3>8
      <4>2. Gone = {<<"given up", Nobody, i>>}
        BY <3>4, <3>6, <4>1, Zenon
      <4>3. QED
        BY <4>2
    <3>9. QED
      BY <3>7, <3>8
  <2>10. PICK owner \in Roots : owner = Root[printed[n]]
    BY <1>1, <2>1, OwnersKnown DEF IInv
  <2>11. \A r \in Roots : r # owner => ~InLine(r, n)
    BY <1>1, <2>1, <2>10 DEF OInv, Parted
  <2>12. /\ ~InLine(owner, n) => Lines = {}
         /\ InLine(owner, n) => \E place : Lines = {place}
    <3>1. \A r \in Roots : r # owner => Line(r, n) = {}
      BY <1>1, <2>1, <2>11, LineMeans
    <3>2. Lines = Line(owner, n)
      BY <3>1
    <3>3. QED
      BY <1>1, <2>1, <3>2, LineMeans
  <2>13. /\ n > Taken => ~InPump(n) /\ ~In(early, n) /\ n \notin Given /\ ~InLine(owner, n)
         /\ n <= Taken => InPump(n) \/ In(early, n) \/ n \in Given \/ InLine(owner, n)
    <3>1. n > Taken => ~InPump(n) /\ ~In(early, n) /\ n \notin Given /\ ~InLine(owner, n)
      BY <1>1, <2>1, NewToAll
    <3>2. n <= Taken => InPump(n) \/ In(early, n) \/ n \in Given \/ InLine(owner, n)
      BY <1>1, <2>1, <2>10 DEF IInv, KeepsTrack
    <3>3. QED
      BY <3>1, <3>2
  <2>14. /\ In(early, n) => ~InPump(n) /\ n \notin Given
         /\ n \in Given => ~InPump(n)
         /\ InLine(owner, n) => ~InPump(n) /\ ~In(early, n) /\ n \notin Given
    BY <1>1, <2>1 DEF OInv, Parted
  <2>15. ~(hand = n /\ In(queued, n))
    <3>1. \A i \in 1..Len(queued) : hand < queued[i]
      BY <1>1 DEF IInv, PumpSound
    <3>2. ~(n < n)
      BY <2>1
    <3>3. QED
      BY <3>1, <3>2 DEF In
  <2>16. InPump(n) <=> hand = n \/ In(queued, n)
    BY DEF InPump
  <2>17. Places(n) = Channel \union Prefix \union InHand \union Aside \union Gone \union Lines
    BY DEF Places
  <2> HIDE DEF Channel, Prefix, InHand, Aside, Gone, Lines
  <2>18. \E place : Places(n) = {place}
    <3>1. CASE n > Taken
      <4>1. /\ Prefix = {} /\ InHand = {} /\ Aside = {} /\ Gone = {} /\ Lines = {}
            /\ \E place : Channel = {place}
        BY <2>5, <2>6, <2>7, <2>8, <2>9, <2>12, <2>13, <2>16, <3>1
      <4>2. QED
        BY <2>17, <4>1
    <3>2. CASE n <= Taken /\ In(queued, n)
      <4>1. /\ Channel = {} /\ InHand = {} /\ Aside = {} /\ Gone = {} /\ Lines = {}
            /\ \E place : Prefix = {place}
        BY <2>5, <2>6, <2>7, <2>8, <2>9, <2>12, <2>14, <2>15, <2>16, <3>2
      <4>2. QED
        BY <2>17, <4>1
    <3>3. CASE n <= Taken /\ hand = n
      <4>1. /\ Channel = {} /\ Prefix = {} /\ Aside = {} /\ Gone = {} /\ Lines = {}
            /\ \E place : InHand = {place}
        BY <2>5, <2>6, <2>7, <2>8, <2>9, <2>12, <2>14, <2>15, <2>16, <3>3
      <4>2. QED
        BY <2>17, <4>1
    <3>4. CASE n <= Taken /\ In(early, n)
      <4>1. /\ Channel = {} /\ Prefix = {} /\ InHand = {} /\ Gone = {} /\ Lines = {}
            /\ \E place : Aside = {place}
        BY <2>5, <2>6, <2>7, <2>8, <2>9, <2>12, <2>14, <2>16, <3>4
      <4>2. QED
        BY <2>17, <4>1
    <3>5. CASE n <= Taken /\ n \in Given
      <4>1. /\ Channel = {} /\ Prefix = {} /\ InHand = {} /\ Aside = {} /\ Lines = {}
            /\ \E place : Gone = {place}
        BY <2>5, <2>6, <2>7, <2>8, <2>9, <2>12, <2>14, <2>16, <3>5
      <4>2. QED
        BY <2>17, <4>1
    <3>6. CASE n <= Taken /\ InLine(owner, n)
      <4>1. /\ Channel = {} /\ Prefix = {} /\ InHand = {} /\ Aside = {} /\ Gone = {}
            /\ \E place : Lines = {place}
        BY <2>5, <2>6, <2>7, <2>8, <2>9, <2>12, <2>14, <2>16, <3>6
      <4>2. QED
        BY <2>17, <4>1
    <3>7. n > Taken \/ n <= Taken
      BY <2>1
    <3>8. QED
      BY <2>13, <2>16, <3>1, <3>2, <3>3, <3>4, <3>5, <3>6, <3>7
  <2>19. QED
    BY <2>18
<1>2. QED
  BY <1>1, AlwaysOnce, PTL

================================================================================
