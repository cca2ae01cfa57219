------------------------- MODULE HistoryReplayProofs -------------------------
(***************************************************************************)
(* What HistoryReplay promises, proved for any threads, items, pages and   *)
(* limits.                                                                 *)
(*                                                                         *)
(* ViewSettles speaks of the moment when nothing is on its way.  Until     *)
(* then the inductive invariant says why each item will be shown as it is  *)
(* (Follows): it is, a notification that no cutoff covers will tell of it, *)
(* or the replay of a reset has yet to come to it; and of an item that has *)
(* been removed, that whatever is on its way of it is covered (Gone).      *)
(***************************************************************************)
EXTENDS HistoryReplay, SequenceTheorems, TLAPS

----------------------------------------------------------------------------
(* The inductive invariant *)

\* Where a request is, and what it may have asked.
Control ==
  /\ delivery = "request" <=> step \in {"asked", "replay"}
  /\ step = "idle" <=> kind = None
  /\ step = "asked" => kind # "replay" /\ replaying = NoReplay
  /\ kind \in {"rollback", "revert"} => negotiated
  /\ wire # <<>> \/ replaying.reset \/ reconciled => negotiated

\* Which mutations there may be when the client's transcript is to be whole.
Asked ==
  /\ answered.what # None => step = "asked" /\ wire = <<>>
  /\ intact /\ wire # <<>> => step = "asked" /\ Len(wire) = 1
  /\ delivery = "request" /\ replaying.reset => wire = <<>>

\* An item is at one place, in its own thread.
IsAt(i, n) == n \in DOMAIN history[ThreadOf[i]] /\ history[ThreadOf[i]][n] = i
Listed ==
  \A t \in ToSet(Threads) :
    /\ \A n \in DOMAIN history[t] :
         ThreadOf[history[t][n]] = t /\ stage[history[t][n]] > 0
    /\ \A n, m \in DOMAIN history[t] : history[t][n] = history[t][m] => n = m

\* The client is not told more than there is, and only what is complete is removed.
Begun == \A i \in Items : shown[i] <= stage[i] /\ (stage[i] = 1 => Kept(i))

\* What is on its way was printed in order, and of an item tells stage after stage, up to
\* the one it has reached.
Flying == ToSet(events)
Stamped == \A k, m \in DOMAIN events : k < m => events[k].at < events[m].at
Told == \A e \in Flying : e.item # None => e.stage \in 1 .. stage[e.item]
Rising ==
  \A e, d \in Flying : e.item # None /\ d.item = e.item /\ e.at < d.at => e.stage < d.stage
UpToDate ==
  \A e \in Flying :
    e.item # None /\ Kept(e.item) /\ e.stage # stage[e.item]
    => \E d \in Flying : d.item = e.item /\ e.at < d.at

\* A notification on its way would not take anything back.
Forward ==
  \A e \in Flying :
    e.item # None
    => e.stage >= shown[e.item] \/ e.at <= cutoffs[e.item] \/ e.at <= forgotten

\* The replay comes to it.
Ahead(i) ==
  /\ Kept(i) /\ ThreadOf[i] \in ToSet(replaying.todo)
  /\ ThreadOf[i] = Head(replaying.todo) => \E n \in Nat : n > replaying.from /\ IsAt(i, n)

\* When the transcript is whole, or becomes so by the reset of a request.
Sought == intact \/ (delivery = "request" /\ replaying.reset)

\* What is on its way of a removed item is covered.
Gone ==
  /\ historyCutoff <= highest
  /\ \A e \in Flying :
       e.item # None /\ ~Kept(e.item)
       => /\ answered.what = "done" => e.at <= answered.at
          /\ Sought /\ negotiated /\ answered.what # "done" => e.at <= highest

\* Between a mutation and its reset, and while a report says that there was one.
Excused == answered.what = "done" \/ (~negotiated /\ (owes \/ InFlight(None)))

Awaited(i) == \E e \in Flying : e.item = i /\ ~SnapshotCovered(e)
Follows(i) ==
  /\ Kept(i) => Awaited(i) \/ shown[i] = stage[i] \/ (replaying.reset /\ Ahead(i))
  /\ ~Kept(i) => shown[i] = 0 /\ \A e \in Flying : e.item = i => e.at <= historyCutoff
Faithful == Sought /\ ~Lowered /\ ~Excused => \A i \in Items : Follows(i)

\* A reset replays an item, or its notifications are behind; and reads no page before the
\* mutations that were asked earlier.
Early ==
  replaying.reset /\ wire # <<>>
  => replaying.todo = Threads /\ replaying.from = 0 /\ \A i \in Items : shown[i] = 0
Whole ==
  replaying.reset => \A i \in Items : shown[i] = Truth(i) \/ InFlight(i) \/ Ahead(i)

Items2 == Listed /\ Begun
Notices == Stamped /\ Told /\ Rising /\ UpToDate /\ Forward
IInv ==
  /\ TypeOK /\ Control /\ Asked /\ Items2 /\ Notices
  /\ Gone /\ Faithful /\ Early /\ Whole

----------------------------------------------------------------------------
(* What the definitions mean *)

LEMMA Rooted == Root \in ToSet(Threads) /\ Threads # <<>> /\ Threads \in Seq(ToSet(Threads))
  BY HistoryAssumption DEF HistoryAssumption, Root, ToSet

LEMMA FlyingMeans ==
  ASSUME TypeOK
  PROVE  \A e \in Flying :
           /\ e \in [at : Nat, item : Items \union {None}, stage : 0 .. 2]
           /\ e.at \in 1 .. printed
<1> DEFINE Notice == [at : Nat, item : Items \union {None}, stage : 0 .. 2]
<1>1. events \in Seq(Notice) /\ \A k \in DOMAIN events : events[k].at \in 1 .. printed
  BY DEF TypeOK
<1> HIDE DEF Notice
<1>2. \A k \in DOMAIN events : events[k] \in Notice
  BY <1>1
<1>3. \A e \in Flying : \E k \in DOMAIN events : e = events[k]
  BY DEF Flying, ToSet
<1>4. QED
  BY <1>1, <1>2, <1>3 DEF Notice

LEMMA InFlightMeans == \A i : InFlight(i) <=> \E e \in Flying : e.item = i
  BY DEF InFlight, Flying, ToSet

LEMMA KeptMeans ==
  ASSUME TypeOK, NEW i \in Items
  PROVE  /\ ThreadOf[i] \in ToSet(Threads)
         /\ history[ThreadOf[i]] \in Seq(Items)
         /\ Kept(i) <=> \E n \in Nat : IsAt(i, n)
<1>1. ThreadOf[i] \in ToSet(Threads) /\ history \in [ToSet(Threads) -> Seq(Items)]
  BY HistoryAssumption DEF HistoryAssumption, TypeOK
<1>2. history[ThreadOf[i]] \in Seq(Items)
  BY <1>1
<1>3. DOMAIN history[ThreadOf[i]] \subseteq Nat
  BY <1>2
<1>4. Kept(i) <=> \E n \in DOMAIN history[ThreadOf[i]] : history[ThreadOf[i]][n] = i
  BY DEF Kept, ToSet
<1>5. QED
  BY <1>1, <1>2, <1>3, <1>4 DEF IsAt

----------------------------------------------------------------------------
(* Notifications: one more, or one less *)

LEMMA Printing ==
  ASSUME TypeOK, Stamped, NEW i \in Items \union {None}, NEW to \in 0 .. 2, Prints(i, to)
  PROVE  LET new == [at |-> printed + 1, item |-> i, stage |-> to] IN
         /\ Flying' = Flying \union {new} /\ Stamped' /\ printed' = printed + 1
         /\ printed' \in 0 .. MaxPrinted
         /\ events' \in Seq([at : Nat, item : Items \union {None}, stage : 0 .. 2])
         /\ \A k \in DOMAIN events' : events'[k].at \in 1 .. printed'
<1> DEFINE new == [at |-> printed + 1, item |-> i, stage |-> to]
           Notice == [at : Nat, item : Items \union {None}, stage : 0 .. 2]
<1>1. /\ events \in Seq(Notice) /\ printed \in Nat /\ MaxPrinted \in Nat
      /\ \A k \in DOMAIN events : events[k].at \in 1 .. printed
  BY HistoryAssumption DEF HistoryAssumption, TypeOK
<1>2. events' = Append(events, new) /\ printed' = printed + 1 /\ printed < MaxPrinted
  BY DEF Prints
<1>3. new \in Notice /\ new.at = printed + 1
  BY <1>1
<1> HIDE DEF new, Notice
<1>4. /\ events' \in Seq(Notice) /\ Len(events') = Len(events) + 1
      /\ \A k \in 1 .. Len(events) : events'[k] = events[k]
      /\ events'[Len(events) + 1] = new
      /\ DOMAIN events' = 1 .. Len(events) + 1 /\ DOMAIN events = 1 .. Len(events)
      /\ Len(events) \in Nat
  BY <1>1, <1>2, <1>3
<1>5. \A k \in DOMAIN events' : k \in DOMAIN events \/ k = Len(events) + 1
  BY <1>4
<1>6. \A k \in DOMAIN events' : events'[k].at \in 1 .. printed'
  BY <1>1, <1>2, <1>3, <1>4, <1>5
<1>7. Stamped'
  <2> SUFFICES ASSUME NEW k \in DOMAIN events', NEW m \in DOMAIN events', k < m
               PROVE  events'[k].at < events'[m].at
    BY DEF Stamped
  <2>1. k \in DOMAIN events
    BY <1>4
  <2>2. CASE m \in DOMAIN events
    BY <1>4, <2>1, <2>2 DEF Stamped
  <2>3. CASE m = Len(events) + 1
    BY <1>1, <1>3, <1>4, <2>1, <2>3
  <2>4. QED
    BY <1>5, <2>2, <2>3
<1>8. Flying' = Flying \union {new}
  <2>1. \A e : e \in Flying' <=> \E k \in DOMAIN events' : e = events'[k]
    BY DEF Flying, ToSet
  <2>2. \A e : e \in Flying <=> \E k \in DOMAIN events : e = events[k]
    BY DEF Flying, ToSet
  <2>3. QED
    BY <1>4, <2>1, <2>2
<1>9. QED
  BY <1>1, <1>2, <1>4, <1>6, <1>7, <1>8 DEF new, Notice

LEMMA Delivering ==
  ASSUME TypeOK, Stamped, Delivers
  PROVE  LET e == Head(events) IN
         /\ e \in Flying /\ Flying' = Flying \ {e} /\ Stamped'
         /\ \A d \in Flying' : e.at < d.at
         /\ events' \in Seq([at : Nat, item : Items \union {None}, stage : 0 .. 2])
         /\ \A k \in DOMAIN events' : events'[k].at \in 1 .. printed
<1> DEFINE e == Head(events)
           Notice == [at : Nat, item : Items \union {None}, stage : 0 .. 2]
<1>1. /\ events \in Seq(Notice) /\ printed \in Nat
      /\ \A k \in DOMAIN events : events[k].at \in 1 .. printed
  BY DEF TypeOK
<1>2. events # <<>> /\ events' = Tail(events)
  BY DEF Delivers
<1> HIDE DEF Notice
<1>4. /\ events' \in Seq(Notice) /\ Len(events') = Len(events) - 1
      /\ \A k \in 1 .. Len(events) - 1 : events'[k] = events[k + 1]
      /\ events[1] = e /\ Len(events) > 0 /\ Len(events) \in Nat
      /\ DOMAIN events' = 1 .. Len(events) - 1 /\ DOMAIN events = 1 .. Len(events)
  BY <1>1, <1>2
<1> HIDE DEF e
<1>3. \A k \in DOMAIN events' : k + 1 \in DOMAIN events /\ events'[k] = events[k + 1]
  BY <1>4
<1>5. \A k \in DOMAIN events' : events'[k].at \in 1 .. printed
  BY <1>1, <1>3
<1>6. Stamped'
  <2> SUFFICES ASSUME NEW k \in DOMAIN events', NEW m \in DOMAIN events', k < m
               PROVE  events'[k].at < events'[m].at
    BY DEF Stamped
  <2>1. k + 1 < m + 1
    BY <1>4
  <2>2. QED
    BY <1>3, <2>1 DEF Stamped
<1>7. \A d : d \in Flying' <=> \E k \in DOMAIN events' : d = events'[k]
  BY DEF Flying, ToSet
<1>8. \A d : d \in Flying <=> \E k \in DOMAIN events : d = events[k]
  BY DEF Flying, ToSet
<1>9. e \in Flying
  BY <1>4, <1>8
<1>10. \A d \in Flying' : d \in Flying /\ e.at < d.at
  BY <1>4, <1>7, <1>8 DEF Stamped
<1>11. \A d \in Flying : d = e \/ d \in Flying'
  <2> SUFFICES ASSUME NEW k \in DOMAIN events, events[k] # e PROVE events[k] \in Flying'
    BY <1>8
  <2>1. k # 1
    BY <1>4
  <2>2. k - 1 \in DOMAIN events' /\ events'[k - 1] = events[k]
    BY <1>4, <2>1
  <2>3. QED
    BY <1>7, <2>2
<1>12. e \notin Flying'
  BY <1>1, <1>4, <1>10
<1>13. QED
  BY <1>4, <1>5, <1>6, <1>9, <1>10, <1>11, <1>12 DEF e, Notice

----------------------------------------------------------------------------
(* Items: one begins or goes on, one is taken back *)

LEMMA Started == ASSUME TypeOK, Listed, NEW i \in Items, Kept(i) PROVE stage[i] > 0
<1>1. PICK n \in Nat : IsAt(i, n)
  BY KeptMeans
<1>2. QED
  BY <1>1, KeptMeans DEF IsAt, Listed

LEMMA Placed ==
  ASSUME TypeOK, Listed, NEW t \in ToSet(Threads)
  PROVE  /\ history[t] \in Seq(Items) /\ Len(history[t]) \in Nat
         /\ DOMAIN history[t] = 1 .. Len(history[t])
         /\ \A n \in DOMAIN history[t] :
              /\ history[t][n] \in Items /\ ThreadOf[history[t][n]] = t
              /\ stage[history[t][n]] > 0
         /\ \A n, m \in DOMAIN history[t] : history[t][n] = history[t][m] => n = m
<1>1. history[t] \in Seq(Items)
  BY DEF TypeOK
<1>2. \A n \in DOMAIN history[t] : history[t][n] \in Items
  BY <1>1
<1>3. QED
  BY <1>1, <1>2 DEF Listed

LEMMA Progressing ==
  ASSUME TypeOK, Listed, Begun, NEW i \in Items, Progress(i)
  PROVE  /\ stage[i] \in 0 .. 1 /\ (stage[i] = 1 <=> Kept(i))
         /\ stage' = [stage EXCEPT ![i] = stage[i] + 1] /\ stage' \in [Items -> 0 .. 2]
         /\ history' \in [ToSet(Threads) -> Seq(Items)] /\ Listed'
         /\ \A j \in Items, n \in Nat : IsAt(j, n) => IsAt(j, n)'
         /\ \A j \in Items : Kept(j)' <=> Kept(j) \/ j = i
<1> DEFINE t == ThreadOf[i]
<1>1. /\ t \in ToSet(Threads) /\ history \in [ToSet(Threads) -> Seq(Items)]
      /\ ThreadOf \in [Items -> ToSet(Threads)] /\ stage \in [Items -> 0 .. 2]
  BY HistoryAssumption DEF HistoryAssumption, TypeOK
<1>2. stage[i] \in 0 .. 1 /\ stage' = [stage EXCEPT ![i] = stage[i] + 1]
  BY <1>1 DEF Progress
<1>3. stage[i] = 1 <=> Kept(i)
  BY <1>2, Started DEF Begun
<1>4. /\ stage' \in [Items -> 0 .. 2] /\ stage'[i] > 0
      /\ \A j \in Items : j # i => stage'[j] = stage[j]
  BY <1>1, <1>2
<1>5. CASE stage[i] = 1
  <2>1. history' = history
    BY <1>5 DEF Progress
  <2>2. Listed'
    BY <1>1, <1>4, <2>1, Placed DEF Listed
  <2>3. \A j \in Items : (Kept(j)' <=> Kept(j)) /\ \A n \in Nat : IsAt(j, n) => IsAt(j, n)'
    BY <2>1 DEF Kept, IsAt
  <2>4. QED
    BY <1>1, <1>2, <1>3, <1>4, <1>5, <2>1, <2>2, <2>3
<1>6. CASE stage[i] = 0
  <2>1. history' = [history EXCEPT ![t] = Append(history[t], i)]
    BY <1>6 DEF Progress
  <2>2. /\ history[t] \in Seq(Items) /\ Append(history[t], i) \in Seq(Items)
        /\ Len(history[t]) \in Nat
        /\ DOMAIN Append(history[t], i) = 1 .. Len(history[t]) + 1
        /\ DOMAIN history[t] = 1 .. Len(history[t])
        /\ \A n \in 1 .. Len(history[t]) : Append(history[t], i)[n] = history[t][n]
        /\ Append(history[t], i)[Len(history[t]) + 1] = i
    BY <1>1
  <2>3. /\ history' \in [ToSet(Threads) -> Seq(Items)]
        /\ history'[t] = Append(history[t], i)
        /\ \A u \in ToSet(Threads) : u # t => history'[u] = history[u]
    BY <1>1, <2>1, <2>2
  <2> HIDE DEF t
  <2>4. \A n \in DOMAIN history[t] : history[t][n] # i
    <3>1. ~Kept(i)
      BY <1>3, <1>6
    <3>2. QED
      BY <3>1, <2>2 DEF Kept, ToSet, t
  <2>5. \A n \in DOMAIN history'[t] : n \in DOMAIN history[t] \/ n = Len(history[t]) + 1
    BY <2>2, <2>3
  <2>6. Listed'
    <3> SUFFICES ASSUME NEW u \in ToSet(Threads)
                 PROVE  /\ \A n \in DOMAIN history'[u] :
                             ThreadOf[history'[u][n]] = u /\ stage'[history'[u][n]] > 0
                        /\ \A n, m \in DOMAIN history'[u] :
                             history'[u][n] = history'[u][m] => n = m
      BY DEF Listed
    <3>1. CASE u # t
      <4>1. history'[u] = history[u] /\ history[u] \in Seq(Items)
        BY <1>1, <2>3, <3>1
      <4>2. \A n \in DOMAIN history[u] : history[u][n] \in Items
        BY <4>1
      <4>3. QED
        BY <1>4, <4>1, <4>2 DEF Listed
    <3>2. CASE u = t
      <4>1. \A n \in DOMAIN history[t] :
              /\ history[t][n] \in Items /\ history'[t][n] = history[t][n]
              /\ ThreadOf[history[t][n]] = t /\ stage[history[t][n]] > 0
        BY <1>1, <2>2, <2>3, Placed
      <4>2. history'[t][Len(history[t]) + 1] = i /\ ThreadOf[i] = t
        BY <2>2, <2>3 DEF t
      <4>3. \A n \in DOMAIN history'[u] :
              ThreadOf[history'[u][n]] = u /\ stage'[history'[u][n]] > 0
        BY <1>4, <2>5, <3>2, <4>1, <4>2
      <4>4. ASSUME NEW n \in DOMAIN history'[u], NEW m \in DOMAIN history'[u],
                   history'[u][n] = history'[u][m]
            PROVE  n = m
        <5>1. CASE n \in DOMAIN history[t] /\ m \in DOMAIN history[t]
          BY <1>1, <3>2, <4>1, <4>4, <5>1, Placed
        <5>2. CASE n \notin DOMAIN history[t] \/ m \notin DOMAIN history[t]
          BY <2>4, <2>5, <3>2, <4>1, <4>2, <4>4, <5>2
        <5>3. QED
          BY <5>1, <5>2
      <4>5. QED
        BY <4>3, <4>4
    <3>3. QED
      BY <3>1, <3>2
  <2>7. \A j \in Items, n \in Nat : IsAt(j, n) => IsAt(j, n)'
    <3> SUFFICES ASSUME NEW j \in Items, NEW n \in Nat, IsAt(j, n) PROVE IsAt(j, n)'
      OBVIOUS
    <3>1. CASE ThreadOf[j] = t
      <4>1. n \in DOMAIN history[t] /\ history[t][n] = j
        BY <3>1 DEF IsAt
      <4>2. n \in DOMAIN history'[t] /\ history'[t][n] = j
        BY <2>2, <2>3, <4>1
      <4>3. QED
        BY <3>1, <4>2 DEF IsAt
    <3>2. CASE ThreadOf[j] # t
      BY <1>1, <2>3, <3>2 DEF IsAt
    <3>3. QED
      BY <3>1, <3>2
  <2>8. \A j \in Items : Kept(j)' <=> Kept(j) \/ j = i
    <3> SUFFICES ASSUME NEW j \in Items PROVE Kept(j)' <=> Kept(j) \/ j = i
      OBVIOUS
    <3>1. CASE ThreadOf[j] = t
      <4>1. Kept(j)' <=> \E n \in DOMAIN history'[t] : history'[t][n] = j
        BY <3>1 DEF Kept, ToSet
      <4>2. Kept(j) <=> \E n \in DOMAIN history[t] : history[t][n] = j
        BY <3>1 DEF Kept, ToSet
      <4>3. QED
        BY <2>2, <2>3, <2>5, <4>1, <4>2
    <3>2. CASE ThreadOf[j] # t
      BY <1>1, <2>3, <3>2 DEF Kept, t
    <3>3. QED
      BY <3>1, <3>2
  <2>9. QED
    BY <1>1, <1>2, <1>3, <1>4, <2>3, <2>6, <2>7, <2>8
<1>7. QED
  BY <1>2, <1>5, <1>6

LEMMA TakingBack ==
  ASSUME TypeOK, Listed, TakeBack
  PROVE  \E i \in Items :
         /\ ThreadOf[i] = Root /\ Kept(i) /\ stage[i] \in 1 .. 2
         /\ (stage[i] = 1 /\ Prints(i, 2)) \/ UNCHANGED <<printed, events>>
         /\ stage' = [stage EXCEPT ![i] = 2] /\ stage' \in [Items -> 0 .. 2]
         /\ history' \in [ToSet(Threads) -> Seq(Items)] /\ Listed'
         /\ \A j \in Items, n \in Nat : j # i /\ IsAt(j, n) => IsAt(j, n)'
         /\ \A j \in Items : Kept(j)' <=> Kept(j) /\ j # i
<1> DEFINE s == history[Root]
           i == Last(s)
<1>1. /\ Root \in ToSet(Threads) /\ history \in [ToSet(Threads) -> Seq(Items)]
      /\ ThreadOf \in [Items -> ToSet(Threads)] /\ stage \in [Items -> 0 .. 2]
  BY Rooted, HistoryAssumption DEF HistoryAssumption, TypeOK
<1>2. s # <<>> /\ s \in Seq(Items)
  BY <1>1 DEF TakeBack
<1>3. /\ Len(s) \in Nat /\ Len(s) > 0 /\ DOMAIN s = 1 .. Len(s)
      /\ i = s[Len(s)] /\ i \in Items
  BY <1>2 DEF Last
<1>4. /\ Front(s) \in Seq(Items) /\ Len(Front(s)) = Len(s) - 1
      /\ DOMAIN Front(s) = 1 .. Len(s) - 1
      /\ \A n \in 1 .. Len(s) - 1 : Front(s)[n] = s[n]
  BY <1>2, <1>3, SubSeqProperties DEF Front
<1>5. history' = [history EXCEPT ![Root] = Front(s)] /\ stage' = [stage EXCEPT ![i] = 2]
  BY DEF TakeBack
<1>6. (stage[i] = 1 /\ Prints(i, 2)) \/ UNCHANGED <<printed, events>>
  BY DEF TakeBack
<1>7. /\ history' \in [ToSet(Threads) -> Seq(Items)] /\ history'[Root] = Front(s)
      /\ \A u \in ToSet(Threads) : u # Root => history'[u] = history[u]
  BY <1>1, <1>4, <1>5
<1>8. /\ stage' \in [Items -> 0 .. 2] /\ stage'[i] = 2
      /\ \A j \in Items : j # i => stage'[j] = stage[j]
  BY <1>1, <1>3, <1>5
<1> HIDE DEF i
<1>9. /\ \A n \in DOMAIN s : ThreadOf[s[n]] = Root /\ stage[s[n]] > 0 /\ s[n] \in Items
      /\ \A n, m \in DOMAIN s : s[n] = s[m] => n = m
  BY <1>1, Placed
<1>10. ThreadOf[i] = Root /\ Kept(i) /\ stage[i] \in 1 .. 2
  BY <1>1, <1>3, <1>9 DEF Kept, ToSet
<1> HIDE DEF s
<1>11. Listed'
  <2> SUFFICES ASSUME NEW u \in ToSet(Threads)
               PROVE  /\ \A n \in DOMAIN history'[u] :
                           ThreadOf[history'[u][n]] = u /\ stage'[history'[u][n]] > 0
                      /\ \A n, m \in DOMAIN history'[u] :
                           history'[u][n] = history'[u][m] => n = m
    BY DEF Listed
  <2>1. CASE u # Root
    <3>1. history'[u] = history[u] /\ history[u] \in Seq(Items)
      BY <1>1, <1>7, <2>1
    <3>2. \A n \in DOMAIN history[u] : history[u][n] \in Items /\ stage[history[u][n]] > 0
      BY Placed
    <3>3. QED
      BY <1>8, <3>1, <3>2 DEF Listed
  <2>2. CASE u = Root
    <3>1. \A n \in DOMAIN history'[u] :
            n \in DOMAIN s /\ n # Len(s) /\ history'[u][n] = s[n] /\ s[n] # i
      BY <1>3, <1>4, <1>7, <1>9, <2>2
    <3>2. QED
      BY <1>8, <1>9, <2>2, <3>1
  <2>3. QED
    BY <2>1, <2>2
<1>12. \A j \in Items, n \in Nat : j # i /\ IsAt(j, n) => IsAt(j, n)'
  <2> SUFFICES ASSUME NEW j \in Items, NEW n \in Nat, j # i, IsAt(j, n) PROVE IsAt(j, n)'
    OBVIOUS
  <2>1. CASE ThreadOf[j] = Root
    <3>1. n \in DOMAIN s /\ s[n] = j
      BY <2>1 DEF IsAt, s
    <3>2. n \in 1 .. Len(s) - 1
      BY <1>3, <3>1
    <3>3. QED
      BY <1>4, <1>7, <2>1, <3>1, <3>2 DEF IsAt
  <2>2. CASE ThreadOf[j] # Root
    BY <1>1, <1>7, <2>2 DEF IsAt
  <2>3. QED
    BY <2>1, <2>2
<1>13. \A j \in Items : Kept(j)' <=> Kept(j) /\ j # i
  <2> SUFFICES ASSUME NEW j \in Items PROVE Kept(j)' <=> Kept(j) /\ j # i
    OBVIOUS
  <2>1. CASE ThreadOf[j] = Root
    <3>1. Kept(j)' <=> \E n \in DOMAIN history'[Root] : history'[Root][n] = j
      BY <2>1 DEF Kept, ToSet
    <3>2. Kept(j) <=> \E n \in DOMAIN s : s[n] = j
      BY <2>1 DEF Kept, ToSet, s
    <3>3. ASSUME NEW n \in DOMAIN s, s[n] = j, j # i PROVE n \in 1 .. Len(s) - 1
      BY <1>3, <3>3
    <3>4. ASSUME NEW n \in 1 .. Len(s) - 1 PROVE n \in DOMAIN s /\ s[n] # i
      BY <1>3, <1>9, <3>4
    <3>5. QED
      BY <1>4, <1>7, <3>1, <3>2, <3>3, <3>4
  <2>2. CASE ThreadOf[j] # Root
    BY <1>1, <1>7, <1>10, <2>2 DEF Kept
  <2>3. QED
    BY <2>1, <2>2
<1>14. QED
  BY <1>3, <1>5, <1>6, <1>7, <1>8, <1>10, <1>11, <1>12, <1>13

LEMMA HeadAndTail ==
  ASSUME NEW S, NEW s \in Seq(S), s # <<>>
  PROVE  Head(s) \in S /\ Tail(s) \in Seq(S) /\ ToSet(s) = {Head(s)} \union ToSet(Tail(s))
<1>1. /\ Head(s) \in S /\ Tail(s) \in Seq(S) /\ Head(s) = s[1]
      /\ Len(s) \in Nat /\ Len(s) > 0 /\ DOMAIN s = 1 .. Len(s)
      /\ DOMAIN Tail(s) = 1 .. Len(s) - 1
      /\ \A n \in 1 .. Len(s) - 1 : Tail(s)[n] = s[n + 1]
  OBVIOUS
<1>2. \A u : u \in ToSet(s) <=> \E n \in DOMAIN s : u = s[n]
  BY DEF ToSet
<1>3. \A u : u \in ToSet(Tail(s)) <=> \E n \in DOMAIN Tail(s) : u = Tail(s)[n]
  BY DEF ToSet
<1>4. \A n \in DOMAIN s : n # 1 => n - 1 \in DOMAIN Tail(s) /\ s[n] = Tail(s)[n - 1]
  BY <1>1
<1>5. \A n \in DOMAIN Tail(s) : n + 1 \in DOMAIN s /\ Tail(s)[n] = s[n + 1]
  BY <1>1
<1>6. \A u : u \in ToSet(s) <=> u = Head(s) \/ u \in ToSet(Tail(s))
  <2>1. ASSUME NEW u \in ToSet(s) PROVE u = Head(s) \/ u \in ToSet(Tail(s))
    <3>1. PICK n \in DOMAIN s : u = s[n]
      BY <1>2
    <3>2. CASE n = 1
      BY <1>1, <3>1, <3>2
    <3>3. CASE n # 1
      BY <1>3, <1>4, <3>1, <3>3
    <3>4. QED
      BY <3>2, <3>3
  <2>2. Head(s) \in ToSet(s)
    BY <1>1, <1>2
  <2>3. ASSUME NEW u \in ToSet(Tail(s)) PROVE u \in ToSet(s)
    BY <1>2, <1>3, <1>5
  <2>4. QED
    BY <2>1, <2>2, <2>3
<1>7. QED
  BY <1>1, <1>6

LEMMA Piece ==
  ASSUME NEW S, NEW s \in Seq(S), NEW from \in Nat, NEW end \in Nat, end <= Len(s)
  PROVE  /\ Len(SubSeq(s, from + 1, end)) \in Nat
         /\ \A x : x \in ToSet(SubSeq(s, from + 1, end))
                   <=> \E n \in from + 1 .. end : x = s[n]
<1> DEFINE part == SubSeq(s, from + 1, end)
<1>0. Len(s) \in Nat /\ DOMAIN s = 1 .. Len(s)
  OBVIOUS
<1>1. \A n \in from + 1 .. end : s[n] \in S
  BY <1>0
<1>2. /\ part \in Seq(S)
      /\ Len(part) = IF from + 1 <= end THEN end - (from + 1) + 1 ELSE 0
      /\ \A k \in 1 .. end - (from + 1) + 1 : part[k] = s[from + 1 + k - 1]
  BY <1>1, SubSeqProperties
<1> HIDE DEF part
<1>3. Len(part) \in Nat /\ DOMAIN part = 1 .. Len(part)
  BY <1>2
<1>4. \A k \in DOMAIN part : from + k \in from + 1 .. end /\ part[k] = s[from + k]
  BY <1>2, <1>3
<1>5. \A n \in from + 1 .. end : n - from \in DOMAIN part /\ part[n - from] = s[n]
  BY <1>2, <1>3
<1>6. \A x : x \in ToSet(part) <=> \E k \in DOMAIN part : x = part[k]
  BY DEF ToSet
<1>7. \A x : x \in ToSet(part) => \E n \in from + 1 .. end : x = s[n]
  BY <1>4, <1>6
<1>8. \A n \in from + 1 .. end : s[n] \in ToSet(part)
  BY <1>5, <1>6
<1>9. QED
  BY <1>3, <1>7, <1>8 DEF part

\* A page has the next items of its thread, as many as fit.
LEMMA PageMeans ==
  ASSUME TypeOK, Listed, replaying.todo # <<>>
  PROVE  /\ Head(replaying.todo) \in ToSet(Threads)
         /\ Tail(replaying.todo) \in Seq(ToSet(Threads))
         /\ ToSet(replaying.todo)
              = {Head(replaying.todo)} \union ToSet(Tail(replaying.todo))
         /\ Len(Page) \in Nat
         /\ \A i \in ToSet(Page) : i \in Items /\ Kept(i)
         /\ \A i \in Items, n \in Nat :
              IsAt(i, n) /\ ThreadOf[i] = Head(replaying.todo) /\ n > replaying.from
              => i \in ToSet(Page) \/ (~LastPage /\ n > replaying.from + PageSize)
<1>1. replaying.todo \in Seq(ToSet(Threads)) /\ replaying.from \in Nat /\ PageSize \in Nat
  BY HistoryAssumption DEF HistoryAssumption, TypeOK
<1>2. /\ Head(replaying.todo) \in ToSet(Threads)
      /\ Tail(replaying.todo) \in Seq(ToSet(Threads))
      /\ ToSet(replaying.todo)
           = {Head(replaying.todo)} \union ToSet(Tail(replaying.todo))
  BY <1>1, HeadAndTail
<1>3. PICK t \in ToSet(Threads), from \in Nat, size \in Nat, end \in Nat :
        /\ t = Head(replaying.todo) /\ from = replaying.from /\ size = Len(history[t])
        /\ end = IF from + PageSize < size THEN from + PageSize ELSE size
  <2>1. Len(history[Head(replaying.todo)]) \in Nat
    BY <1>2, Placed
  <2>2. \A a, b \in Nat : (IF a + PageSize < b THEN a + PageSize ELSE b) \in Nat
    BY <1>1
  <2>3. QED
    BY <1>1, <1>2, <2>1, <2>2
<1>4. /\ end <= size
      /\ \A n \in Nat : n > end /\ n <= size => from + PageSize < size /\ n > from + PageSize
  BY <1>1, <1>3
<1> DEFINE all == history[t]
<1>5. /\ all \in Seq(Items) /\ Len(all) = size /\ DOMAIN all = 1 .. size
      /\ \A n \in DOMAIN all : all[n] \in Items /\ ThreadOf[all[n]] = t
  BY <1>3, Placed
<1>6. Page = SubSeq(all, from + 1, end)
  BY <1>3 DEF Page
<1>7. /\ Len(Page) \in Nat
      /\ \A i : i \in ToSet(Page) <=> \E n \in from + 1 .. end : i = all[n]
  <2> HIDE DEF all
  <2>1. /\ Len(SubSeq(all, from + 1, end)) \in Nat
        /\ \A x : x \in ToSet(SubSeq(all, from + 1, end))
                  <=> \E n \in from + 1 .. end : x = all[n]
    BY <1>4, <1>5, Piece
  <2>2. QED
    BY <1>6, <2>1
<1>8. \A n \in from + 1 .. end : n \in 1 .. size
  BY <1>4
<1> HIDE DEF all
<1>9. ASSUME NEW i \in ToSet(Page) PROVE i \in Items /\ Kept(i)
  <2>1. PICK n \in DOMAIN all : i = all[n]
    BY <1>5, <1>7, <1>8
  <2>2. i \in Items /\ all = history[ThreadOf[i]]
    BY <1>5, <2>1 DEF all
  <2>3. QED
    BY <2>1, <2>2 DEF Kept, ToSet
<1>10. ASSUME NEW i \in Items, NEW n \in Nat, IsAt(i, n), ThreadOf[i] = t, n > from,
              i \notin ToSet(Page)
       PROVE  from + PageSize < size /\ n > from + PageSize
  <2>1. n \in 1 .. size /\ all[n] = i
    BY <1>5, <1>10 DEF IsAt, all
  <2>2. n \notin from + 1 .. end
    BY <1>7, <1>10, <2>1
  <2>3. n > end /\ n <= size
    BY <1>10, <2>1, <2>2
  <2>4. QED
    BY <1>4, <2>3
<1>11. from + PageSize < size => ~LastPage
  BY <1>1, <1>3 DEF LastPage
<1>12. QED
  BY <1>2, <1>3, <1>7, <1>9, <1>10, <1>11

----------------------------------------------------------------------------
(* Types *)

LEMMA TypesInitially == ASSUME Init PROVE TypeOK
<1>1. /\ {PageSize, MaxReplay, MaxCalls, MaxPrinted} \subseteq Nat
      /\ <<>> \in Seq(ToSet(Threads))
  BY HistoryAssumption DEF HistoryAssumption
<1>2. /\ replaying \in [todo : Seq(ToSet(Threads)), from : Nat, left : 0 .. MaxReplay,
                        reset : BOOLEAN]
      /\ answered \in [what : {None, "done", "refused"}, at : 0 .. printed]
  BY <1>1 DEF Init, NoReplay, NoAnswer
<1>3. /\ history \in [ToSet(Threads) -> Seq(Items)] /\ wire \in Seq(Kinds)
      /\ events \in Seq([at : Nat, item : Items \union {None}, stage : 0 .. 2])
      /\ \A k \in DOMAIN events : events[k].at \in 1 .. printed
  BY DEF Init
<1>4. /\ calls \in 0 .. MaxCalls /\ printed \in 0 .. MaxPrinted
      /\ cutoffs \in [Items -> 0 .. printed] /\ stage \in [Items -> 0 .. 2]
      /\ shown \in [Items -> 0 .. 2]
  BY <1>1 DEF Init
<1>5. /\ kind \in Kinds \union {None} /\ delivery \in {None, "request", "worker"}
      /\ step \in {"idle", "fence", "lock", "asked", "refence", "relock", "replay", "last"}
      /\ (delivery = None => replaying = NoReplay) /\ until \in 0 .. printed
      /\ historyCutoff \in 0 .. printed /\ {forgotten, highest} \subseteq 0 .. printed
  BY DEF Init
<1>6. /\ negotiated \in BOOLEAN /\ reconciled \in BOOLEAN /\ owes \in BOOLEAN
      /\ {resetting, intact, down} \subseteq BOOLEAN
  BY DEF Init
<1>7. QED
  BY <1>2, <1>3, <1>4, <1>5, <1>6 DEF TypeOK

\* Codex prints, or does not.
LEMMA CodexTypes ==
  ASSUME TypeOK, Listed, Begun, Stamped,
         (\E i \in Items : Progress(i)) \/ Rewrite \/ RewriteUnasked \/ Refuse \/ Report
  PROVE  TypeOK'
<1> DEFINE Notice == [at : Nat, item : Items \union {None}, stage : 0 .. 2]
           Printed == /\ printed' \in 0 .. MaxPrinted /\ printed <= printed'
                      /\ events' \in Seq(Notice)
                      /\ \A k \in DOMAIN events' : events'[k].at \in 1 .. printed'
           Stored == /\ stage' \in [Items -> 0 .. 2]
                     /\ history' \in [ToSet(Threads) -> Seq(Items)]
<1>1. /\ printed \in 0 .. MaxPrinted /\ MaxPrinted \in Nat /\ events \in Seq(Notice)
      /\ \A k \in DOMAIN events : events[k].at \in 1 .. printed
      /\ stage \in [Items -> 0 .. 2] /\ history \in [ToSet(Threads) -> Seq(Items)]
  BY HistoryAssumption DEF HistoryAssumption, TypeOK
<1>2. ASSUME NEW i \in Items \union {None}, NEW to \in 0 .. 2, Prints(i, to) PROVE Printed
  <2>1. printed' = printed + 1
    BY <1>2 DEF Prints
  <2>2. /\ printed' \in 0 .. MaxPrinted /\ events' \in Seq(Notice)
        /\ \A k \in DOMAIN events' : events'[k].at \in 1 .. printed'
    BY <1>2, Printing
  <2>3. printed <= printed'
    BY <1>1, <2>1
  <2>4. QED
    BY <2>2, <2>3
<1>3. ASSUME UNCHANGED <<printed, events>> PROVE Printed
  BY <1>1, <1>3
<1> HIDE DEF Printed
<1>4. Printed /\ Stored
  <2>1. ASSUME NEW i \in Items, Progress(i) PROVE Printed /\ Stored
    <3>1. stage[i] + 1 \in 0 .. 2 /\ Prints(i, stage[i] + 1) /\ Stored
      BY <2>1, Progressing DEF Progress
    <3>2. QED
      BY <1>2, <3>1
  <2>2. ASSUME TakeBack PROVE Printed /\ Stored
    <3>1. PICK i \in Items : /\ (stage[i] = 1 /\ Prints(i, 2)) \/ UNCHANGED <<printed, events>>
                             /\ Stored
      BY <2>2, TakingBack
    <3>2. QED
      BY <1>2, <1>3, <3>1
  <2>3. ASSUME Refuse PROVE Printed /\ Stored
    BY <1>1, <1>3, <2>3 DEF Refuse, codexVars
  <2>4. ASSUME Report PROVE Printed /\ Stored
    BY <1>1, <1>2, <2>4 DEF Report
  <2>5. QED
    BY <2>1, <2>2, <2>3, <2>4 DEF Rewrite, RewriteUnasked
<1>5. /\ UNCHANGED <<calls, kind, step, until, delivery, replaying, negotiated, cutoffs,
                     historyCutoff, reconciled, shown, resetting, forgotten, highest, intact,
                     down>>
      /\ wire' = wire \/ (wire # <<>> /\ wire' = Tail(wire))
      /\ owes' \in BOOLEAN
  <2>1. owes \in BOOLEAN
    BY DEF TypeOK
  <2>2. QED
    BY <2>1 DEF Progress, Rewrite, RewriteUnasked, Refuse, Report, Answers, callVars,
       adapterVars, clientVars, codexVars
<1>6. answered' \in [what : {None, "done", "refused"}, at : 0 .. printed']
  <2>1. printed \in Nat /\ answered \in [what : {None, "done", "refused"}, at : 0 .. printed]
    BY DEF TypeOK
  <2>2. answered' \in {answered, NoAnswer, [what |-> "done", at |-> printed'],
                       [what |-> "refused", at |-> printed]}
    BY DEF Progress, Rewrite, RewriteUnasked, Refuse, Report, Answers
  <2>3. printed' \in Nat /\ printed <= printed'
    BY <1>4 DEF Printed
  <2>4. QED
    BY <2>1, <2>2, <2>3 DEF NoAnswer
<1>7. wire' \in Seq(Kinds)
  <2>1. wire \in Seq(Kinds)
    BY DEF TypeOK
  <2>2. QED
    BY <1>5, <2>1, HeadTailProperties
<1>8. /\ until' \in 0 .. printed' /\ cutoffs' \in [Items -> 0 .. printed']
      /\ historyCutoff' \in 0 .. printed' /\ {forgotten', highest'} \subseteq 0 .. printed'
  <2>1. /\ until \in 0 .. printed /\ cutoffs \in [Items -> 0 .. printed] /\ printed \in Nat
        /\ historyCutoff \in 0 .. printed /\ {forgotten, highest} \subseteq 0 .. printed
    BY DEF TypeOK
  <2>2. printed' \in Nat /\ printed <= printed'
    BY <1>4 DEF Printed
  <2>3. QED
    BY <1>5, <2>1, <2>2
<1>9. /\ calls' \in 0 .. MaxCalls /\ kind' \in Kinds \union {None}
      /\ step' \in {"idle", "fence", "lock", "asked", "refence", "relock", "replay", "last"}
      /\ delivery' \in {None, "request", "worker"}
      /\ (delivery' = None => replaying' = NoReplay)
      /\ replaying' \in [todo : Seq(ToSet(Threads)), from : Nat, left : 0 .. MaxReplay,
                         reset : BOOLEAN]
      /\ negotiated' \in BOOLEAN /\ reconciled' \in BOOLEAN /\ shown' \in [Items -> 0 .. 2]
      /\ {resetting', intact', down'} \subseteq BOOLEAN
  BY <1>5 DEF TypeOK
<1>10. QED
  BY <1>4, <1>5, <1>6, <1>7, <1>8, <1>9 DEF TypeOK, Printed

\* A request and the session's worker print nothing.  The types in parts:
Replay == [todo : Seq(ToSet(Threads)), from : Nat, left : 0 .. MaxReplay, reset : BOOLEAN]
CallType ==
  /\ calls \in 0 .. MaxCalls /\ kind \in Kinds \union {None}
  /\ step \in {"idle", "fence", "lock", "asked", "refence", "relock", "replay", "last"}
  /\ until \in 0 .. printed
LockType ==
  /\ delivery \in {None, "request", "worker"} /\ replaying \in Replay
  /\ (delivery = None => replaying = NoReplay)
SessionType ==
  /\ negotiated \in BOOLEAN /\ reconciled \in BOOLEAN
  /\ cutoffs \in [Items -> 0 .. printed] /\ historyCutoff \in 0 .. printed
  /\ forgotten \in 0 .. printed /\ highest \in 0 .. printed
WireType ==
  wire \in Seq(Kinds) /\ answered \in [what : {None, "done", "refused"}, at : 0 .. printed]
EventType ==
  /\ events \in Seq([at : Nat, item : Items \union {None}, stage : 0 .. 2])
  /\ \A k \in DOMAIN events : events[k].at \in 1 .. printed
CodexType ==
  /\ history \in [ToSet(Threads) -> Seq(Items)] /\ stage \in [Items -> 0 .. 2]
  /\ printed \in 0 .. MaxPrinted /\ owes \in BOOLEAN
ClientType ==
  /\ shown \in [Items -> 0 .. 2] /\ resetting \in BOOLEAN /\ intact \in BOOLEAN
  /\ down \in BOOLEAN

LEMMA Parts ==
  TypeOK <=> /\ CallType /\ LockType /\ SessionType /\ WireType /\ EventType /\ CodexType
             /\ ClientType
  BY DEF TypeOK, CallType, LockType, SessionType, WireType, EventType, CodexType, ClientType,
     Replay

LEMMA PartsNext ==
  ASSUME CallType', LockType', SessionType', WireType', EventType', CodexType', ClientType'
  PROVE  TypeOK'
  BY DEF TypeOK, CallType, LockType, SessionType, WireType, EventType, CodexType, ClientType,
     Replay

LEMMA Bounds ==
  /\ PageSize \in Nat /\ MaxReplay \in Nat /\ MaxCalls \in Nat /\ MaxPrinted \in Nat
  /\ PageSize > 0
  BY HistoryAssumption DEF HistoryAssumption

\* What stays keeps its type.
LEMMA StillTyped ==
  ASSUME TypeOK, UNCHANGED printed
  PROVE  /\ UNCHANGED <<callVars, step, until>> => CallType'
         /\ UNCHANGED <<delivery, replaying>> => LockType'
         /\ UNCHANGED <<negotiated, adapterVars, forgotten, highest>> => SessionType'
         /\ UNCHANGED <<wire, answered>> => WireType'
         /\ UNCHANGED events => EventType'
         /\ UNCHANGED <<history, stage, owes>> => CodexType'
         /\ UNCHANGED <<shown, resetting, intact, down>> => ClientType'
<1>1. /\ CallType /\ LockType /\ SessionType /\ WireType /\ EventType /\ CodexType
      /\ ClientType
  BY Parts
<1>2. UNCHANGED <<callVars, step, until>> => CallType'
  BY <1>1 DEF CallType, callVars
<1>3. UNCHANGED <<delivery, replaying>> => LockType'
  BY <1>1 DEF LockType
<1>4. UNCHANGED <<negotiated, adapterVars, forgotten, highest>> => SessionType'
  BY <1>1 DEF SessionType, adapterVars
<1>5. UNCHANGED <<wire, answered>> => WireType'
  BY <1>1 DEF WireType
<1>6. UNCHANGED events => EventType'
  BY <1>1 DEF EventType
<1>7. UNCHANGED <<history, stage, owes>> => CodexType'
  BY <1>1 DEF CodexType
<1>8. UNCHANGED <<shown, resetting, intact, down>> => ClientType'
  BY <1>1 DEF ClientType
<1>9. QED
  BY <1>2, <1>3, <1>4, <1>5, <1>6, <1>7, <1>8

LEMMA EndsTyped == ASSUME TypeOK, UNCHANGED printed, Ends PROVE CallType' /\ LockType'
<1>1. CallType /\ LockType /\ CodexType
  BY Parts
<1>2. NoReplay \in Replay
  BY Bounds DEF NoReplay, Replay
<1>3. CallType'
  BY <1>1 DEF Ends, CallType, CodexType
<1>4. LockType'
  BY <1>1, <1>2 DEF Ends, LockType
<1>5. QED
  BY <1>3, <1>4

LEMMA RequestsTyped ==
  ASSUME TypeOK, Control,
         (\E k \in Kinds : Asks(k)) \/ PassFence \/ FenceTimesOut \/ Lock \/ AskFails \/ Relock
  PROVE  TypeOK'
<1>1. UNCHANGED <<events, history, stage, printed, owes, shown, resetting, down, negotiated>>
  BY DEF Asks, PassFence, FenceTimesOut, Lock, AskFails, Relock, codexVars, clientVars
<1>2. EventType' /\ CodexType' /\ printed \in Nat
  BY <1>1, StillTyped, Parts DEF CodexType
<1>3. CallType /\ LockType /\ SessionType /\ WireType /\ ClientType
  BY Parts
<1>4. CASE \E k \in Kinds : Asks(k)
  <2>1. calls' \in 0 .. MaxCalls /\ until' = printed /\ kind' \in Kinds /\ step' = "fence"
    BY <1>3, <1>4, Bounds DEF Asks, Goes, CallType
  <2>2. CallType'
    BY <1>1, <1>2, <2>1 DEF CallType
  <2>3. LockType' /\ SessionType' /\ WireType' /\ ClientType'
    BY <1>1, <1>4, StillTyped DEF Asks, adapterVars, clientVars
  <2>4. QED
    BY <1>2, <2>2, <2>3, PartsNext
<1>5. CASE PassFence \/ FenceTimesOut
  <2>1. SessionType' /\ WireType' /\ ClientType'
    BY <1>1, <1>5, StillTyped DEF PassFence, FenceTimesOut, adapterVars, clientVars
  <2>2. CASE Ends
    BY <1>1, <1>2, <2>1, <2>2, EndsTyped, PartsNext
  <2>3. CASE UNCHANGED <<callVars, delivery, replaying>> /\ until' = 0 /\ step' \in {"lock", "relock"}
    <3>1. CallType'
      BY <1>1, <1>2, <1>3, <2>3 DEF CallType, callVars
    <3>2. LockType'
      BY <1>1, <2>3, StillTyped
    <3>3. QED
      BY <1>2, <2>1, <3>1, <3>2, PartsNext
  <2>4. QED
    BY <1>5, <2>2, <2>3 DEF PassFence, FenceTimesOut, Goes
<1>6. CASE Lock
  <2>1. /\ callVars' = callVars /\ step' \in {"asked", "refence"}
        /\ until' = until \/ until' = printed
    BY <1>6 DEF Lock, Goes
  <2>2. CallType'
    BY <1>1, <1>2, <1>3, <2>1 DEF CallType, callVars
  <2>3. LockType'
    BY <1>3, <1>6 DEF Lock, LockType
  <2>4. SessionType'
    <3>1. /\ cutoffs' \in [Items -> 0 .. printed] /\ (forgotten' = forgotten \/ forgotten' = printed)
          /\ UNCHANGED <<negotiated, historyCutoff, reconciled, highest>>
      BY <1>2, <1>3, <1>6 DEF Lock, SessionType
    <3>2. QED
      BY <1>1, <1>2, <1>3, <3>1 DEF SessionType
  <2>5. WireType'
    <3>1. kind \in Kinds
      BY <1>3, <1>6 DEF Lock, Goes, Control, CallType
    <3>2. QED
      BY <1>1, <1>3, <1>6, <3>1 DEF Lock, WireType
  <2>6. ClientType'
    BY <1>1, <1>6, StillTyped DEF Lock
  <2>7. QED
    BY <1>2, <2>2, <2>3, <2>4, <2>5, <2>6, PartsNext
<1>7. CASE AskFails
  <2>1. CallType' /\ LockType' /\ SessionType'
    BY <1>1, <1>7, EndsTyped, StillTyped DEF AskFails, adapterVars
  <2>2. WireType'
    BY <1>1, <1>2, <1>3, <1>7 DEF AskFails, WireType, NoAnswer
  <2>3. ClientType'
    <3>1. intact' \in BOOLEAN
      BY <1>3, <1>7 DEF AskFails, ClientType
    <3>2. QED
      BY <1>1, <1>3, <3>1 DEF ClientType
  <2>4. QED
    BY <1>2, <2>1, <2>2, <2>3, PartsNext
<1>8. CASE Relock
  <2>1. CallType'
    BY <1>1, <1>3, <1>8 DEF Relock, Goes, CallType, callVars
  <2>2. LockType'
    <3>1. replaying' = [todo |-> Threads, from |-> 0, left |-> MaxReplay, reset |-> FALSE]
      BY <1>8 DEF Relock, Replays, Replayed
    <3>2. replaying' \in Replay
      BY <3>1, Rooted, Bounds DEF Replay
    <3>3. QED
      BY <1>8, <3>2 DEF Relock, LockType, None
  <2>3. SessionType' /\ WireType' /\ ClientType'
    BY <1>1, <1>8, StillTyped DEF Relock, clientVars
  <2>4. QED
    BY <1>2, <2>1, <2>2, <2>3, PartsNext
<1>9. QED
  BY <1>4, <1>5, <1>6, <1>7, <1>8

\* A reset, up to its replay.
LEMMA ResetMeans ==
  ASSUME TypeOK, NEW cutoff \in 0 .. printed, Resets(cutoff)
  PROVE  /\ replaying' \in Replay /\ replaying'.todo = Threads /\ replaying'.from = 0
         /\ replaying'.reset = TRUE
         /\ cutoffs' = [i \in Items |-> 0] /\ historyCutoff' = cutoff
         /\ cutoffs' \in [Items -> 0 .. printed]
         /\ shown' = [i \in Items |-> 0] /\ shown' \in [Items -> 0 .. 2] /\ resetting' = TRUE
         /\ highest' \in 0 .. printed /\ highest <= highest' /\ cutoff <= highest'
         /\ highest' \in {cutoff, highest}
<1>1. replaying' = [todo |-> Threads, from |-> 0, left |-> MaxReplay, reset |-> TRUE]
  BY DEF Resets, Replays, Replayed
<1>2. replaying' \in Replay
  BY <1>1, Rooted, Bounds DEF Replay
<1>3. highest \in 0 .. printed /\ printed \in Nat
  BY DEF TypeOK
<1>4. highest' = IF cutoff > highest THEN cutoff ELSE highest
  BY DEF Resets
<1>5. /\ highest' \in 0 .. printed /\ highest <= highest' /\ cutoff <= highest'
      /\ highest' \in {cutoff, highest}
  BY <1>3, <1>4
<1>6. /\ cutoffs' = [i \in Items |-> 0] /\ historyCutoff' = cutoff
      /\ shown' = [i \in Items |-> 0] /\ resetting' = TRUE
  BY DEF Resets
<1>7. cutoffs' \in [Items -> 0 .. printed] /\ shown' \in [Items -> 0 .. 2]
  BY <1>3, <1>6
<1>8. QED
  BY <1>1, <1>2, <1>5, <1>6, <1>7

LEMMA ReplayTyped ==
  ASSUME TypeOK, Listed, Control, Reset \/ ReadPage \/ ReplayDone \/ ReplayFails
  PROVE  TypeOK'
<1>1. UNCHANGED <<events, history, stage, printed, owes, negotiated>>
  BY DEF Reset, ReadPage, ReplayDone, ReplayFails, codexVars
<1>2. EventType' /\ CodexType' /\ printed \in Nat
  BY <1>1, StillTyped, Parts DEF CodexType
<1>3. CallType /\ LockType /\ SessionType /\ WireType /\ ClientType
  BY Parts
<1>4. CASE Reset
  <2>1. answered.at \in 0 .. printed
    BY <1>3 DEF WireType
  <2>2. /\ replaying' \in Replay /\ cutoffs' \in [Items -> 0 .. printed]
        /\ historyCutoff' = answered.at /\ highest' \in 0 .. printed
        /\ shown' \in [Items -> 0 .. 2] /\ resetting' = TRUE
    BY <1>4, <2>1, ResetMeans DEF Reset
  <2>3. CallType'
    BY <1>1, <1>3, <1>4 DEF Reset, Goes, CallType, callVars
  <2>4. LockType'
    BY <1>4, <2>2 DEF Reset, Goes, Control, LockType, None
  <2>5. SessionType'
    <3>1. reconciled' \in BOOLEAN /\ forgotten' = forgotten
      BY <1>3, <1>4 DEF Reset, SessionType
    <3>2. QED
      BY <1>1, <1>3, <2>1, <2>2, <3>1 DEF SessionType
  <2>6. WireType'
    BY <1>1, <1>2, <1>3, <1>4 DEF Reset, WireType, NoAnswer
  <2>7. ClientType'
    BY <1>3, <1>4, <2>2 DEF Reset, ClientType
  <2>8. QED
    BY <1>2, <2>3, <2>4, <2>5, <2>6, <2>7, PartsNext
<1>5. CASE ReadPage
  <2>1. replaying.todo # <<>> /\ delivery # None /\ delivery' = delivery
    BY <1>3, <1>5 DEF ReadPage, LockType, NoReplay
  <2>2. Len(Page) \in Nat /\ Tail(replaying.todo) \in Seq(ToSet(Threads))
    BY <2>1, PageMeans
  <2>3. replaying' \in Replay
    <3>1. /\ replaying.left \in 0 .. MaxReplay /\ replaying.from \in Nat
          /\ replaying.reset \in BOOLEAN /\ replaying.todo \in Seq(ToSet(Threads))
      BY <1>3 DEF LockType, Replay
    <3>2. Len(Page) <= replaying.left
      BY <1>5 DEF ReadPage, Fits
    <3>3. replaying.left - Len(Page) \in 0 .. MaxReplay /\ replaying.from + PageSize \in Nat
      BY <2>2, <3>1, <3>2, Bounds
    <3>4. QED
      BY <1>5, <2>2, <3>1, <3>3 DEF ReadPage, Replay
  <2>4. LockType'
    BY <1>3, <2>1, <2>3 DEF LockType
  <2>5. SessionType'
    <3>1. cutoffs' = [i \in Items |-> IF i \in ToSet(Page) THEN printed ELSE cutoffs[i]]
      BY <1>5 DEF ReadPage, Covers
    <3>2. cutoffs' \in [Items -> 0 .. printed]
      BY <1>2, <1>3, <3>1 DEF SessionType
    <3>3. UNCHANGED <<historyCutoff, reconciled, forgotten, highest>>
      BY <1>5 DEF ReadPage
    <3>4. QED
      BY <1>1, <1>3, <3>2, <3>3 DEF SessionType
  <2>6. ClientType'
    <3>1. shown' \in [Items -> 0 .. 2]
      <4>1. stage \in [Items -> 0 .. 2] /\ shown \in [Items -> 0 .. 2]
        BY DEF TypeOK
      <4>2. QED
        BY <1>5, <4>1 DEF ReadPage
    <3>2. QED
      BY <1>3, <1>5, <3>1 DEF ReadPage, ClientType
  <2>7. CallType' /\ WireType'
    BY <1>1, <1>5, StillTyped DEF ReadPage
  <2>8. QED
    BY <1>2, <2>4, <2>5, <2>6, <2>7, PartsNext
<1>6. CASE ReplayDone
  <2>1. CallType'
    BY <1>1, <1>2, <1>3, <1>6 DEF ReplayDone, CallType, callVars
  <2>2. LockType'
    <3>1. NoReplay \in Replay
      BY Bounds DEF NoReplay, Replay
    <3>2. QED
      BY <1>6, <3>1 DEF ReplayDone, LockType
  <2>3. SessionType' /\ WireType'
    BY <1>1, <1>6, StillTyped DEF ReplayDone
  <2>4. ClientType'
    <3>1. resetting' \in BOOLEAN /\ intact' \in BOOLEAN
      BY <1>3, <1>6 DEF ReplayDone, ClientType
    <3>2. QED
      BY <1>3, <1>6, <3>1 DEF ReplayDone, ClientType
  <2>5. QED
    BY <1>2, <2>1, <2>2, <2>3, <2>4, PartsNext
<1>7. CASE ReplayFails
  <2>1. CallType' /\ LockType'
    BY <1>1, <1>7, EndsTyped, StillTyped DEF ReplayFails
  <2>2. SessionType' /\ WireType'
    BY <1>1, <1>7, StillTyped DEF ReplayFails
  <2>3. ClientType'
    <3>1. intact' = FALSE /\ (down' = down \/ down' = TRUE) /\ UNCHANGED <<shown, resetting>>
      BY <1>7 DEF ReplayFails
    <3>2. QED
      BY <1>3, <3>1 DEF ClientType
  <2>4. QED
    BY <1>2, <2>1, <2>2, <2>3, PartsNext
<1>8. QED
  BY <1>4, <1>5, <1>6, <1>7

LEMMA WorkerTyped ==
  ASSUME TypeOK, Stamped, DeliverItem \/ DeliverReverted
  PROVE  TypeOK'
<1>1. /\ Delivers
      /\ UNCHANGED <<callVars, step, until, negotiated, wire, answered, history, stage,
                     printed, owes, down>>
  BY DEF DeliverItem, DeliverReverted
<1>2. CallType' /\ WireType' /\ CodexType'
  BY <1>1, StillTyped
<1>3. EventType'
  BY <1>1, Delivering DEF EventType
<1>4. LockType /\ SessionType /\ ClientType
  BY Parts
<1>5. Head(events) \in Flying /\ Head(events).stage \in 0 .. 2 /\ Head(events).at \in 0 .. printed
  <2>1. Head(events) \in Flying
    BY <1>1, Delivering
  <2>2. Head(events).stage \in 0 .. 2 /\ Head(events).at \in 1 .. printed
    BY <2>1, FlyingMeans
  <2>3. QED
    BY <2>1, <2>2
<1>6. CASE DeliverItem
  <2>1. shown' \in [Items -> 0 .. 2]
    BY <1>4, <1>5, <1>6 DEF DeliverItem, ClientType
  <2>2. ClientType'
    BY <1>4, <1>6, <2>1 DEF DeliverItem, ClientType
  <2>3. LockType' /\ SessionType'
    BY <1>1, <1>6, StillTyped DEF DeliverItem
  <2>4. QED
    BY <1>2, <1>3, <2>2, <2>3, PartsNext
<1>7. CASE DeliverReverted
  <2>1. reconciled' = FALSE
    BY <1>7 DEF DeliverReverted
  <2>2. CASE Resets(Head(events).at) /\ delivery' = "worker" /\ UNCHANGED <<forgotten, intact>>
    <3>1. /\ replaying' \in Replay /\ cutoffs' \in [Items -> 0 .. printed]
          /\ historyCutoff' = Head(events).at /\ highest' \in 0 .. printed
          /\ shown' \in [Items -> 0 .. 2] /\ resetting' = TRUE
      BY <1>5, <2>2, ResetMeans
    <3>2. LockType'
      BY <2>2, <3>1 DEF LockType, None
    <3>3. SessionType'
      BY <1>1, <1>4, <1>5, <2>1, <2>2, <3>1 DEF SessionType
    <3>4. ClientType'
      BY <1>1, <1>4, <2>2, <3>1 DEF ClientType
    <3>5. QED
      BY <1>2, <1>3, <3>2, <3>3, <3>4, PartsNext
  <2>3. CASE /\ UNCHANGED <<delivery, replaying, cutoffs, historyCutoff, shown, resetting,
                            forgotten, highest>>
             /\ intact' = intact \/ intact' = FALSE
    <3>1. LockType'
      BY <1>1, <2>3, StillTyped
    <3>2. SessionType'
      BY <1>1, <1>4, <2>1, <2>3 DEF SessionType
    <3>3. ClientType'
      BY <1>1, <1>4, <2>3 DEF ClientType
    <3>4. QED
      BY <1>2, <1>3, <3>1, <3>2, <3>3, PartsNext
  <2>4. QED
    BY <1>7, <2>2, <2>3 DEF DeliverReverted, clientVars
<1>8. QED
  BY <1>6, <1>7

LEMMA Typed == ASSUME IInv, [Next]_vars PROVE TypeOK'
<1>1. TypeOK /\ Control /\ Listed /\ Begun /\ Stamped
  BY DEF IInv, Items2, Notices
<1>2. CASE UNCHANGED vars
  <2>1. UNCHANGED <<printed, callVars, step, until, delivery, replaying, negotiated, adapterVars,
                    wire, answered, events, history, stage, owes, clientVars, down>>
    BY <1>2 DEF vars, codexVars
  <2>2. UNCHANGED <<forgotten, highest, shown, resetting, intact>>
    BY <2>1 DEF clientVars
  <2>3. QED
    BY <1>1, <2>1, <2>2, StillTyped, PartsNext
<1>3. CASE Next
  BY <1>1, <1>3, CodexTypes, RequestsTyped, ReplayTyped, WorkerTyped DEF Next
<1>4. QED
  BY <1>2, <1>3

----------------------------------------------------------------------------
(* Who may ask what *)

LEMMA EndsControl ==
  ASSUME TypeOK, Control, Ends, UNCHANGED <<negotiated, reconciled>>, wire' = wire
  PROVE  Control'
<1>1. step' = "idle" /\ kind' = None /\ delivery' # "request"
  BY DEF Ends, None
<1>2. replaying' = NoReplay \/ replaying' = replaying
  BY DEF Ends
<1>3. replaying'.reset => replaying.reset
  BY <1>2 DEF NoReplay
<1>4. QED
  BY <1>1, <1>3 DEF Control, None

LEMMA Controlled == ASSUME TypeOK, Control, [Next]_vars PROVE Control'
<1>1. CASE (\E i \in Items : Progress(i)) \/ Rewrite \/ RewriteUnasked \/ Refuse \/ Report
           \/ UNCHANGED vars
  <2>1. UNCHANGED <<callVars, step, delivery, replaying, negotiated, reconciled>>
    BY <1>1 DEF Progress, Rewrite, RewriteUnasked, Refuse, Report, vars, adapterVars
  <2>2. wire' # <<>> => wire # <<>>
    BY <1>1 DEF Progress, Rewrite, RewriteUnasked, Refuse, Report, Answers, vars
  <2>3. QED
    BY <2>1, <2>2 DEF Control, callVars
<1>2. CASE \E k \in Kinds : Asks(k)
  BY <1>2 DEF Asks, Goes, Control, Kinds, None, adapterVars
<1>3. CASE PassFence \/ FenceTimesOut
  <2>1. CASE Ends
    BY <1>3, <2>1, EndsControl DEF PassFence, FenceTimesOut, adapterVars
  <2>2. CASE /\ Goes("fence", "lock") \/ Goes("refence", "relock")
             /\ UNCHANGED <<callVars, delivery, replaying>>
    BY <1>3, <2>2 DEF PassFence, FenceTimesOut, Goes, Control, callVars, adapterVars
  <2>3. QED
    BY <1>3, <2>1, <2>2 DEF PassFence, FenceTimesOut
<1>4. CASE Lock
  <2>1. replaying' = replaying /\ replaying = NoReplay /\ callVars' = callVars
    BY <1>4 DEF Lock, TypeOK
  <2>2. UNCHANGED <<negotiated, reconciled>>
    BY <1>4 DEF Lock
  <2>3. CASE Goes("lock", "asked") /\ kind # "replay" /\ delivery' = "request"
    <3>1. kind \in {"rollback", "revert"}
      BY <2>3 DEF Goes, Control, TypeOK, Kinds
    <3>2. QED
      BY <2>1, <2>2, <2>3, <3>1 DEF Goes, Control, callVars
  <2>4. CASE Goes("lock", "refence") /\ UNCHANGED <<delivery, wire>>
    BY <2>1, <2>2, <2>4 DEF Goes, Control, callVars
  <2>5. QED
    BY <1>4, <2>3, <2>4 DEF Lock
<1>5. CASE AskFails
  BY <1>5, EndsControl DEF AskFails, adapterVars
<1>6. CASE Reset
  <2>1. step = "asked" /\ step' = "replay" /\ UNCHANGED <<callVars, delivery, negotiated, wire>>
    BY <1>6 DEF Reset, Goes
  <2>2. negotiated
    BY <2>1 DEF Control, TypeOK, Kinds
  <2>3. QED
    BY <2>1, <2>2 DEF Control, callVars
<1>7. CASE Relock
  <2>1. replaying'.reset = FALSE
    BY <1>7 DEF Relock, Replays
  <2>2. QED
    BY <1>7, <2>1 DEF Relock, Goes, Control, callVars, adapterVars
<1>8. CASE ReadPage
  <2>1. replaying'.reset = replaying.reset /\ step # "asked"
    BY <1>8 DEF ReadPage, Control, NoReplay
  <2>2. QED
    BY <1>8, <2>1 DEF ReadPage, Control, callVars
<1>9. CASE ReplayDone
  <2>1. replaying'.reset = FALSE /\ step # "asked" /\ delivery' = None
    BY <1>9 DEF ReplayDone, NoReplay
  <2>2. UNCHANGED <<callVars, negotiated, wire, reconciled>>
    BY <1>9 DEF ReplayDone, adapterVars
  <2>3. CASE delivery = "request" /\ step' = "last"
    BY <2>1, <2>2, <2>3 DEF Control, callVars, None
  <2>4. CASE delivery = "worker" /\ step' = step
    BY <2>1, <2>2, <2>4 DEF Control, callVars, None
  <2>5. QED
    BY <1>9, <2>3, <2>4 DEF ReplayDone
<1>10. CASE ReplayFails
  <2>1. UNCHANGED <<negotiated, wire, reconciled>>
    BY <1>10 DEF ReplayFails, adapterVars
  <2>2. CASE Ends
    BY <2>1, <2>2, EndsControl
  <2>3. CASE UNCHANGED <<callVars, step, until, delivery, replaying>>
    BY <2>1, <2>3 DEF Control, callVars
  <2>4. QED
    BY <1>10, <2>2, <2>3 DEF ReplayFails
<1>11. CASE DeliverItem
  BY <1>11 DEF DeliverItem, Control, callVars, adapterVars
<1>12. CASE DeliverReverted
  <2>1. UNCHANGED <<callVars, step, negotiated, wire>> /\ reconciled' = FALSE /\ delivery = None
    BY <1>12 DEF DeliverReverted, Delivers
  <2>2. CASE UNCHANGED <<delivery, replaying>>
    BY <2>1, <2>2 DEF Control, callVars
  <2>3. CASE negotiated /\ delivery' = "worker"
    BY <2>1, <2>3 DEF Control, callVars, None
  <2>4. QED
    BY <1>12, <2>2, <2>3 DEF DeliverReverted
<1>13. QED
  BY <1>1, <1>2, <1>3, <1>4, <1>5, <1>6, <1>7, <1>8, <1>9, <1>10, <1>11, <1>12 DEF Next

LEMMA AskedKeeps == ASSUME TypeOK, Control, Asked, [Next]_vars PROVE Asked'
<1>0. wire \in Seq(Kinds) /\ kind \in Kinds \union {None}
  BY DEF TypeOK
<1>1. CASE (\E i \in Items : Progress(i)) \/ RewriteUnasked \/ Report \/ UNCHANGED vars
  BY <1>1 DEF Progress, RewriteUnasked, Report, Asked, vars, clientVars
<1>2. CASE Rewrite \/ Refuse
  <2>1. /\ UNCHANGED <<step, delivery, replaying, intact>> /\ wire # <<>> /\ wire' = Tail(wire)
        /\ \/ step = "asked" /\ Len(wire) = 1
           \/ answered' = NoAnswer
    BY <1>2 DEF Rewrite, Refuse, Answers, clientVars
  <2>2. Len(wire) = 1 => wire' = <<>>
    BY <1>0, <2>1
  <2>3. answered'.what # None => step = "asked" /\ Len(wire) = 1
    BY <2>1 DEF NoAnswer
  <2>4. QED
    BY <2>1, <2>2, <2>3 DEF Asked
<1>3. CASE (\E k \in Kinds : Asks(k)) \/ PassFence \/ FenceTimesOut \/ Relock
  <2>1. UNCHANGED <<wire, answered, intact>> /\ step # "asked"
    BY <1>3 DEF Asks, PassFence, FenceTimesOut, Relock, Goes, clientVars
  <2>2. \/ UNCHANGED <<delivery, replaying>> \/ delivery' = None
        \/ delivery' = "request" /\ replaying'.reset = FALSE
    BY <1>3 DEF Asks, PassFence, FenceTimesOut, Relock, Ends, Replays
  <2>3. QED
    BY <2>1, <2>2 DEF Asked, None
<1>4. CASE Lock
  <2>1. replaying' = NoReplay /\ UNCHANGED <<answered, intact>> /\ step = "lock"
    BY <1>4 DEF Lock, Goes, TypeOK
  <2>2. answered.what = None /\ (intact => wire = <<>>)
    BY <2>1 DEF Asked
  <2>3. CASE Goes("lock", "asked") /\ wire' = Append(wire, kind)
    <3>1. wire = <<>> => Len(wire') = 1
      BY <2>3
    <3>2. QED
      BY <2>1, <2>2, <2>3, <3>1 DEF Asked, Goes, NoReplay
  <2>4. CASE wire' = wire
    BY <2>1, <2>2, <2>4 DEF Asked, NoReplay
  <2>5. QED
    BY <1>4, <2>3, <2>4 DEF Lock
<1>5. CASE AskFails
  <2>1. /\ delivery = "request" /\ delivery' = None /\ wire' = wire /\ answered' = NoAnswer
        /\ intact' = (intact /\ answered.what = "refused")
    BY <1>5 DEF AskFails, Ends, Control
  <2>2. answered.what = "refused" => wire = <<>>
    BY DEF Asked, None
  <2>3. QED
    BY <2>1, <2>2 DEF Asked, NoAnswer, None
<1>6. CASE Reset
  <2>1. wire = <<>> /\ wire' = wire /\ answered' = NoAnswer
    BY <1>6 DEF Reset, Asked, None
  <2>2. QED
    BY <2>1 DEF Asked, NoAnswer
<1>7. CASE ReadPage
  <2>1. wire = <<>> /\ UNCHANGED <<wire, answered, step>>
    BY <1>7 DEF ReadPage
  <2>2. QED
    BY <2>1 DEF Asked
<1>8. CASE ReplayDone
  <2>1. /\ step # "asked" /\ UNCHANGED <<wire, answered>> /\ delivery' = None
        /\ intact' = (intact \/ (replaying.reset /\ delivery = "request"))
    BY <1>8 DEF ReplayDone
  <2>2. QED
    BY <2>1 DEF Asked, None
<1>9. CASE ReplayFails
  <2>1. /\ UNCHANGED <<wire, answered>> /\ intact' = FALSE /\ step # "asked"
        /\ UNCHANGED <<delivery, replaying>> \/ delivery' = None
    BY <1>9 DEF ReplayFails, Ends, Control, NoReplay
  <2>2. QED
    BY <2>1 DEF Asked, None
<1>10. CASE DeliverItem
  BY <1>10 DEF DeliverItem, Asked
<1>11. CASE DeliverReverted
  <2>1. /\ UNCHANGED <<step, wire, answered>> /\ delivery = None
        /\ intact' = intact \/ intact' = FALSE
        /\ UNCHANGED delivery \/ delivery' = "worker"
    BY <1>11 DEF DeliverReverted, Delivers, clientVars
  <2>2. QED
    BY <2>1 DEF Asked, None
<1>12. QED
  BY <1>1, <1>2, <1>3, <1>4, <1>5, <1>6, <1>7, <1>8, <1>9, <1>10, <1>11 DEF Next

----------------------------------------------------------------------------
(* Items, and what is on its way *)

LEMMA StillKept ==
  ASSUME UNCHANGED history
  PROVE  \A i : (Kept(i)' <=> Kept(i)) /\ \A n : IsAt(i, n)' <=> IsAt(i, n)
  BY DEF Kept, IsAt

\* The steps that leave Codex's items alone.
Elsewhere ==
  \/ Refuse \/ Report \/ (\E k \in Kinds : Asks(k)) \/ PassFence \/ FenceTimesOut \/ Lock
  \/ AskFails \/ Reset \/ Relock \/ ReadPage \/ ReplayDone \/ ReplayFails \/ DeliverItem
  \/ DeliverReverted \/ UNCHANGED vars

LEMMA ElsewhereKeeps == ASSUME Elsewhere PROVE UNCHANGED <<history, stage>>
  BY DEF Elsewhere, Refuse, Report, Asks, PassFence, FenceTimesOut, Lock, AskFails, Reset,
     Relock, ReadPage, ReplayDone, ReplayFails, DeliverItem, DeliverReverted, vars, codexVars

LEMMA ElsewhereOrNot ==
  ASSUME [Next]_vars
  PROVE  Elsewhere \/ (\E i \in Items : Progress(i)) \/ Rewrite \/ RewriteUnasked
  BY DEF Next, Elsewhere

\* What a step may show: the stage an item has, that of a notification, or nothing.
LEMMA Shows ==
  ASSUME TypeOK, Listed, Elsewhere, NEW i \in Items
  PROVE  \/ shown'[i] \in {shown[i], stage[i], 0}
         \/ \E e \in Flying : e.item = i /\ shown'[i] = e.stage
<1>0. shown \in [Items -> 0 .. 2] /\ stage \in [Items -> 0 .. 2]
  BY DEF TypeOK
<1>1. CASE Refuse \/ Report \/ (\E k \in Kinds : Asks(k)) \/ PassFence \/ FenceTimesOut \/ Lock
           \/ AskFails \/ Relock \/ ReplayDone \/ ReplayFails \/ UNCHANGED vars
  BY <1>1 DEF Refuse, Report, Asks, PassFence, FenceTimesOut, Lock, AskFails, Relock, ReplayDone,
     ReplayFails, vars, clientVars
<1>2. CASE Reset \/ DeliverReverted
  <2>1. shown' = shown \/ shown' = [j \in Items |-> 0]
    BY <1>2 DEF Reset, DeliverReverted, Resets, clientVars
  <2>2. QED
    BY <2>1
<1>3. CASE ReadPage
  BY <1>3 DEF ReadPage
<1>4. CASE DeliverItem
  <2>1. Head(events) \in Flying
    <3>1. events # <<>> /\ events \in Seq([at : Nat, item : Items \union {None}, stage : 0 .. 2])
      BY <1>4 DEF DeliverItem, Delivers, TypeOK
    <3>2. QED
      BY <3>1, HeadAndTail DEF Flying
  <2>2. shown' = shown \/ shown' = [shown EXCEPT ![Head(events).item] = Head(events).stage]
    BY <1>4 DEF DeliverItem
  <2>3. QED
    BY <1>0, <2>1, <2>2
<1>5. QED
  BY <1>1, <1>2, <1>3, <1>4 DEF Elsewhere

LEMMA ItemsKeep == ASSUME IInv, [Next]_vars PROVE Items2'
<1>0. TypeOK /\ Listed /\ Begun /\ Stamped /\ Told
  BY DEF IInv, Items2, Notices
<1>1. shown \in [Items -> 0 .. 2] /\ stage \in [Items -> 0 .. 2]
  BY <1>0 DEF TypeOK
<1>2. CASE Elsewhere
  <2>1. UNCHANGED <<history, stage>>
    BY <1>2, ElsewhereKeeps
  <2>2. Listed'
    BY <1>0, <2>1 DEF Listed
  <2>3. ASSUME NEW i \in Items PROVE shown'[i] <= stage[i]
    <3>1. CASE shown'[i] \in {shown[i], stage[i], 0}
      BY <1>0, <1>1, <3>1 DEF Begun
    <3>2. CASE \E e \in Flying : e.item = i /\ shown'[i] = e.stage
      <4>1. i # None
        BY HistoryAssumption DEF HistoryAssumption, None
      <4>2. PICK e \in Flying : e.item = i /\ shown'[i] = e.stage
        BY <3>2
      <4>3. e.stage \in 1 .. stage[i]
        BY <1>0, <4>1, <4>2 DEF Told
      <4>4. QED
        BY <1>1, <4>2, <4>3
    <3>3. QED
      BY <1>0, <1>2, <3>1, <3>2, Shows
  <2>4. Begun'
    BY <1>0, <2>1, <2>3, StillKept DEF Begun
  <2>5. QED
    BY <2>2, <2>4 DEF Items2
<1>3. ASSUME NEW i \in Items, Progress(i) PROVE Items2'
  <2>1. /\ stage[i] \in 0 .. 1 /\ stage' = [stage EXCEPT ![i] = stage[i] + 1] /\ Listed'
        /\ \A j \in Items : Kept(j)' <=> Kept(j) \/ j = i
    BY <1>0, <1>3, Progressing
  <2>2. shown' = shown
    BY <1>3 DEF Progress, clientVars
  <2>3. ASSUME NEW j \in Items PROVE shown'[j] <= stage'[j] /\ (stage'[j] = 1 => Kept(j)')
    <3>1. CASE j = i
      <4>1. shown[i] <= stage[i] /\ stage'[i] = stage[i] + 1
        BY <1>0, <1>1, <2>1 DEF Begun
      <4>2. QED
        BY <1>1, <2>1, <2>2, <3>1, <4>1
    <3>2. CASE j # i
      BY <1>0, <1>1, <2>1, <2>2, <3>2 DEF Begun
    <3>3. QED
      BY <3>1, <3>2
  <2>4. QED
    BY <2>1, <2>3 DEF Items2, Begun
<1>4. CASE Rewrite \/ RewriteUnasked
  <2>1. TakeBack /\ shown' = shown
    BY <1>4 DEF Rewrite, RewriteUnasked, clientVars
  <2>2. PICK i \in Items : /\ stage' = [stage EXCEPT ![i] = 2] /\ Listed'
                           /\ \A j \in Items : Kept(j)' <=> Kept(j) /\ j # i
    BY <1>0, <2>1, TakingBack
  <2>3. ASSUME NEW j \in Items PROVE shown'[j] <= stage'[j] /\ (stage'[j] = 1 => Kept(j)')
    <3>1. CASE j = i
      BY <1>1, <2>1, <2>2, <3>1
    <3>2. CASE j # i
      BY <1>0, <1>1, <2>1, <2>2, <3>2 DEF Begun
    <3>3. QED
      BY <3>1, <3>2
  <2>4. QED
    BY <2>2, <2>3 DEF Items2, Begun
<1>5. QED
  BY <1>2, <1>3, <1>4, ElsewhereOrNot

\* Codex prints how far an item has come.
LEMMA ItemPrinted ==
  ASSUME IInv, NEW i \in Items, NEW to \in 1 .. 2, to = stage[i] + 1, Prints(i, to),
         stage' = [stage EXCEPT ![i] = to], \A j \in Items : Kept(j)' => Kept(j) \/ j = i,
         UNCHANGED <<shown, cutoffs, forgotten>>
  PROVE  Notices'
<1> DEFINE new == [at |-> printed + 1, item |-> i, stage |-> to]
<1>0. TypeOK /\ Stamped /\ Told /\ Rising /\ UpToDate /\ Forward /\ Begun
  BY DEF IInv, Notices, Items2
<1>1. /\ TypeOK /\ Stamped /\ Told /\ Rising /\ UpToDate /\ Forward /\ Begun
      /\ stage \in [Items -> 0 .. 2] /\ shown \in [Items -> 0 .. 2] /\ printed \in Nat
      /\ None \notin Items
  <2>1. None \notin Items
    BY HistoryAssumption DEF HistoryAssumption, None
  <2>2. stage \in [Items -> 0 .. 2] /\ shown \in [Items -> 0 .. 2] /\ printed \in Nat
    BY <1>0 DEF TypeOK
  <2>3. QED
    BY <1>0, <2>1, <2>2
<1>2. Flying' = Flying \union {new} /\ Stamped'
  BY <1>1, Printing
<1>3. new.at = printed + 1 /\ new.item = i /\ new.stage = to
  OBVIOUS
<1> HIDE DEF new
<1>4. \A e \in Flying : /\ e.item \in Items \union {None} /\ e.stage \in Nat
                        /\ e.at \in Nat /\ e.at <= printed
  BY <1>1, FlyingMeans
<1>5. stage'[i] = to /\ \A j \in Items : j # i => stage'[j] = stage[j]
  BY <1>1
<1>6. Told'
  <2> SUFFICES ASSUME NEW e \in Flying', e.item # None PROVE e.stage \in 1 .. stage'[e.item]
    BY DEF Told
  <2>1. CASE e \in Flying
    <3>1. e.item \in Items /\ e.stage \in 1 .. stage[e.item]
      BY <1>1, <1>4, <2>1 DEF Told
    <3>2. stage'[e.item] \in Nat /\ stage[e.item] <= stage'[e.item] /\ stage[e.item] \in Nat
      BY <1>1, <1>5, <3>1
    <3>3. QED
      BY <3>1, <3>2
  <2>2. CASE e = new
    BY <1>3, <1>5, <2>2
  <2>3. QED
    BY <1>2, <2>1, <2>2
<1>7. Rising'
  <2> SUFFICES ASSUME NEW e \in Flying', NEW d \in Flying', e.item # None, d.item = e.item,
                      e.at < d.at
               PROVE  e.stage < d.stage
    BY DEF Rising
  <2>1. CASE e \in Flying /\ d \in Flying
    BY <1>1, <2>1 DEF Rising
  <2>2. CASE e = new
    BY <1>2, <1>3, <1>4, <1>1, <2>2
  <2>3. CASE e \in Flying /\ d = new
    <3>1. e.item = i /\ e.stage \in 1 .. stage[i]
      BY <1>1, <1>3, <2>3 DEF Told
    <3>2. QED
      BY <1>1, <1>3, <1>4, <2>3, <3>1
  <2>4. QED
    BY <1>2, <2>1, <2>2, <2>3
<1>8. UpToDate'
  <2> SUFFICES ASSUME NEW e \in Flying', e.item # None, Kept(e.item)', e.stage # stage'[e.item]
               PROVE  \E d \in Flying' : d.item = e.item /\ e.at < d.at
    BY DEF UpToDate
  <2>1. e \in Flying /\ e.item \in Items
    BY <1>2, <1>3, <1>4, <1>5
  <2>2. CASE e.item = i
    BY <1>1, <1>2, <1>3, <1>4, <2>1, <2>2
  <2>3. CASE e.item # i
    <3>1. Kept(e.item) /\ e.stage # stage[e.item]
      BY <1>5, <2>1, <2>3
    <3>2. QED
      BY <1>1, <1>2, <2>1, <3>1 DEF UpToDate
  <2>4. QED
    BY <2>2, <2>3
<1>9. Forward'
  <2> SUFFICES ASSUME NEW e \in Flying', e.item # None
               PROVE  e.stage >= shown[e.item] \/ e.at <= cutoffs[e.item] \/ e.at <= forgotten
    BY DEF Forward
  <2>1. CASE e \in Flying
    BY <1>1, <2>1 DEF Forward
  <2>2. CASE e = new
    <3>1. shown[i] <= stage[i] /\ shown[i] \in Nat /\ stage[i] \in Nat
      BY <1>1 DEF Begun
    <3>2. QED
      BY <1>3, <2>2, <3>1
  <2>3. QED
    BY <1>2, <2>1, <2>2
<1>10. QED
  BY <1>2, <1>6, <1>7, <1>8, <1>9 DEF Notices

\* Less is on its way, or the same, of items that are as they were or are removed.
LEMMA LessOnItsWay ==
  ASSUME IInv, Flying' \subseteq Flying, Stamped',
         \A e \in Flying, d \in Flying' : d.at < e.at => e \in Flying',
         stage' \in [Items -> 0 .. 2], \A i \in Items : stage[i] <= stage'[i],
         \A i \in Items : Kept(i)' => Kept(i) /\ stage'[i] = stage[i]
  PROVE  Stamped' /\ Told' /\ Rising' /\ UpToDate'
<1>1. /\ TypeOK /\ Told /\ Rising /\ UpToDate /\ stage \in [Items -> 0 .. 2]
      /\ None \notin Items
  BY HistoryAssumption DEF HistoryAssumption, None, IInv, Notices, TypeOK
<1>2. \A e \in Flying' : e \in Flying /\ e.item \in Items \union {None} /\ e.at \in Nat
  BY <1>1, FlyingMeans
<1>3. Told'
  <2> SUFFICES ASSUME NEW e \in Flying', e.item # None PROVE e.stage \in 1 .. stage'[e.item]
    BY DEF Told
  <2>1. e.item \in Items /\ e.stage \in 1 .. stage[e.item] /\ stage[e.item] <= stage'[e.item]
    BY <1>1, <1>2 DEF Told
  <2>2. stage[e.item] \in Nat /\ stage'[e.item] \in Nat
    BY <1>1, <2>1
  <2>3. QED
    BY <2>1, <2>2
<1>4. Rising'
  BY <1>1, <1>2 DEF Rising
<1>5. UpToDate'
  <2> SUFFICES ASSUME NEW e \in Flying', e.item # None, Kept(e.item)', e.stage # stage'[e.item]
               PROVE  \E d \in Flying' : d.item = e.item /\ e.at < d.at
    BY DEF UpToDate
  <2>1. e \in Flying /\ Kept(e.item) /\ e.stage # stage[e.item]
    BY <1>2
  <2>2. PICK d \in Flying : d.item = e.item /\ e.at < d.at
    BY <1>1, <2>1 DEF UpToDate
  <2>3. QED
    BY <2>2
<1>6. QED
  BY <1>3, <1>4, <1>5

LEMMA NoticesKeep == ASSUME IInv, [Next]_vars PROVE Notices'
<1>0. /\ TypeOK /\ Listed /\ Begun /\ Stamped /\ Told /\ Rising /\ UpToDate /\ Forward
      /\ stage \in [Items -> 0 .. 2] /\ shown \in [Items -> 0 .. 2] /\ printed \in Nat
      /\ cutoffs \in [Items -> 0 .. printed] /\ forgotten \in 0 .. printed
      /\ None \notin Items
  <2>1. None \notin Items
    BY HistoryAssumption DEF HistoryAssumption, None
  <2>2. TypeOK /\ Listed /\ Begun /\ Stamped /\ Told /\ Rising /\ UpToDate /\ Forward
    BY DEF IInv, Notices, Items2
  <2>3. /\ stage \in [Items -> 0 .. 2] /\ shown \in [Items -> 0 .. 2] /\ printed \in Nat
        /\ cutoffs \in [Items -> 0 .. printed] /\ forgotten \in 0 .. printed
    BY <2>2 DEF TypeOK
  <2>4. QED
    BY <2>1, <2>2, <2>3
<1>1. \A e \in Flying : /\ e.item \in Items \union {None} /\ e.stage \in Nat
                        /\ e.at \in Nat /\ e.at <= printed
  BY <1>0, FlyingMeans
<1>2. CASE \E i \in Items : Progress(i)
  <2>1. PICK i \in Items : Progress(i)
    BY <1>2
  <2>2. /\ stage[i] \in 0 .. 1 /\ stage' = [stage EXCEPT ![i] = stage[i] + 1]
        /\ \A j \in Items : Kept(j)' <=> Kept(j) \/ j = i
    BY <1>0, <2>1, Progressing
  <2>3. Prints(i, stage[i] + 1) /\ UNCHANGED <<shown, cutoffs, forgotten>>
    BY <2>1 DEF Progress, adapterVars, clientVars
  <2>4. stage[i] + 1 \in 1 .. 2
    BY <2>2
  <2>5. QED
    BY <2>2, <2>3, <2>4, ItemPrinted
<1>3. CASE Rewrite \/ RewriteUnasked
  <2>1. TakeBack /\ UNCHANGED <<shown, cutoffs, forgotten>>
    BY <1>3 DEF Rewrite, RewriteUnasked, adapterVars, clientVars
  <2>2. PICK i \in Items :
          /\ (stage[i] = 1 /\ Prints(i, 2)) \/ UNCHANGED <<printed, events>>
          /\ stage' = [stage EXCEPT ![i] = 2] /\ stage' \in [Items -> 0 .. 2]
          /\ \A j \in Items : Kept(j)' <=> Kept(j) /\ j # i
    BY <1>0, <2>1, TakingBack
  <2>3. CASE stage[i] = 1 /\ Prints(i, 2)
    <3>1. 2 = stage[i] + 1 /\ 2 \in 1 .. 2 /\ \A j \in Items : Kept(j)' => Kept(j) \/ j = i
      BY <2>2, <2>3
    <3>2. QED
      BY <2>1, <2>2, <2>3, <3>1, ItemPrinted
  <2>4. CASE UNCHANGED events
    <3>1. Flying' = Flying /\ Stamped'
      BY <1>0, <2>4 DEF Flying, Stamped
    <3>2. \A j \in Items : stage[j] <= stage'[j] /\ (j # i => stage'[j] = stage[j])
      BY <1>0, <2>2
    <3>3. Stamped' /\ Told' /\ Rising' /\ UpToDate'
      BY <2>2, <3>1, <3>2, LessOnItsWay
    <3>4. Forward'
      BY <1>0, <2>1, <3>1 DEF Forward
    <3>5. QED
      BY <3>3, <3>4 DEF Notices
  <2>5. QED
    BY <2>2, <2>3, <2>4
<1>4. CASE Report
  <2>1. Prints(None, 0) /\ UNCHANGED <<history, stage, shown, cutoffs, forgotten>>
    BY <1>4 DEF Report, adapterVars, clientVars
  <2> DEFINE new == [at |-> printed + 1, item |-> None, stage |-> 0]
  <2>2. Flying' = Flying \union {new} /\ Stamped' /\ new.item = None
    BY <1>0, <2>1, Printing
  <2> HIDE DEF new
  <2>3. \A e \in Flying' : e.item # None => e \in Flying
    BY <2>2
  <2>4. Told' /\ Rising' /\ Forward'
    BY <1>0, <2>1, <2>3 DEF Told, Rising, Forward
  <2>5. UpToDate'
    BY <1>0, <2>1, <2>2, <2>3, StillKept DEF UpToDate
  <2>6. QED
    BY <2>2, <2>4, <2>5 DEF Notices
<1>5. CASE DeliverItem \/ DeliverReverted
  <2>1. Delivers /\ UNCHANGED <<history, stage>>
    BY <1>5 DEF DeliverItem, DeliverReverted
  <2> DEFINE e == Head(events)
  <2>2. /\ e \in Flying /\ Flying' = Flying \ {e} /\ Stamped'
        /\ \A d \in Flying' : e.at < d.at
    BY <1>0, <2>1, Delivering
  <2> HIDE DEF e
  <2>3. \A d \in Flying, c \in Flying' : c.at < d.at => d \in Flying'
    BY <1>1, <2>2
  <2>4. Stamped' /\ Told' /\ Rising' /\ UpToDate'
    BY <1>0, <2>1, <2>2, <2>3, StillKept, LessOnItsWay
  <2>5. Forward'
    <3> SUFFICES ASSUME NEW d \in Flying', d.item # None
                 PROVE  \/ d.stage >= shown'[d.item] \/ d.at <= cutoffs'[d.item]
                        \/ d.at <= forgotten'
      BY DEF Forward
    <3>1. d \in Flying /\ d.item \in Items /\ e.at < d.at
      BY <1>1, <2>2
    <3>2. d.stage >= shown[d.item] \/ d.at <= cutoffs[d.item] \/ d.at <= forgotten
      BY <1>0, <3>1 DEF Forward
    <3>3. CASE DeliverItem /\ shown' # shown
      <4>1. /\ shown' = [shown EXCEPT ![e.item] = e.stage] /\ UNCHANGED <<cutoffs, forgotten>>
        BY <3>3 DEF DeliverItem, adapterVars, e
      <4>2. CASE d.item = e.item
        <5>1. e.stage < d.stage /\ shown'[d.item] = e.stage
          BY <1>0, <2>2, <3>1, <4>1, <4>2 DEF Rising
        <5>2. QED
          BY <1>1, <2>2, <3>1, <5>1
      <4>3. CASE d.item # e.item
        BY <3>1, <3>2, <4>1, <4>3
      <4>4. QED
        BY <4>2, <4>3
    <3>4. CASE DeliverItem /\ shown' = shown
      BY <3>2, <3>4 DEF DeliverItem, adapterVars
    <3>5. CASE shown' = [j \in Items |-> 0]
      BY <1>1, <3>1, <3>5
    <3>6. CASE UNCHANGED <<shown, cutoffs, forgotten>>
      BY <3>2, <3>6
    <3>7. QED
      BY <1>5, <3>3, <3>4, <3>5, <3>6 DEF DeliverReverted, Resets, clientVars
  <2>6. QED
    BY <2>4, <2>5 DEF Notices
<1>6. CASE Elsewhere /\ UNCHANGED events
  <2>1. UNCHANGED <<history, stage>> /\ Flying' = Flying /\ Stamped'
    BY <1>0, <1>6, ElsewhereKeeps DEF Flying, Stamped
  <2>2. Stamped' /\ Told' /\ Rising' /\ UpToDate'
    BY <1>0, <2>1, StillKept, LessOnItsWay
  <2>3. Forward'
    <3> SUFFICES ASSUME NEW d \in Flying, d.item # None
                 PROVE  \/ d.stage >= shown'[d.item] \/ d.at <= cutoffs'[d.item]
                        \/ d.at <= forgotten'
      BY <2>1 DEF Forward
    <3>1. d.item \in Items /\ d.stage \in Nat /\ d.at <= printed /\ d.at \in Nat
      BY <1>1
    <3>2. d.stage >= shown[d.item] \/ d.at <= cutoffs[d.item] \/ d.at <= forgotten
      BY <1>0 DEF Forward
    <3>3. CASE UNCHANGED <<shown, cutoffs, forgotten>>
      BY <3>2, <3>3
    <3>4. CASE shown' = [j \in Items |-> 0]
      BY <3>1, <3>4
    <3>5. CASE shown' = shown /\ forgotten' = printed
      BY <3>1, <3>5
    <3>6. CASE ReadPage
      <4>1. /\ cutoffs' = [i \in Items |-> IF i \in ToSet(Page) THEN printed ELSE cutoffs[i]]
            /\ shown' = [i \in Items |-> IF i \in ToSet(Page) THEN stage[i] ELSE shown[i]]
            /\ forgotten' = forgotten
        BY <3>6 DEF ReadPage, Covers
      <4>2. CASE d.item \in ToSet(Page)
        BY <3>1, <4>1, <4>2
      <4>3. CASE d.item \notin ToSet(Page)
        BY <3>1, <3>2, <4>1, <4>3
      <4>4. QED
        BY <4>2, <4>3
    <3>7. UNCHANGED <<shown, cutoffs, forgotten>> \/ shown' = [j \in Items |-> 0]
          \/ (shown' = shown /\ forgotten' = printed) \/ ReadPage \/ DeliverItem
          \/ DeliverReverted \/ Report
      BY <1>6 DEF Elsewhere, Refuse, Asks, PassFence, FenceTimesOut, Lock, AskFails, Reset, Resets,
         Relock, ReplayDone, ReplayFails, vars, adapterVars, clientVars
    <3>8. ~DeliverItem /\ ~DeliverReverted /\ ~Report
      <4>1. events \in Seq([at : Nat, item : Items \union {None}, stage : 0 .. 2])
        BY <1>0 DEF TypeOK
      <4>2. ASSUME Delivers PROVE FALSE
        <5>1. Head(events) \in Flying /\ Flying' = Flying \ {Head(events)}
          BY <1>0, <4>2, Delivering
        <5>2. QED
          BY <2>1, <5>1
      <4>3. ASSUME Report PROVE FALSE
        <5>1. Flying' = Flying \union {[at |-> printed + 1, item |-> None, stage |-> 0]}
          BY <1>0, <4>3, Printing DEF Report
        <5>2. [at |-> printed + 1, item |-> None, stage |-> 0] \in Flying
          BY <2>1, <5>1
        <5>3. QED
          BY <1>0, <1>1, <5>2
      <4>4. QED
        BY <4>2, <4>3 DEF DeliverItem, DeliverReverted
    <3>9. QED
      BY <3>3, <3>4, <3>5, <3>6, <3>7, <3>8
  <2>4. QED
    BY <2>2, <2>3 DEF Notices
<1>7. Elsewhere /\ ~Report /\ ~DeliverItem /\ ~DeliverReverted => UNCHANGED events
  BY DEF Elsewhere, Refuse, Asks, PassFence, FenceTimesOut, Lock, AskFails, Reset,
     Relock, ReadPage, ReplayDone, ReplayFails, vars, codexVars
<1>8. QED
  BY <1>2, <1>3, <1>4, <1>5, <1>6, <1>7, ElsewhereOrNot

----------------------------------------------------------------------------
(* Items that have been removed *)

LEMMA NoneIsNoItem == None \notin Items
  BY HistoryAssumption DEF HistoryAssumption, None

LEMMA Unlocked == ASSUME TypeOK, delivery = None PROVE replaying = NoReplay /\ ~replaying.reset
  BY DEF TypeOK, NoReplay

\* Only a reset makes the transcript whole again.
LEMMA Seeking == ASSUME IInv, Elsewhere, ~Reset, Sought' PROVE Sought
<1>0. TypeOK /\ Control
  BY DEF IInv
<1>1. CASE UNCHANGED <<intact, delivery, replaying>>
  BY <1>1 DEF Sought
<1>2. CASE intact' = intact /\ (delivery' # "request" \/ ~replaying'.reset)
  BY <1>2 DEF Sought
<1>3. CASE intact' = FALSE /\ delivery' # "request"
  BY <1>3 DEF Sought
<1>4. CASE Refuse \/ Report \/ (\E k \in Kinds : Asks(k)) \/ DeliverItem \/ UNCHANGED vars
  BY <1>1, <1>4 DEF Refuse, Report, Asks, DeliverItem, vars, clientVars
<1>5. CASE PassFence \/ FenceTimesOut
  <2>1. intact' = intact /\ (UNCHANGED <<delivery, replaying>> \/ delivery' = None)
    BY <1>5 DEF PassFence, FenceTimesOut, Ends, clientVars
  <2>2. QED
    BY <1>1, <1>2, <2>1 DEF None
<1>6. CASE Lock
  <2>1. ~replaying.reset /\ UNCHANGED <<replaying, intact>>
    BY <1>0, <1>6, Unlocked DEF Lock
  <2>2. QED
    BY <1>2, <2>1
<1>7. CASE AskFails
  <2>1. (intact' = intact \/ intact' = FALSE) /\ delivery' = None
    BY <1>0, <1>7 DEF AskFails, Ends, Control
  <2>2. QED
    BY <1>2, <1>3, <2>1 DEF None
<1>8. CASE Relock
  BY <1>2, <1>8 DEF Relock, Replays, clientVars
<1>9. CASE ReadPage
  <2>1. UNCHANGED <<intact, delivery>> /\ replaying'.reset = replaying.reset
    BY <1>9 DEF ReadPage
  <2>2. QED
    BY <2>1 DEF Sought
<1>10. CASE ReplayDone
  <2>1. intact' = (intact \/ (replaying.reset /\ delivery = "request")) /\ delivery' = None
    BY <1>10 DEF ReplayDone
  <2>2. QED
    BY <2>1 DEF Sought, None
<1>11. CASE ReplayFails
  <2>1. intact' = FALSE /\ (delivery' = None \/ delivery' = "worker")
    BY <1>11 DEF ReplayFails, Ends
  <2>2. QED
    BY <1>3, <2>1 DEF None
<1>12. CASE DeliverReverted
  <2>1. delivery = None
    BY <1>12 DEF DeliverReverted, Delivers
  <2>2. \/ UNCHANGED <<intact, delivery, replaying>>
        \/ intact' = intact /\ delivery' = "worker"
        \/ intact' = FALSE /\ delivery' = delivery
    BY <1>12 DEF DeliverReverted, clientVars
  <2>3. QED
    BY <1>1, <1>2, <1>3, <2>1, <2>2 DEF None
<1>13. QED
  BY <1>4, <1>5, <1>6, <1>7, <1>8, <1>9, <1>10, <1>11, <1>12 DEF Elsewhere

LEMMA GoneStill ==
  ASSUME IInv, Flying' \subseteq Flying, UNCHANGED <<history, negotiated>>,
         highest' \in Nat, highest <= highest', historyCutoff' <= highest',
         answered'.what = "done" => answered' = answered,
         answered.what = "done" => answered' = answered \/ answered.at <= highest',
         Sought' => Sought \/ answered.what = "done"
  PROVE  Gone'
<1>1. TypeOK /\ Gone
  BY DEF IInv
<1>2. highest \in Nat /\ answered.at \in Nat
  BY <1>1 DEF TypeOK
<1>3. SUFFICES ASSUME NEW e \in Flying', e.item # None, ~Kept(e.item)'
               PROVE  /\ answered'.what = "done" => e.at <= answered'.at
                      /\ Sought' /\ negotiated /\ answered'.what # "done" => e.at <= highest'
  BY DEF Gone
<1>4. e \in Flying /\ ~Kept(e.item) /\ e.at \in Nat
  BY <1>1, <1>3, StillKept, FlyingMeans
<1>5. /\ answered.what = "done" => e.at <= answered.at
      /\ Sought /\ negotiated /\ answered.what # "done" => e.at <= highest
  BY <1>1, <1>3, <1>4 DEF Gone
<1>6. CASE answered.what = "done"
  BY <1>2, <1>4, <1>5, <1>6
<1>7. CASE answered.what # "done"
  BY <1>2, <1>4, <1>5, <1>7
<1>8. QED
  BY <1>6, <1>7

\* Nobody seeks a whole transcript while a mutation that is not waited for is carried out.
LEMMA Unseen ==
  ASSUME IInv, wire # <<>>
  PROVE  answered.what # "done" /\ (Sought => step = "asked" /\ Len(wire) = 1)
  BY DEF IInv, Asked, Sought, None

LEMMA NotAnswered == ASSUME IInv, ~negotiated PROVE answered.what # "done" /\ ~replaying.reset
<1>1. TypeOK /\ Control /\ Asked
  BY DEF IInv
<1>2. kind \in {"replay", "rollback", "revert", None}
  BY <1>1 DEF TypeOK, Kinds
<1>3. QED
  BY <1>1, <1>2 DEF Control, Asked, None

LEMMA GoneKeeps == ASSUME IInv, [Next]_vars PROVE Gone'
<1>0. TypeOK /\ Control /\ Asked /\ Listed /\ Begun /\ Stamped /\ Gone
  BY DEF IInv, Items2, Notices
<1>1. highest \in Nat /\ historyCutoff \in Nat /\ historyCutoff <= highest /\ printed \in Nat
  BY <1>0 DEF TypeOK, Gone
<1>2. \A e \in Flying : e.item \in Items \union {None} /\ e.at \in Nat /\ e.at <= printed
  BY <1>0, <1>1, FlyingMeans
<1>3. CASE \E i \in Items : Progress(i)
  <2>1. PICK i \in Items : Progress(i)
    BY <1>3
  <2>2. stage[i] + 1 \in 0 .. 2 /\ \A j \in Items : Kept(j)' <=> Kept(j) \/ j = i
    BY <1>0, <2>1, Progressing
  <2>3. Prints(i, stage[i] + 1)
        /\ UNCHANGED <<historyCutoff, highest, answered, negotiated, intact, delivery, replaying>>
    BY <2>1 DEF Progress, adapterVars, clientVars
  <2> DEFINE new == [at |-> printed + 1, item |-> i, stage |-> stage[i] + 1]
  <2>4. Flying' = Flying \union {new} /\ new.item = i
    BY <1>0, <2>2, <2>3, Printing
  <2> HIDE DEF new
  <2>5. \A e \in Flying' :
          e.item # None /\ ~Kept(e.item)' => e \in Flying /\ ~Kept(e.item)
    BY <1>2, <2>2, <2>4
  <2>6. Sought' = Sought
    BY <2>3 DEF Sought
  <2>7. QED
    BY <1>0, <2>3, <2>5, <2>6 DEF Gone
<1>4. ASSUME TakeBack PROVE Flying \subseteq Flying'
                            /\ \A e \in Flying' : e.at <= printed' /\ (e.item = None => e \in Flying)
  <2>1. PICK i \in Items : (stage[i] = 1 /\ Prints(i, 2)) \/ UNCHANGED <<printed, events>>
    BY <1>0, <1>4, TakingBack
  <2>2. CASE UNCHANGED <<printed, events>>
    BY <1>2, <2>2 DEF Flying
  <2>3. CASE Prints(i, 2)
    <3> DEFINE new == [at |-> printed + 1, item |-> i, stage |-> 2]
    <3>1. Flying' = Flying \union {new} /\ new.at = printed + 1 /\ new.item = i
          /\ printed' = printed + 1
      BY <1>0, <2>3, Printing
    <3> HIDE DEF new
    <3>2. QED
      BY <1>1, <1>2, <3>1, NoneIsNoItem
  <2>4. QED
    BY <2>1, <2>2, <2>3
<1>5. CASE Rewrite
  <2>1. /\ TakeBack /\ wire # <<>> /\ UNCHANGED <<historyCutoff, highest, intact, delivery, replaying>>
        /\ answered' = IF step = "asked" /\ Len(wire) = 1
                       THEN [what |-> "done", at |-> printed'] ELSE NoAnswer
    BY <1>5 DEF Rewrite, Answers, adapterVars, clientVars
  <2>2. CASE step = "asked" /\ Len(wire) = 1
    <3>1. answered'.what = "done" /\ answered'.at = printed'
      BY <2>1, <2>2
    <3>2. QED
      BY <1>1, <1>4, <2>1, <3>1 DEF Gone
  <2>3. CASE ~(step = "asked" /\ Len(wire) = 1)
    <3>1. answered'.what # "done"
      BY <2>1, <2>3 DEF NoAnswer, None
    <3>2. ~Sought'
      BY <2>1, <2>3, Unseen DEF Sought
    <3>3. QED
      BY <1>1, <2>1, <3>1, <3>2 DEF Gone
  <2>4. QED
    BY <2>2, <2>3
<1>6. CASE RewriteUnasked
  <2>1. ~negotiated /\ UNCHANGED <<negotiated, answered, historyCutoff, highest>>
    BY <1>6 DEF RewriteUnasked, adapterVars, clientVars
  <2>2. QED
    BY <1>1, <2>1, NotAnswered DEF Gone
<1>7. CASE Refuse
  <2>1. /\ wire # <<>> /\ UNCHANGED <<events, history, negotiated, highest, historyCutoff, intact,
                                      delivery, replaying>>
        /\ answered'.what \in {"refused", None}
    BY <1>7 DEF Refuse, Answers, NoAnswer, codexVars, adapterVars, clientVars
  <2>2. answered.what # "done" /\ answered'.what # "done"
    BY <2>1, Unseen DEF None
  <2>3. QED
    BY <1>1, <2>1, <2>2, GoneStill DEF Flying, Sought
<1>8. CASE Report
  <2>1. Prints(None, 0) /\ UNCHANGED <<history, negotiated, highest, historyCutoff, intact, delivery,
                                       replaying, answered>>
    BY <1>8 DEF Report, adapterVars, clientVars
  <2> DEFINE new == [at |-> printed + 1, item |-> None, stage |-> 0]
  <2>2. Flying' = Flying \union {new} /\ new.item = None
    BY <1>0, <2>1, Printing
  <2> HIDE DEF new
  <2>3. \A e \in Flying' : e.item # None => e \in Flying
    BY <2>2
  <2>4. Sought' = Sought
    BY <2>1 DEF Sought
  <2>5. QED
    BY <1>0, <2>1, <2>3, <2>4, StillKept DEF Gone
<1>9. CASE Reset
  <2>1. /\ answered.what = "done" /\ Resets(answered.at) /\ answered' = NoAnswer
        /\ UNCHANGED <<events, history, negotiated>>
    BY <1>9 DEF Reset, codexVars
  <2>2. answered.at \in 0 .. printed
    BY <1>0 DEF TypeOK
  <2>3. /\ historyCutoff' = answered.at /\ highest' \in 0 .. printed /\ highest <= highest'
        /\ answered.at <= highest'
    BY <1>0, <2>1, <2>2, ResetMeans
  <2>4. answered'.what # "done"
    BY <2>1 DEF NoAnswer, None
  <2>5. QED
    BY <1>1, <2>1, <2>3, <2>4, GoneStill DEF Flying
<1>10. CASE DeliverItem \/ DeliverReverted
  <2>1. Delivers /\ UNCHANGED <<answered, history, negotiated>>
    BY <1>10 DEF DeliverItem, DeliverReverted
  <2>2. Head(events) \in Flying /\ Flying' \subseteq Flying
    BY <1>0, <2>1, Delivering
  <2>3. Sought' => Sought
    BY <1>10, Seeking DEF Elsewhere, DeliverItem, DeliverReverted, Reset, Goes, Control, Delivers, IInv, None
  <2>4. CASE UNCHANGED <<highest, historyCutoff>>
    BY <1>1, <2>1, <2>2, <2>3, <2>4, GoneStill
  <2>5. CASE Resets(Head(events).at)
    <3>1. Head(events).at \in 0 .. printed
      BY <1>1, <1>2, <2>2
    <3>2. historyCutoff' <= highest' /\ highest' \in 0 .. printed /\ highest <= highest'
      BY <1>0, <2>5, <3>1, ResetMeans
    <3>3. QED
      BY <1>1, <2>1, <2>2, <2>3, <3>2, GoneStill
  <2>6. QED
    BY <1>10, <2>4, <2>5 DEF DeliverItem, DeliverReverted, adapterVars, clientVars
<1>11. CASE (\E k \in Kinds : Asks(k)) \/ PassFence \/ FenceTimesOut \/ Lock \/ AskFails \/ Relock
            \/ ReadPage \/ ReplayDone \/ ReplayFails \/ UNCHANGED vars
  <2>1. UNCHANGED <<events, history, negotiated, highest, historyCutoff>>
    BY <1>11 DEF Asks, PassFence, FenceTimesOut, Lock, AskFails, Relock, ReadPage, ReplayDone,
       ReplayFails, vars, codexVars, adapterVars, clientVars
  <2>2. \/ answered' = answered
        \/ answered' = NoAnswer /\ answered.what \in {None, "refused"}
    BY <1>11 DEF Asks, PassFence, FenceTimesOut, Lock, AskFails, Relock, ReadPage, ReplayDone,
       ReplayFails, vars
  <2>3. answered' = answered \/ (answered'.what # "done" /\ answered.what # "done")
    BY <2>2 DEF NoAnswer, None
  <2>4. CASE ~Reset
    <3>1. Sought' => Sought
      BY <1>11, <2>4, Seeking DEF Elsewhere
    <3>2. QED
      BY <1>1, <2>1, <2>3, <3>1, GoneStill DEF Flying
  <2>5. QED
    BY <1>9, <2>4
<1>12. QED
  BY <1>3, <1>5, <1>6, <1>7, <1>8, <1>9, <1>10, <1>11 DEF Next

----------------------------------------------------------------------------
(* The replay, and what follows *)

LEMMA AheadStill == ASSUME UNCHANGED <<history, replaying>> PROVE \A i : Ahead(i)' <=> Ahead(i)
  BY DEF Ahead, Kept, IsAt

\* An item that a page leaves out is still to come.
LEMMA AheadOfPage ==
  ASSUME IInv, ReadPage, NEW i \in Items, Ahead(i), i \notin ToSet(Page)
  PROVE  Ahead(i)'
<1> DEFINE todo == replaying.todo
<1>0. TypeOK /\ Listed
  BY DEF IInv, Items2
<1>1. /\ todo # <<>> /\ UNCHANGED history
      /\ replaying'.todo = (IF LastPage THEN Tail(todo) ELSE todo)
      /\ replaying'.from = (IF LastPage THEN 0 ELSE replaying.from + PageSize)
  BY DEF ReadPage, codexVars
<1>2. /\ ToSet(todo) = {Head(todo)} \union ToSet(Tail(todo))
      /\ \A n \in Nat :
           IsAt(i, n) /\ ThreadOf[i] = Head(todo) /\ n > replaying.from
           => ~LastPage /\ n > replaying.from + PageSize
  BY <1>0, <1>1, PageMeans
<1>3. Kept(i)' /\ \A n : IsAt(i, n)' <=> IsAt(i, n)
  BY <1>1, StillKept DEF Ahead
<1>4. PICK n \in Nat : IsAt(i, n) /\ (ThreadOf[i] = Head(todo) => n > replaying.from)
  BY <1>0, KeptMeans DEF Ahead
<1>5. n > 0
  BY <1>0, <1>4, KeptMeans DEF IsAt
<1> HIDE DEF todo
<1>6. CASE LastPage
  <2>1. ThreadOf[i] # Head(todo)
    BY <1>2, <1>4, <1>6
  <2>2. ThreadOf[i] \in ToSet(replaying'.todo) /\ replaying'.from = 0
    BY <1>1, <1>2, <1>6, <2>1 DEF Ahead, todo
  <2>3. QED
    BY <1>3, <1>4, <1>5, <2>2 DEF Ahead
<1>7. CASE ~LastPage
  <2>1. replaying'.todo = todo /\ replaying'.from = replaying.from + PageSize
    BY <1>1, <1>7
  <2>2. ThreadOf[i] = Head(todo) => n > replaying.from + PageSize
    BY <1>2, <1>4
  <2>3. QED
    BY <1>3, <1>4, <2>1, <2>2 DEF Ahead, todo
<1>8. QED
  BY <1>6, <1>7

\* A reset comes to every item.
LEMMA AheadOfReset ==
  ASSUME TypeOK, UNCHANGED history, replaying'.todo = Threads, replaying'.from = 0,
         NEW i \in Items, Kept(i)
  PROVE  Ahead(i)'
<1>1. ThreadOf[i] \in ToSet(Threads) /\ Kept(i)'
  BY KeptMeans, StillKept
<1>2. PICK n \in Nat : IsAt(i, n)
  BY KeptMeans
<1>3. n > 0 /\ IsAt(i, n)'
  BY <1>2, KeptMeans, StillKept DEF IsAt
<1>4. QED
  BY <1>1, <1>2, <1>3 DEF Ahead

LEMMA FollowsOn ==
  ASSUME NEW i \in Items, Follows(i), UNCHANGED <<history, stage, historyCutoff>>,
         shown'[i] = shown[i],
         \A e : e.item = i => (e \in Flying' <=> e \in Flying),
         \A e \in Flying : e.item = i /\ SnapshotCovered(e)' => SnapshotCovered(e),
         replaying.reset /\ Ahead(i) => replaying'.reset /\ Ahead(i)'
  PROVE  Follows(i)'
<1>1. Kept(i)' <=> Kept(i)
  BY StillKept
<1>2. CASE Kept(i)
  <2>1. Awaited(i) => Awaited(i)'
    BY DEF Awaited
  <2>2. QED
    BY <1>1, <1>2, <2>1 DEF Follows
<1>3. CASE ~Kept(i)
  BY <1>1, <1>3 DEF Follows
<1>4. QED
  BY <1>2, <1>3

\* The steps of which the transcript, what covers it and what is on its way know nothing.
LEMMA FollowsStill ==
  ASSUME TypeOK, Faithful, Sought' => Sought, Excused => Excused',
         UNCHANGED <<history, stage, shown, cutoffs, historyCutoff, highest, events>>,
         replaying' = replaying \/ (~replaying.reset)
  PROVE  Faithful'
<1>1. SUFFICES ASSUME Sought', ~Lowered', ~Excused', NEW i \in Items PROVE Follows(i)'
  BY DEF Faithful
<1>2. Follows(i)
  BY <1>1 DEF Faithful, Lowered
<1>3. Flying' = Flying /\ \A e : SnapshotCovered(e)' <=> SnapshotCovered(e)
  BY DEF Flying, SnapshotCovered
<1>4. replaying.reset /\ Ahead(i) => replaying'.reset /\ Ahead(i)'
  BY AheadStill
<1>5. QED
  BY <1>2, <1>3, <1>4, FollowsOn

\* A reset with what is on its way of removed items covered.
LEMMA FollowsReset ==
  ASSUME TypeOK, NEW cutoff \in 0 .. printed, Resets(cutoff), UNCHANGED history,
         \A e \in Flying' : e.item # None /\ ~Kept(e.item) => e.at <= cutoff,
         NEW i \in Items
  PROVE  Follows(i)'
<1>1. /\ replaying'.todo = Threads /\ replaying'.from = 0 /\ replaying'.reset = TRUE
      /\ historyCutoff' = cutoff /\ shown'[i] = 0
  BY ResetMeans
<1>2. Kept(i)' <=> Kept(i)
  BY StillKept
<1>3. CASE Kept(i)
  BY <1>1, <1>2, <1>3, AheadOfReset DEF Follows
<1>4. CASE ~Kept(i)
  BY <1>1, <1>2, <1>4, NoneIsNoItem DEF Follows
<1>5. QED
  BY <1>3, <1>4

\* A notification that is not covered is delivered.
LEMMA Shown ==
  ASSUME IInv, DeliverItem, ~SnapshotCovered(Head(events)), NEW i \in Items, Follows(i)
  PROVE  Follows(i)'
<1> DEFINE e == Head(events)
<1>0. TypeOK /\ Stamped /\ Rising /\ UpToDate
  BY DEF IInv, Notices
<1>1. /\ Delivers /\ e.item # None /\ shown' = [shown EXCEPT ![e.item] = e.stage]
      /\ UNCHANGED <<history, stage, cutoffs, historyCutoff, replaying>>
  BY DEF DeliverItem, adapterVars
<1>2. /\ e \in Flying /\ Flying' = Flying \ {e} /\ \A d \in Flying' : e.at < d.at
  BY <1>0, <1>1, Delivering
<1>3. /\ \A d \in Flying : d.at \in Nat /\ d.stage \in Nat /\ d.item \in Items \union {None}
      /\ shown \in [Items -> 0 .. 2] /\ cutoffs \in [Items -> Nat] /\ historyCutoff \in Nat
  <2>1. printed \in Nat /\ shown \in [Items -> 0 .. 2] /\ cutoffs \in [Items -> 0 .. printed]
        /\ historyCutoff \in 0 .. printed
    BY <1>0 DEF TypeOK
  <2>2. QED
    BY <1>0, <2>1, FlyingMeans
<1>4. ~SnapshotCovered(e)
  OBVIOUS
<1> HIDE DEF e
<1>5. ~replaying.reset
  BY <1>0, <1>1, Unlocked DEF Delivers
<1>6. (Kept(i)' <=> Kept(i)) /\ \A d : SnapshotCovered(d)' <=> SnapshotCovered(d)
  BY <1>1, StillKept DEF SnapshotCovered
<1>7. CASE i # e.item
  <2>1. shown'[i] = shown[i] /\ \A d : d.item = i => (d \in Flying' <=> d \in Flying)
    BY <1>1, <1>2, <1>3, <1>7
  <2>2. QED
    BY <1>1, <1>5, <1>6, <2>1, FollowsOn
<1>8. CASE i = e.item /\ Kept(i)
  <2>1. shown'[i] = e.stage /\ stage'[i] = stage[i]
    BY <1>1, <1>3, <1>8
  <2>2. CASE e.stage = stage[i]
    BY <1>6, <1>8, <2>1, <2>2 DEF Follows
  <2>3. CASE e.stage # stage[i]
    <3>1. PICK d \in Flying : d.item = i /\ e.at < d.at
      BY <1>0, <1>1, <1>2, <1>8, <2>3 DEF UpToDate
    <3>2. d \in Flying'
      BY <1>2, <1>3, <3>1
    <3>3. ~SnapshotCovered(d)
      BY <1>2, <1>3, <1>4, <1>8, <3>1 DEF SnapshotCovered
    <3>4. Awaited(i)'
      BY <1>6, <3>1, <3>2, <3>3 DEF Awaited
    <3>5. QED
      BY <1>6, <1>8, <3>4 DEF Follows
  <2>4. QED
    BY <2>2, <2>3
<1>9. CASE i = e.item /\ ~Kept(i)
  BY <1>2, <1>4, <1>9 DEF Follows, SnapshotCovered
<1>10. QED
  BY <1>7, <1>8, <1>9

LEMMA FaithfulKeeps == ASSUME IInv, [Next]_vars PROVE Faithful'
<1>0. TypeOK /\ Control /\ Asked /\ Listed /\ Begun /\ Stamped /\ Gone /\ Faithful
  BY DEF IInv, Items2, Notices
<1>1. /\ printed \in Nat /\ historyCutoff \in Nat /\ historyCutoff <= printed
      /\ cutoffs \in [Items -> 0 .. printed]
  BY <1>0 DEF TypeOK
<1>2. \A e \in Flying : e.item \in Items \union {None} /\ e.at \in Nat /\ e.at > 0 /\ e.at <= printed
  BY <1>0, <1>1, FlyingMeans
<1>3. ASSUME NEW i \in Items, Progress(i) PROVE Faithful'
  <2>1. /\ stage[i] + 1 \in 0 .. 2 /\ stage' = [stage EXCEPT ![i] = stage[i] + 1]
        /\ \A j \in Items, n \in Nat : IsAt(j, n) => IsAt(j, n)'
        /\ \A j \in Items : Kept(j)' <=> Kept(j) \/ j = i
    BY <1>0, <1>3, Progressing
  <2>2. Prints(i, stage[i] + 1)
        /\ UNCHANGED <<historyCutoff, highest, cutoffs, answered, negotiated, intact, delivery,
                       replaying, owes, shown>>
    BY <1>3 DEF Progress, adapterVars, clientVars
  <2> DEFINE new == [at |-> printed + 1, item |-> i, stage |-> stage[i] + 1]
  <2>3. Flying' = Flying \union {new} /\ new.item = i /\ new.at = printed + 1
    BY <1>0, <2>1, <2>2, Printing
  <2> HIDE DEF new
  <2>4. Sought' = Sought /\ Lowered' = Lowered /\ (Excused => Excused')
    BY <2>2, <2>3, InFlightMeans DEF Sought, Lowered, Excused, InFlight, Flying, ToSet
  <2>5. \A e : SnapshotCovered(e)' <=> SnapshotCovered(e)
    BY <2>2 DEF SnapshotCovered
  <2>6. ~SnapshotCovered(new)
    BY <1>1, <2>3 DEF SnapshotCovered
  <2>7. ASSUME NEW j \in Items, Follows(j) PROVE Follows(j)'
    <3>1. CASE j = i
      <4>1. Awaited(i)' /\ Kept(i)'
        BY <2>1, <2>3, <2>5, <2>6 DEF Awaited
      <4>2. QED
        BY <3>1, <4>1 DEF Follows
    <3>2. CASE j # i /\ Kept(j)
      <4>1. Kept(j)' /\ shown'[j] = shown[j] /\ stage'[j] = stage[j]
        BY <1>0, <2>1, <2>2, <3>2 DEF TypeOK
      <4>2. Awaited(j) => Awaited(j)'
        BY <2>3, <2>5 DEF Awaited
      <4>3. Ahead(j) => Ahead(j)'
        BY <2>1, <2>2, <4>1 DEF Ahead
      <4>4. QED
        BY <2>2, <2>7, <3>2, <4>1, <4>2, <4>3 DEF Follows
    <3>3. CASE j # i /\ ~Kept(j)
      BY <2>1, <2>2, <2>3, <2>7, <3>3 DEF Follows
    <3>4. QED
      BY <3>1, <3>2, <3>3
  <2>8. QED
    BY <1>0, <2>4, <2>7 DEF Faithful
<1>4. CASE Rewrite
  <2>1. /\ wire # <<>> /\ UNCHANGED <<intact, delivery, replaying>>
        /\ answered' = IF step = "asked" /\ Len(wire) = 1
                       THEN [what |-> "done", at |-> printed'] ELSE NoAnswer
    BY <1>4 DEF Rewrite, Answers, clientVars
  <2>2. Sought' => answered'.what = "done"
    BY <2>1, Unseen DEF Sought
  <2>3. QED
    BY <2>2 DEF Faithful, Excused
<1>5. CASE RewriteUnasked
  <2>1. ~negotiated' /\ owes'
    BY <1>5 DEF RewriteUnasked
  <2>2. QED
    BY <2>1 DEF Faithful, Excused
<1>6. CASE Refuse
  <2>1. /\ wire # <<>> /\ UNCHANGED <<owes, events, history, stage, shown, negotiated, cutoffs, highest,
                                      historyCutoff, intact, delivery, replaying>>
    BY <1>6 DEF Refuse, Answers, codexVars, adapterVars, clientVars
  <2>2. Sought' = Sought /\ (Excused => Excused')
    BY <2>1, Unseen DEF Sought, Excused, InFlight
  <2>3. QED
    BY <1>0, <2>1, <2>2, FollowsStill
<1>7. CASE Report
  <2>1. Prints(None, 0) /\ UNCHANGED <<history, stage, shown, cutoffs, negotiated, highest,
                                       historyCutoff, intact, delivery, replaying, answered>>
    BY <1>7 DEF Report, adapterVars, clientVars
  <2> DEFINE new == [at |-> printed + 1, item |-> None, stage |-> 0]
  <2>2. Flying' = Flying \union {new} /\ new.item = None
    BY <1>0, <2>1, Printing
  <2> HIDE DEF new
  <2>3. \E e \in Flying' : e.item = None
    BY <2>2
  <2>4. InFlight(None)'
    BY <2>3 DEF InFlight, Flying, ToSet
  <2>5. Sought' = Sought /\ Lowered' = Lowered /\ (Excused => Excused')
    BY <2>1, <2>4 DEF Sought, Lowered, Excused
  <2>6. \A e : SnapshotCovered(e)' <=> SnapshotCovered(e)
    BY <2>1 DEF SnapshotCovered
  <2>7. ASSUME NEW i \in Items, Follows(i) PROVE Follows(i)'
    <3>1. \A e : e.item = i => (e \in Flying' <=> e \in Flying)
      BY <2>2, NoneIsNoItem
    <3>2. Ahead(i)' <=> Ahead(i)
      BY <2>1, AheadStill
    <3>3. QED
      BY <2>1, <2>6, <2>7, <3>1, <3>2, FollowsOn
  <2>8. QED
    BY <1>0, <2>5, <2>7 DEF Faithful
<1>8. CASE Reset
  <2>1. answered.what = "done" /\ Resets(answered.at) /\ UNCHANGED <<events, history>>
    BY <1>8 DEF Reset, codexVars
  <2>2. answered.at \in 0 .. printed
    BY <1>0 DEF TypeOK
  <2>3. \A e \in Flying' : e.item # None /\ ~Kept(e.item) => e.at <= answered.at
    BY <1>0, <2>1 DEF Gone, Flying
  <2>4. \A i \in Items : Follows(i)'
    BY <1>0, <2>1, <2>2, <2>3, FollowsReset
  <2>5. QED
    BY <2>4 DEF Faithful
<1>9. CASE (\E k \in Kinds : Asks(k)) \/ PassFence \/ FenceTimesOut \/ Relock \/ AskFails \/ ReplayDone
           \/ UNCHANGED vars
  <2>1. UNCHANGED <<history, stage, shown, cutoffs, historyCutoff, highest, events, negotiated, owes>>
    BY <1>9 DEF Asks, PassFence, FenceTimesOut, Relock, AskFails, ReplayDone, vars, codexVars,
       adapterVars, clientVars
  <2>2. CASE ~Reset /\ ~ReplayDone
    <3>1. Sought' => Sought
      BY <1>9, <2>2, Seeking DEF Elsewhere
    <3>2. \/ answered' = answered
          \/ answered' = NoAnswer /\ answered.what \in {None, "refused"}
      BY <1>9, <2>2 DEF Asks, PassFence, FenceTimesOut, Relock, AskFails, vars
    <3>3. Excused => Excused'
      BY <2>1, <3>2 DEF Excused, InFlight, NoAnswer, None
    <3>4. replaying' = replaying \/ ~replaying.reset
      <4>1. CASE (\E k \in Kinds : Asks(k)) \/ UNCHANGED vars
        BY <4>1 DEF Asks, vars
      <4>2. CASE PassFence \/ FenceTimesOut
        <5>1. delivery = "request" => step \in {"asked", "replay"}
          BY <1>0 DEF Control
        <5>2. QED
          BY <4>2, <5>1 DEF PassFence, FenceTimesOut, Ends, Goes
      <4>3. CASE Relock
        BY <1>0, <4>3, Unlocked DEF Relock
      <4>4. CASE AskFails
        BY <1>0, <4>4 DEF AskFails, Control, NoReplay
      <4>5. QED
        BY <1>9, <2>2, <4>1, <4>2, <4>3, <4>4
    <3>5. QED
      BY <1>0, <2>1, <3>1, <3>3, <3>4, FollowsStill
  <2>3. CASE ReplayDone
    <3>1. Sought' => Sought
      BY <2>3, Seeking DEF Elsewhere, ReplayDone, Reset, Goes
    <3>2. replaying.todo = <<>> /\ UNCHANGED answered
      BY <2>3 DEF ReplayDone
    <3>3. Sought' => Sought /\ (Excused => Excused')
      BY <2>1, <3>1, <3>2 DEF Excused, InFlight
    <3>4. SUFFICES ASSUME Sought', ~Lowered', ~Excused', NEW i \in Items PROVE Follows(i)'
      BY DEF Faithful
    <3>5. Follows(i)
      BY <1>0, <2>1, <3>3, <3>4 DEF Faithful, Lowered
    <3>6. ~Ahead(i)
      BY <3>2 DEF Ahead, ToSet
    <3>7. Flying' = Flying /\ \A e : SnapshotCovered(e)' <=> SnapshotCovered(e)
      BY <2>1 DEF Flying, SnapshotCovered
    <3>8. QED
      BY <2>1, <3>5, <3>6, <3>7, FollowsOn
  <2>4. QED
    BY <1>8, <1>9, <2>2, <2>3
<1>10. CASE Lock
  <2>1. /\ delivery = None /\ UNCHANGED <<history, stage, shown, historyCutoff, highest, events, negotiated,
                                         owes, answered, replaying>>
        /\ cutoffs' = cutoffs \/ cutoffs' = [i \in Items |-> 0]
    BY <1>10 DEF Lock, adapterVars, codexVars
  <2>2. Sought' => Sought
    BY <1>10, Seeking DEF Elsewhere, Lock, Reset, Goes
  <2>3. Excused => Excused'
    BY <2>1 DEF Excused, InFlight
  <2>4. Flying' = Flying /\ Lowered' = Lowered
    BY <2>1 DEF Flying, Lowered
  <2>5. ASSUME NEW i \in Items, Follows(i) PROVE Follows(i)'
    <3>1. \A e \in Flying : e.item = i /\ SnapshotCovered(e)' => SnapshotCovered(e)
      BY <1>2, <2>1 DEF SnapshotCovered
    <3>2. ~replaying.reset
      BY <1>0, <2>1, Unlocked
    <3>3. QED
      BY <2>1, <2>4, <2>5, <3>1, <3>2, FollowsOn
  <2>6. QED
    BY <1>0, <2>2, <2>3, <2>4, <2>5 DEF Faithful
<1>11. CASE ReadPage
  <2>1. /\ UNCHANGED <<history, stage, historyCutoff, highest, events, negotiated, owes, answered, intact,
                       delivery>>
        /\ replaying'.reset = replaying.reset /\ replaying.todo # <<>>
        /\ cutoffs' = [i \in Items |-> IF i \in ToSet(Page) THEN printed ELSE cutoffs[i]]
        /\ shown' = [i \in Items |-> IF i \in ToSet(Page) THEN stage[i] ELSE shown[i]]
    BY <1>11 DEF ReadPage, Covers, codexVars
  <2>2. Sought' = Sought /\ Excused' = Excused /\ Flying' = Flying /\ Lowered' = Lowered
    BY <2>1 DEF Sought, Excused, InFlight, Flying, Lowered
  <2>3. ASSUME NEW i \in Items, Follows(i) PROVE Follows(i)'
    <3>1. CASE i \in ToSet(Page)
      <4>1. Kept(i)' /\ shown'[i] = stage'[i]
        BY <1>0, <2>1, <3>1, PageMeans, StillKept
      <4>2. QED
        BY <4>1 DEF Follows
    <3>2. CASE i \notin ToSet(Page)
      <4>1. shown'[i] = shown[i] /\ cutoffs'[i] = cutoffs[i]
        BY <2>1, <3>2
      <4>2. \A e : e.item = i /\ SnapshotCovered(e)' => SnapshotCovered(e)
        BY <2>1, <4>1 DEF SnapshotCovered
      <4>3. replaying.reset /\ Ahead(i) => replaying'.reset /\ Ahead(i)'
        BY <1>11, <2>1, <3>2, AheadOfPage
      <4>4. QED
        BY <2>1, <2>2, <2>3, <4>1, <4>2, <4>3, FollowsOn
    <3>3. QED
      BY <3>1, <3>2
  <2>4. QED
    BY <1>0, <2>2, <2>3 DEF Faithful
<1>12. CASE ReplayFails
  <2>1. intact' = FALSE /\ (delivery' = None \/ delivery' = "worker")
    BY <1>12 DEF ReplayFails, Ends
  <2>2. QED
    BY <2>1 DEF Faithful, Sought, None
<1>13. CASE DeliverItem
  <2>1. /\ Delivers /\ Head(events).item # None
        /\ UNCHANGED <<history, stage, historyCutoff, highest, cutoffs, negotiated, owes, answered, intact,
                       delivery, replaying>>
    BY <1>13 DEF DeliverItem, adapterVars
  <2> DEFINE e == Head(events)
  <2>2. e \in Flying /\ Flying' = Flying \ {e} /\ e.item # None
    BY <1>0, <2>1, Delivering
  <2> HIDE DEF e
  <2>3. InFlight(None)' <=> InFlight(None)
    <3>1. InFlight(None) <=> \E d \in Flying : d.item = None
      BY DEF InFlight, Flying, ToSet
    <3>2. InFlight(None)' <=> \E d \in Flying' : d.item = None
      BY DEF InFlight, Flying, ToSet
    <3>3. QED
      BY <2>2, <3>1, <3>2
  <2>4. Sought' = Sought /\ Lowered' = Lowered /\ (Excused => Excused')
    BY <2>1, <2>3 DEF Sought, Lowered, Excused
  <2>5. ASSUME NEW i \in Items, Follows(i) PROVE Follows(i)'
    <3>1. CASE ~SnapshotCovered(e)
      BY <1>13, <2>5, <3>1, Shown DEF e
    <3>2. CASE SnapshotCovered(e)
      <4>1. shown' = shown
        BY <1>13, <3>2 DEF DeliverItem, e
      <4>2. \A d : SnapshotCovered(d)' <=> SnapshotCovered(d)
        BY <2>1 DEF SnapshotCovered
      <4>3. Kept(i)' <=> Kept(i)
        BY <2>1, StillKept
      <4>4. Awaited(i) => Awaited(i)'
        BY <2>2, <3>2, <4>2 DEF Awaited
      <4>5. Ahead(i)' <=> Ahead(i)
        BY <2>1, AheadStill
      <4>6. QED
        BY <2>1, <2>2, <2>5, <4>1, <4>3, <4>4, <4>5 DEF Follows
    <3>3. QED
      BY <3>1, <3>2
  <2>6. QED
    BY <1>0, <2>4, <2>5 DEF Faithful
<1>14. CASE DeliverReverted
  <2>1. Delivers /\ Head(events).item = None
        /\ UNCHANGED <<history, stage, negotiated, answered, owes>>
    BY <1>14 DEF DeliverReverted
  <2> DEFINE e == Head(events)
  <2>2. e \in Flying /\ Flying' = Flying \ {e} /\ e.item = None
    BY <1>0, <2>1, Delivering
  <2> HIDE DEF e
  <2>3. Sought' => Sought
    BY <1>0, <1>14, Seeking DEF Elsewhere, DeliverReverted, Delivers, Reset, Goes, Control, None
  <2>4. SUFFICES ASSUME Sought', ~Lowered', ~Excused', NEW i \in Items PROVE Follows(i)'
    BY DEF Faithful
  <2>5. CASE reconciled /\ UNCHANGED <<delivery, replaying, cutoffs, historyCutoff, clientVars>>
    <3>1. negotiated /\ UNCHANGED <<shown, highest>>
      BY <1>0, <2>5 DEF Control, clientVars
    <3>2. ~Excused /\ ~Lowered
      BY <2>1, <2>4, <2>5, <3>1 DEF Excused, Lowered
    <3>3. Follows(i)
      BY <1>0, <2>3, <2>4, <3>2 DEF Faithful
    <3>4. \A d : d.item = i => (d \in Flying' <=> d \in Flying)
      BY <2>2, NoneIsNoItem
    <3>5. \A d : SnapshotCovered(d)' <=> SnapshotCovered(d)
      BY <2>5 DEF SnapshotCovered
    <3>6. Ahead(i)' <=> Ahead(i)
      BY <2>1, <2>5, AheadStill
    <3>7. QED
      BY <2>1, <2>5, <3>1, <3>3, <3>4, <3>5, <3>6, FollowsOn
  <2>6. CASE negotiated /\ Resets(e.at)
    <3>1. e.at \in 0 .. printed
      BY <1>1, <1>2, <2>2
    <3>2. historyCutoff' = e.at /\ highest' \in 0 .. printed /\ highest <= highest' /\ highest \in Nat
      <4>1. highest \in Nat
        BY <1>0 DEF TypeOK
      <4>2. QED
        BY <1>0, <2>6, <3>1, <4>1, ResetMeans
    <3>3. highest <= e.at
      BY <1>1, <2>4, <3>1, <3>2 DEF Lowered
    <3>4. \A d \in Flying : d.item # None /\ ~Kept(d.item) => d.at <= highest
      BY <1>0, <2>1, <2>3, <2>4, <2>6 DEF Gone, Excused
    <3>5. \A d \in Flying' : d.item # None /\ ~Kept(d.item) => d.at <= e.at
      BY <1>2, <2>2, <3>1, <3>2, <3>3, <3>4
    <3>6. QED
      BY <1>0, <2>1, <2>6, <3>1, <3>5, FollowsReset
  <2>7. CASE intact' = FALSE /\ UNCHANGED delivery
    BY <2>1, <2>4, <2>7 DEF Sought, Delivers, None
  <2>8. QED
    BY <1>14, <2>5, <2>6, <2>7 DEF DeliverReverted, e
<1>15. QED
  BY <1>3, <1>4, <1>5, <1>6, <1>7, <1>8, <1>9, <1>10, <1>11, <1>12, <1>13, <1>14 DEF Next

----------------------------------------------------------------------------
(* The replay of a reset *)

LEMMA EarlyKeeps == ASSUME IInv, [Next]_vars PROVE Early'
<1>0. TypeOK /\ Control /\ Early
  BY DEF IInv
<1>1. CASE UNCHANGED <<replaying, shown>> /\ (wire' # <<>> => wire # <<>>)
  BY <1>0, <1>1 DEF Early
<1>2. CASE ~replaying'.reset \/ wire' = <<>>
  BY <1>2 DEF Early
<1>3. CASE (\E i \in Items : Progress(i)) \/ Rewrite \/ RewriteUnasked \/ Refuse \/ Report
           \/ (\E k \in Kinds : Asks(k)) \/ UNCHANGED vars
  BY <1>1, <1>3 DEF Progress, Rewrite, RewriteUnasked, Refuse, Answers, Report, Asks, vars,
     clientVars
<1>4. CASE PassFence \/ FenceTimesOut \/ AskFails \/ ReplayFails
  <2>1. UNCHANGED <<shown, wire>>
    BY <1>4 DEF PassFence, FenceTimesOut, AskFails, ReplayFails, clientVars
  <2>2. replaying' = replaying \/ replaying' = NoReplay
    BY <1>4 DEF PassFence, FenceTimesOut, AskFails, ReplayFails, Ends
  <2>3. QED
    BY <1>1, <1>2, <2>1, <2>2 DEF NoReplay
<1>5. CASE Lock \/ Relock
  <2>1. ~replaying'.reset
    BY <1>0, <1>5, Unlocked DEF Lock, Relock, Replays
  <2>2. QED
    BY <1>2, <2>1
<1>6. CASE ReadPage \/ ReplayDone
  <2>1. wire' = <<>> \/ replaying' = NoReplay
    BY <1>6 DEF ReadPage, ReplayDone
  <2>2. QED
    BY <1>2, <2>1 DEF NoReplay
<1>7. CASE DeliverItem
  <2>1. ~replaying'.reset
    BY <1>0, <1>7, Unlocked DEF DeliverItem, Delivers
  <2>2. QED
    BY <1>2, <2>1
<1>8. CASE \E cutoff : Resets(cutoff)
  BY <1>8 DEF Early, Resets, Replays, Replayed
<1>9. CASE DeliverReverted /\ UNCHANGED replaying
  <2>1. ~replaying'.reset
    BY <1>0, <1>9, Unlocked DEF DeliverReverted, Delivers
  <2>2. QED
    BY <1>2, <2>1
<1>10. CASE Reset \/ DeliverReverted
  BY <1>8, <1>9, <1>10 DEF Reset, DeliverReverted
<1>11. QED
  BY <1>3, <1>4, <1>5, <1>6, <1>7, <1>10 DEF Next

\* Nothing is shown otherwise and nothing that is on its way is lost.
LEMMA WholeStill ==
  ASSUME Whole, UNCHANGED <<history, stage, shown>>, Flying \subseteq Flying',
         replaying' = replaying \/ ~replaying'.reset
  PROVE  Whole'
<1>1. SUFFICES ASSUME replaying'.reset, NEW i \in Items
               PROVE  (shown[i] = Truth(i) \/ InFlight(i) \/ Ahead(i))'
  BY DEF Whole
<1>2. replaying' = replaying /\ (shown[i] = Truth(i) \/ InFlight(i) \/ Ahead(i))
  BY <1>1 DEF Whole
<1>3. Truth(i)' = Truth(i)
  BY StillKept DEF Truth
<1>4. InFlight(i) => InFlight(i)'
  <2>1. InFlight(i) => \E e \in Flying : e.item = i
    BY DEF InFlight, Flying, ToSet
  <2>2. (\E e \in Flying' : e.item = i) => InFlight(i)'
    BY DEF InFlight, Flying, ToSet
  <2>3. QED
    BY <2>1, <2>2
<1>5. Ahead(i)' <=> Ahead(i)
  BY <1>2, AheadStill
<1>6. QED
  BY <1>2, <1>3, <1>4, <1>5

LEMMA WholeReset ==
  ASSUME TypeOK, NEW cutoff \in 0 .. printed, Resets(cutoff), UNCHANGED <<history, stage>>
  PROVE  Whole'
<1>1. /\ replaying'.todo = Threads /\ replaying'.from = 0
      /\ \A i \in Items : shown'[i] = 0
  BY ResetMeans
<1>2. ASSUME NEW i \in Items, ~Kept(i) PROVE Truth(i)' = 0
  BY <1>2, StillKept DEF Truth
<1>3. \A i \in Items : Kept(i) => Ahead(i)'
  BY <1>1, AheadOfReset
<1>4. QED
  BY <1>1, <1>2, <1>3 DEF Whole

LEMMA WholeKeeps == ASSUME IInv, [Next]_vars PROVE Whole'
<1>0. TypeOK /\ Control /\ Listed /\ Begun /\ Stamped /\ Early /\ Whole
  BY DEF IInv, Items2, Notices
<1>1. CASE ~replaying'.reset
  BY <1>1 DEF Whole
<1>2. ASSUME NEW i, Flying \subseteq Flying', InFlight(i) PROVE InFlight(i)'
  <2>1. \E e \in Flying : e.item = i
    BY <1>2 DEF InFlight, Flying, ToSet
  <2>2. (\E e \in Flying' : e.item = i) => InFlight(i)'
    BY DEF InFlight, Flying, ToSet
  <2>3. QED
    BY <1>2, <2>1, <2>2
<1>3. ASSUME NEW i \in Items, Progress(i) PROVE Whole'
  <2>1. /\ stage[i] + 1 \in 0 .. 2 /\ stage' = [stage EXCEPT ![i] = stage[i] + 1]
        /\ \A j \in Items, n \in Nat : IsAt(j, n) => IsAt(j, n)'
        /\ \A j \in Items : Kept(j)' <=> Kept(j) \/ j = i
    BY <1>0, <1>3, Progressing
  <2>2. Prints(i, stage[i] + 1) /\ UNCHANGED <<replaying, shown>>
    BY <1>3 DEF Progress, clientVars
  <2> DEFINE new == [at |-> printed + 1, item |-> i, stage |-> stage[i] + 1]
  <2>3. Flying' = Flying \union {new} /\ new.item = i
    BY <1>0, <2>1, <2>2, Printing
  <2> HIDE DEF new
  <2>4. InFlight(i)'
    <3>1. \E e \in Flying' : e.item = i
      BY <2>3
    <3>2. QED
      BY <3>1 DEF InFlight, Flying, ToSet
  <2>5. ASSUME NEW j \in Items, j # i, shown[j] = Truth(j) \/ InFlight(j) \/ Ahead(j)
        PROVE  (shown[j] = Truth(j) \/ InFlight(j) \/ Ahead(j))'
    <3>1. Kept(j)' <=> Kept(j)
      BY <2>1, <2>5
    <3>2. stage'[j] = stage[j]
      BY <1>0, <2>1, <2>5 DEF TypeOK
    <3>3. Truth(j)' = Truth(j)
      BY <3>1, <3>2 DEF Truth
    <3>4. Ahead(j) => Ahead(j)'
      BY <2>1, <2>2, <3>1 DEF Ahead
    <3>5. InFlight(j) => InFlight(j)'
      BY <1>2, <2>3
    <3>6. QED
      BY <2>2, <2>5, <3>3, <3>4, <3>5
  <2>6. QED
    BY <1>0, <2>2, <2>4, <2>5 DEF Whole
<1>4. CASE Rewrite
  <2>1. TakeBack /\ wire # <<>> /\ UNCHANGED <<replaying, shown>>
    BY <1>4 DEF Rewrite, Answers, clientVars
  <2>2. PICK i \in Items :
          /\ (stage[i] = 1 /\ Prints(i, 2)) \/ UNCHANGED <<printed, events>>
          /\ stage' = [stage EXCEPT ![i] = 2]
          /\ \A j \in Items, n \in Nat : j # i /\ IsAt(j, n) => IsAt(j, n)'
          /\ \A j \in Items : Kept(j)' <=> Kept(j) /\ j # i
    BY <1>0, <2>1, TakingBack
  <2>3. Flying \subseteq Flying'
    <3>1. CASE Prints(i, 2)
      <4>1. Flying' = Flying \union {[at |-> printed + 1, item |-> i, stage |-> 2]}
        BY <1>0, <3>1, Printing
      <4>2. QED
        BY <4>1
    <3>2. CASE UNCHANGED events
      BY <3>2 DEF Flying
    <3>3. QED
      BY <2>2, <3>1, <3>2
  <2>4. SUFFICES ASSUME replaying.reset, NEW j \in Items
                 PROVE  (shown[j] = Truth(j) \/ InFlight(j) \/ Ahead(j))'
    BY <2>1 DEF Whole
  <2>5. shown[j] = 0 /\ (shown[j] = Truth(j) \/ InFlight(j) \/ Ahead(j))
    BY <1>0, <2>1, <2>4 DEF Early, Whole
  <2>6. CASE j = i
    <3>1. ~Kept(j)'
      BY <2>2, <2>6
    <3>2. Truth(j)' = 0
      BY <3>1 DEF Truth
    <3>3. QED
      BY <2>1, <2>5, <3>2
  <2>7. CASE j # i
    <3>1. Kept(j)' <=> Kept(j)
      BY <2>2, <2>7
    <3>2. stage'[j] = stage[j]
      BY <1>0, <2>2, <2>7 DEF TypeOK
    <3>3. Truth(j)' = Truth(j)
      BY <3>1, <3>2 DEF Truth
    <3>4. Ahead(j) => Ahead(j)'
      BY <2>1, <2>2, <2>7, <3>1 DEF Ahead
    <3>5. InFlight(j) => InFlight(j)'
      BY <1>2, <2>3
    <3>6. QED
      BY <2>1, <2>5, <3>3, <3>4, <3>5
  <2>8. QED
    BY <2>6, <2>7
<1>5. CASE RewriteUnasked
  <2>1. ~negotiated /\ replaying' = replaying
    BY <1>5 DEF RewriteUnasked
  <2>2. QED
    BY <1>1, <2>1, NotAnswered
<1>6. CASE Report
  <2>1. Prints(None, 0) /\ UNCHANGED <<history, stage, replaying, shown>>
    BY <1>6 DEF Report, clientVars
  <2>2. Flying \subseteq Flying'
    <3>1. Flying' = Flying \union {[at |-> printed + 1, item |-> None, stage |-> 0]}
      BY <1>0, <2>1, Printing
    <3>2. QED
      BY <3>1
  <2>3. QED
    BY <1>0, <2>1, <2>2, WholeStill
<1>7. CASE Refuse \/ (\E k \in Kinds : Asks(k)) \/ PassFence \/ FenceTimesOut \/ Lock \/ AskFails
           \/ Relock \/ ReplayDone \/ ReplayFails \/ UNCHANGED vars
  <2>1. UNCHANGED <<history, stage, shown, events>>
    BY <1>7 DEF Refuse, Asks, PassFence, FenceTimesOut, Lock, AskFails, Relock, ReplayDone,
       ReplayFails, vars, codexVars, clientVars
  <2>2. replaying' = replaying \/ replaying' = NoReplay \/ replaying' = Replays(FALSE)
    BY <1>7 DEF Refuse, Asks, PassFence, FenceTimesOut, Lock, AskFails, Relock, ReplayDone,
       ReplayFails, vars, Ends
  <2>3. replaying' = replaying \/ ~replaying'.reset
    BY <2>2 DEF NoReplay, Replays
  <2>4. QED
    BY <1>0, <2>1, <2>3, WholeStill DEF Flying
<1>8. CASE Reset
  <2>1. Resets(answered.at) /\ UNCHANGED <<history, stage>>
    BY <1>8 DEF Reset, codexVars
  <2>2. answered.at \in 0 .. printed
    BY <1>0 DEF TypeOK
  <2>3. QED
    BY <1>0, <2>1, <2>2, WholeReset
<1>9. CASE ReadPage
  <2>1. /\ UNCHANGED <<history, stage, events>> /\ replaying'.reset = replaying.reset
        /\ replaying.todo # <<>>
        /\ shown' = [i \in Items |-> IF i \in ToSet(Page) THEN stage[i] ELSE shown[i]]
    BY <1>9 DEF ReadPage, codexVars
  <2>2. SUFFICES ASSUME replaying.reset, NEW i \in Items
                 PROVE  (shown[i] = Truth(i) \/ InFlight(i) \/ Ahead(i))'
    BY <2>1 DEF Whole
  <2>3. Kept(i)' <=> Kept(i)
    BY <2>1, StillKept
  <2>4. Truth(i)' = Truth(i)
    BY <2>1, <2>3 DEF Truth
  <2>5. CASE i \in ToSet(Page)
    <3>1. Kept(i) /\ shown'[i] = stage[i]
      BY <1>0, <2>1, <2>5, PageMeans
    <3>2. QED
      BY <2>4, <3>1 DEF Truth
  <2>6. CASE i \notin ToSet(Page)
    <3>1. shown'[i] = shown[i] /\ (Ahead(i) => Ahead(i)')
      BY <1>9, <2>1, <2>6, AheadOfPage
    <3>2. InFlight(i)' <=> InFlight(i)
      BY <2>1 DEF InFlight
    <3>3. QED
      BY <1>0, <2>2, <2>4, <3>1, <3>2 DEF Whole
  <2>7. QED
    BY <2>5, <2>6
<1>10. CASE DeliverItem
  <2>1. ~replaying'.reset
    BY <1>0, <1>10, Unlocked DEF DeliverItem, Delivers
  <2>2. QED
    BY <1>1, <2>1
<1>11. CASE DeliverReverted
  <2>1. Delivers /\ UNCHANGED <<history, stage>>
    BY <1>11 DEF DeliverReverted
  <2>2. CASE UNCHANGED replaying
    BY <1>0, <1>1, <2>1, <2>2, Unlocked DEF Delivers
  <2>3. CASE Resets(Head(events).at)
    <3>1. Head(events) \in Flying
      BY <1>0, <2>1, Delivering
    <3>2. Head(events).at \in 1 .. printed
      BY <1>0, <3>1, FlyingMeans
    <3>3. Head(events).at \in 0 .. printed
      BY <3>2
    <3>4. QED
      BY <1>0, <2>1, <2>3, <3>3, WholeReset
  <2>4. QED
    BY <1>11, <2>2, <2>3 DEF DeliverReverted
<1>12. QED
  BY <1>3, <1>4, <1>5, <1>6, <1>7, <1>8, <1>9, <1>10, <1>11 DEF Next

----------------------------------------------------------------------------
(* What it promises *)

LEMMA Initially == ASSUME Init PROVE IInv
<1>1. TypeOK
  BY TypesInitially
<1>2. /\ calls = 0 /\ kind = None /\ step = "idle" /\ delivery = None /\ replaying = NoReplay
      /\ reconciled = FALSE /\ wire = <<>> /\ answered = NoAnswer /\ events = <<>>
      /\ history = [t \in ToSet(Threads) |-> <<>>] /\ stage = [i \in Items |-> 0]
      /\ shown = [i \in Items |-> 0] /\ historyCutoff = 0 /\ highest = 0
  BY DEF Init
<1>3. Flying = {} /\ replaying.reset = FALSE /\ answered.what = None
  BY <1>2 DEF Flying, ToSet, NoReplay, NoAnswer
<1>4. \A t \in ToSet(Threads) : DOMAIN history[t] = {}
  BY <1>2
<1>5. \A i \in Items : ~Kept(i)
  BY <1>1, <1>4, KeptMeans DEF IsAt
<1>6. Control /\ Asked
  BY <1>2, <1>3 DEF Control, Asked, None
<1>7. Items2
  BY <1>2, <1>4 DEF Items2, Listed, Begun
<1>8. Stamped
  BY <1>2 DEF Stamped
<1>9. Told /\ Rising /\ UpToDate /\ Forward
  BY <1>3 DEF Told, Rising, UpToDate, Forward
<1>10. Gone /\ Early /\ Whole
  BY <1>2, <1>3 DEF Gone, Early, Whole
<1>11. \A i \in Items : Follows(i)
  BY <1>2, <1>3, <1>5 DEF Follows
<1>12. QED
  BY <1>1, <1>6, <1>7, <1>8, <1>9, <1>10, <1>11 DEF IInv, Notices, Faithful

LEMMA NextKeeps == ASSUME IInv, [Next]_vars PROVE IInv'
<1>1. TypeOK /\ Control /\ Asked
  BY DEF IInv
<1>2. TypeOK'
  BY Typed
<1>3. Control' /\ Asked'
  BY <1>1, Controlled, AskedKeeps
<1>4. Items2' /\ Notices'
  BY ItemsKeep, NoticesKeep
<1>5. Gone' /\ Faithful'
  BY GoneKeeps, FaithfulKeeps
<1>6. Early' /\ Whole'
  BY EarlyKeeps, WholeKeeps
<1>7. QED
  BY <1>2, <1>3, <1>4, <1>5, <1>6 DEF IInv

\* The inductive invariant: of each item it is known why the client will be shown it as it
\* is, whatever pages, notifications and answers are still to come.
THEOREM InvariantHolds == Spec => []IInv
<1>1. Init => IInv
  BY Initially
<1>2. IInv /\ [Next]_vars => IInv'
  BY NextKeeps
<1>3. QED
  BY <1>1, <1>2, PTL DEF Spec

\* Every variable keeps its type.
THEOREM TypeCorrect == Spec => []TypeOK
<1>1. IInv => TypeOK
  BY DEF IInv
<1>2. QED
  BY <1>1, InvariantHolds, PTL

LEMMA Settled == ASSUME IInv PROVE ViewSettles
<1>0. TypeOK /\ Control /\ Asked /\ Faithful
  BY DEF IInv
<1>1. SUFFICES ASSUME Quiet, intact, ~Lowered, NEW i \in Items PROVE shown[i] = Truth(i)
  BY DEF ViewSettles
<1>2. step = "idle" /\ delivery = None /\ ~owes /\ events = <<>>
  BY <1>1 DEF Quiet
<1>3. Flying = {} /\ ~InFlight(None) /\ ~replaying.reset
  BY <1>0, <1>2, Unlocked DEF Flying, ToSet, InFlight
<1>4. answered.what # "done"
  BY <1>0, <1>2 DEF Asked, None
<1>5. Follows(i)
  BY <1>0, <1>1, <1>2, <1>3, <1>4 DEF Faithful, Sought, Excused
<1>6. QED
  BY <1>3, <1>5 DEF Follows, Awaited, Truth

\* Once nothing is on its way, the client's transcript is Codex's history: reset_history
\* and the worker drop what a page or a reset covers, and no more than that, however they
\* come between each other.
THEOREM Settles == Spec => []ViewSettles
<1>1. IInv => ViewSettles
  BY Settled
<1>2. QED
  BY <1>1, InvariantHolds, PTL

LEMMA StepsForward ==
  ASSUME IInv, [Next]_vars, NEW i \in Items, shown'[i] < shown[i]
  PROVE  \/ resetting' /\ \A j \in Items : shown'[j] = 0
         \/ Head(events).at <= forgotten
<1>0. TypeOK /\ Listed /\ Begun /\ Stamped /\ Forward
  BY DEF IInv, Items2, Notices
<1>1. shown \in [Items -> 0 .. 2] /\ stage \in [Items -> 0 .. 2]
  BY <1>0 DEF TypeOK
<1>2. shown' # shown
  BY <1>1
<1>3. CASE ReadPage
  <2>1. shown'[i] \in {stage[i], shown[i]}
    BY <1>3 DEF ReadPage
  <2>2. QED
    BY <1>0, <1>1, <2>1 DEF Begun
<1>4. CASE DeliverItem
  <2> DEFINE e == Head(events)
  <2>1. /\ Delivers /\ e.item # None /\ ~SnapshotCovered(e)
        /\ shown' = [shown EXCEPT ![e.item] = e.stage]
    BY <1>2, <1>4 DEF DeliverItem
  <2>2. e \in Flying
    BY <1>0, <2>1, Delivering
  <2>3. e.item \in Items /\ e.stage \in Nat
    BY <1>0, <2>1, <2>2, FlyingMeans
  <2> HIDE DEF e
  <2>4. e.item = i /\ shown'[i] = e.stage
    BY <1>1, <2>1, <2>3
  <2>5. e.stage >= shown[i] \/ e.at <= cutoffs[i] \/ e.at <= forgotten
    BY <1>0, <2>1, <2>2, <2>4 DEF Forward
  <2>6. ~(e.at <= cutoffs[i])
    BY <2>1, <2>4 DEF SnapshotCovered
  <2>7. ~(e.stage >= shown[i])
    BY <1>1, <2>3, <2>4
  <2>8. QED
    BY <2>5, <2>6, <2>7 DEF e
<1>5. CASE Reset \/ DeliverReverted
  <2>1. \E cutoff : Resets(cutoff)
    BY <1>2, <1>5 DEF Reset, DeliverReverted, clientVars
  <2>2. QED
    BY <2>1 DEF Resets
<1>6. Next => ReadPage \/ DeliverItem \/ Reset \/ DeliverReverted \/ shown' = shown
  BY DEF Next, Progress, Rewrite, RewriteUnasked, Refuse, Report, Asks, PassFence, FenceTimesOut,
     Lock, AskFails, Relock, ReplayDone, ReplayFails, clientVars
<1>7. QED
  BY <1>2, <1>3, <1>4, <1>5, <1>6 DEF vars, clientVars

\* Only a reset takes anything back: no notification from before a page undoes what the
\* page has shown, but for those a resume has made uncovered again.
THEOREM GoesForward == Spec => NeverBackward
<1>1. IInv /\ [Next]_vars
      => [\A i \in Items :
            shown'[i] < shown[i]
            => \/ resetting' /\ \A j \in Items : shown'[j] = 0
               \/ Head(events).at <= forgotten]_vars
  BY StepsForward
<1>2. QED
  BY <1>1, InvariantHolds, PTL DEF Spec, NeverBackward

LEMMA EndsWhole ==
  ASSUME IInv, [Next]_vars, resetting, ~resetting'
  PROVE  \A i \in Items : shown[i] = Truth(i) \/ InFlight(i)
<1>1. Next => ReplayDone \/ resetting' = resetting \/ resetting' = TRUE
  BY DEF Next, Progress, Rewrite, RewriteUnasked, Refuse, Report, Asks, PassFence, FenceTimesOut,
     Lock, AskFails, Relock, ReplayFails, ReadPage, DeliverItem, Reset, DeliverReverted, Resets,
     clientVars
<1>2. ReplayDone
  BY <1>1 DEF vars, clientVars
<1>3. replaying.reset /\ replaying.todo = <<>>
  BY <1>2 DEF ReplayDone
<1>4. \A i : ~Ahead(i)
  BY <1>3 DEF Ahead, ToSet
<1>5. QED
  BY <1>3, <1>4 DEF IInv, Whole

\* The reset that a client is told to be complete has left it every item that is kept, in
\* its present state or with a notification behind, and none that is removed.
THEOREM CompletesWhole == Spec => CompleteIsWhole
<1>1. IInv /\ [Next]_vars
      => [resetting /\ ~resetting' => \A i \in Items : shown[i] = Truth(i) \/ InFlight(i)]_vars
  BY EndsWhole
<1>2. QED
  BY <1>1, InvariantHolds, PTL DEF Spec, CompleteIsWhole

=============================================================================
