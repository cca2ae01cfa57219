--------------------------- MODULE InteractionsProofs ---------------------------
(***************************************************************************)
(* Theorems of Interactions, for any sessions, callbacks and requests.     *)
(***************************************************************************)
EXTENDS Interactions, FiniteSetTheorems, TLAPS

USE InteractionAssumption DEF Nothing, Lanes, Turns

----------------------------------------------------------------------------
(* The inductive invariant *)

\* What waits in a lane: each request of the backend once, and before its task begins.
Waiting(l, i, c) ==
  i \in 1..Len(inbox[l]) /\ inbox[l][i].what = "request" /\ inbox[l][i].of = c

LaneSound(l) ==
  /\ \A i \in 1..Len(inbox[l]), c \in Callbacks :
       Waiting(l, i, c) =>
         /\ c \in emitted /\ Of[c] = l /\ task[c] = "none" /\ admitting[l] # c
         /\ \A j \in 1..Len(inbox[l]) : Waiting(l, j, c) => i = j
  /\ \A i \in 1..Len(inbox[l]) :
       /\ inbox[l][i].what = "resolved" => inbox[l][i].of \in resolved
       /\ inbox[l][i].what \in {"started", "completed"} => inbox[l][i].of \in Turns \ {0} /\ l \in Sessions

\* A callback is with the backend, in its lane, with its worker or with its task, in that
\* order; it has an answer once its task has given one or found it resolved.
CallbackSound(c) ==
  /\ \A l \in Lanes : admitting[l] = c => l = Of[c] /\ task[c] = "none"
  /\ task[c] # "none" \/ (\E l \in Lanes : admitting[l] = c) => c \in emitted
  /\ c \in pending => task[c] \in {"asking", "leaving"}
  /\ task[c] \in {"leaving", "answering"} => result[c] # Nothing
  /\ task[c] \in {"none", "asking", "leaving", "answering"} => replies[c] = <<>>
  /\ Len(replies[c]) <= 1
  /\ task[c] \in {"looking", "judging", "done"} /\ replies[c] = <<>> => c \in resolved
  /\ signal[c] = "dismissed" \/ result[c] = "dismissed" => c \in resolved

\* A request has a session, and a teardown that got as far as its sweep has marked it.
RequestSound(r) ==
  /\ req[r].pc \notin {"idle", "done"} => req[r].on \in Sessions /\ req[r].kind \in Kinds
  /\ req[r].pc \in {"closing", "clean", "resweep", "shut", "remove"} => req[r].kind # "cancel"
  /\ req[r].kind # "cancel" /\ req[r].pc \notin {"idle", "wait", "closing", "done"}
       => closing[req[r].on]

\* Nothing is admitted to a session that is marked.
Barred == \A s \in Sessions : closing[s] => admitting[s] = Nothing

IInv ==
  /\ TypeOK
  /\ (\A l \in Lanes : LaneSound(l)) /\ (\A c \in Callbacks : CallbackSound(c))
  /\ (\A r \in Requests : RequestSound(r))
  /\ Barred /\ NoneAfterSweep /\ NoneBusyWithoutTurn


LEMMA Initial == Init => IInv
<1> SUFFICES ASSUME Init PROVE IInv
  OBVIOUS
<1>1. Cardinality(pending) = 0
  BY FS_EmptySet DEF Init
<1>2. TypeOK
  BY <1>1 DEF Init, TypeOK, Request, Steps, TaskSteps, Kinds
<1>3. ASSUME NEW l \in Lanes PROVE LaneSound(l)
  BY DEF Init, LaneSound, Waiting
<1>4. ASSUME NEW c \in Callbacks PROVE CallbackSound(c)
  BY DEF Init, CallbackSound
<1>5. (\A r \in Requests : RequestSound(r)) /\ Barred /\ NoneAfterSweep /\ NoneBusyWithoutTurn
  BY DEF Init, RequestSound, Request, Barred, NoneAfterSweep, NoneBusyWithoutTurn
<1>6. QED
  BY <1>2, <1>3, <1>4, <1>5 DEF IInv

----------------------------------------------------------------------------
(* Lanes *)

LEMMA EventsTyped ==
  ASSUME TypeOK, NEW l \in Lanes
  PROVE  inbox[l] \in Seq(Events) /\ \A i \in 1..Len(inbox[l]) : inbox[l][i] \in Events
<1>1. inbox[l] \in Seq(Events)
  BY DEF TypeOK
<1>2. QED
  BY <1>1

LEMMA Appended ==
  ASSUME TypeOK, NEW l \in Lanes, NEW e \in Events, inbox' = [inbox EXCEPT ![l] = Append(@, e)]
  PROVE  /\ inbox' \in [Lanes -> Seq(Events)]
         /\ \A k \in Lanes \ {l} : inbox'[k] = inbox[k]
         /\ Len(inbox[l]) \in Nat /\ Len(inbox'[l]) = Len(inbox[l]) + 1
         /\ \A i \in 1..Len(inbox[l]) : inbox'[l][i] = inbox[l][i]
         /\ inbox'[l][Len(inbox[l]) + 1] = e
<1>1. inbox \in [Lanes -> Seq(Events)] /\ inbox[l] \in Seq(Events)
  BY DEF TypeOK
<1>2. inbox'[l] = Append(inbox[l], e) /\ \A k \in Lanes \ {l} : inbox'[k] = inbox[k]
  BY <1>1
<1> HIDE DEF Events
<1>3. Append(inbox[l], e) \in Seq(Events)
  BY <1>1
<1>4. inbox' \in [Lanes -> Seq(Events)]
  BY <1>1, <1>3
<1>5. QED
  BY <1>1, <1>2, <1>4

LEMMA Removed ==
  ASSUME TypeOK, NEW l \in Lanes, inbox[l] # <<>>, Took(l)
  PROVE  /\ inbox' \in [Lanes -> Seq(Events)]
         /\ \A k \in Lanes \ {l} : inbox'[k] = inbox[k]
         /\ Len(inbox[l]) \in Nat \ {0} /\ Len(inbox'[l]) = Len(inbox[l]) - 1
         /\ \A i \in 1..Len(inbox'[l]) : inbox'[l][i] = inbox[l][i + 1] /\ i + 1 \in 1..Len(inbox[l])
         /\ Head(inbox[l]) = inbox[l][1] /\ Head(inbox[l]) \in Events
<1>1. inbox \in [Lanes -> Seq(Events)] /\ inbox[l] \in Seq(Events)
  BY DEF TypeOK
<1>2. inbox'[l] = Tail(inbox[l]) /\ \A k \in Lanes \ {l} : inbox'[k] = inbox[k]
  BY <1>1 DEF Took
<1>3. Tail(inbox[l]) \in Seq(Events) /\ Head(inbox[l]) \in Events
  BY <1>1
<1>4. inbox' \in [Lanes -> Seq(Events)]
  BY <1>1, <1>3 DEF Took
<1>5. QED
  BY <1>1, <1>2, <1>3, <1>4

\* A lane that gets no event, and whose callbacks still wait, stays sound...
LEMMA LaneKept ==
  ASSUME NEW l \in Lanes, LaneSound(l), inbox'[l] = inbox[l],
         emitted \subseteq emitted', resolved \subseteq resolved',
         \A c \in Callbacks : c \in emitted /\ Of[c] = l /\ task[c] = "none" /\ admitting[l] # c
           => task'[c] = "none" /\ admitting'[l] # c
  PROVE  LaneSound(l)'
<1>1. \A i \in 1..Len(inbox[l]), c \in Callbacks : Waiting(l, i, c)' <=> Waiting(l, i, c)
  BY DEF Waiting
<1>2. QED
  BY <1>1 DEF LaneSound

\* ... and so does one that loses its first.
LEMMA LaneTaken ==
  ASSUME TypeOK, NEW l \in Lanes, LaneSound(l), inbox[l] # <<>>, Took(l),
         emitted \subseteq emitted', resolved \subseteq resolved',
         \A c \in Callbacks :
           c \in emitted /\ Of[c] = l /\ task[c] = "none" /\ admitting[l] # c /\ ~Waiting(l, 1, c)
             => task'[c] = "none" /\ admitting'[l] # c
  PROVE  LaneSound(l)'
<1>1. /\ Len(inbox[l]) \in Nat \ {0} /\ Len(inbox'[l]) = Len(inbox[l]) - 1
      /\ \A i \in 1..Len(inbox'[l]) : inbox'[l][i] = inbox[l][i + 1] /\ i + 1 \in 1..Len(inbox[l])
  BY Removed
<1>2. \A i \in 1..Len(inbox'[l]), c \in Callbacks : Waiting(l, i, c)' <=> Waiting(l, i + 1, c)
  BY <1>1 DEF Waiting
<1>3. ASSUME NEW i \in 1..Len(inbox'[l]), NEW c \in Callbacks, Waiting(l, i, c)'
      PROVE  /\ c \in emitted' /\ Of[c] = l /\ task'[c] = "none" /\ admitting'[l] # c
             /\ \A j \in 1..Len(inbox'[l]) : Waiting(l, j, c)' => i = j
  <2>1. Waiting(l, i + 1, c) /\ i + 1 \in 1..Len(inbox[l])
    BY <1>1, <1>2, <1>3
  <2>2. 1 \in 1..Len(inbox[l]) /\ i + 1 # 1 /\ i \in Nat
    BY <1>1
  <2>3. ~Waiting(l, 1, c)
    BY <2>1, <2>2 DEF LaneSound
  <2>4. ASSUME NEW j \in 1..Len(inbox'[l]), Waiting(l, j, c)' PROVE i = j
    <3>1. Waiting(l, j + 1, c) /\ j + 1 \in 1..Len(inbox[l]) /\ j \in Nat
      BY <1>1, <1>2, <2>4
    <3>2. i + 1 = j + 1
      BY <2>1, <3>1 DEF LaneSound
    <3>3. QED
      BY <2>2, <3>1, <3>2
  <2>5. QED
    BY <2>1, <2>3, <2>4 DEF LaneSound
<1>4. ASSUME NEW i \in 1..Len(inbox'[l])
      PROVE  /\ inbox'[l][i].what = "resolved" => inbox'[l][i].of \in resolved'
             /\ inbox'[l][i].what \in {"started", "completed"} => inbox'[l][i].of \in Turns \ {0} /\ l \in Sessions
  BY <1>1 DEF LaneSound
<1>5. QED
  BY <1>3, <1>4 DEF LaneSound

----------------------------------------------------------------------------
(* What a step leaves alone *)

\* A callback whose task does not move.
LEMMA CallbackKept ==
  ASSUME NEW c \in Callbacks, CallbackSound(c),
         emitted \subseteq emitted', resolved \subseteq resolved', pending' \subseteq pending,
         task'[c] = task[c], result'[c] = result[c], replies'[c] = replies[c],
         signal'[c] = "dismissed" => signal[c] = "dismissed",
         \A l \in Lanes : admitting'[l] = c => admitting[l] = c
  PROVE  CallbackSound(c)'
  BY DEF CallbackSound

LEMMA RequestKept ==
  ASSUME NEW r \in Requests, RequestSound(r), req'[r] = req[r],
         \A s \in Sessions : closing[s] => closing'[s]
  PROVE  RequestSound(r)'
  BY DEF RequestSound

\* Nothing is admitted, and no session marked.
LEMMA NothingAdmitted ==
  ASSUME Barred, NoneAfterSweep, UNCHANGED <<closing, req>>, pending' \subseteq pending,
         \A l \in Lanes : admitting'[l] \in {admitting[l], Nothing}
  PROVE  Barred' /\ NoneAfterSweep'
<1>1. Barred'
  BY DEF Barred
<1>2. NoneAfterSweep'
  BY DEF NoneAfterSweep
<1>3. QED
  BY <1>1, <1>2

\* What leaves the table makes room in it.
LEMMA Smaller ==
  ASSUME TypeOK, pending' \subseteq pending
  PROVE  pending' \subseteq Callbacks /\ Cardinality(pending') <= PendingLimit
<1>1. IsFiniteSet(pending) /\ pending \subseteq Callbacks
  BY FS_Subset DEF TypeOK
<1>2. IsFiniteSet(pending') /\ Cardinality(pending') <= Cardinality(pending)
  BY <1>1, FS_Subset
<1>3. Cardinality(pending) \in Nat /\ Cardinality(pending') \in Nat
  BY <1>1, <1>2, FS_CardinalityType
<1>4. QED
  BY <1>1, <1>2, <1>3 DEF TypeOK

----------------------------------------------------------------------------
(* The backend *)

\* An event at the end of a lane, a request of the backend at its first appearance.
LEMMA BackendKeeps ==
  ASSUME IInv, NEW l \in Lanes, NEW e \in Events,
         inbox' = [inbox EXCEPT ![l] = Append(@, e)],
         UNCHANGED <<dataVars, admitting, callbackVars, shown, req>>,
         turn' \in [Sessions -> Turns], turns' \in Turns,
         emitted \subseteq emitted', resolved \subseteq resolved',
         resolved' \subseteq emitted', emitted' \subseteq Callbacks,
         e.what = "request" => e.of \in emitted' \ emitted /\ Of[e.of] = l,
         e.what = "resolved" => e.of \in resolved',
         e.what \in {"started", "completed"} => e.of \in Turns \ {0} /\ l \in Sessions
  PROVE  IInv'
<1> USE DEF dataVars, callbackVars
<1>1. /\ inbox' \in [Lanes -> Seq(Events)]
      /\ \A k \in Lanes \ {l} : inbox'[k] = inbox[k]
      /\ Len(inbox[l]) \in Nat /\ Len(inbox'[l]) = Len(inbox[l]) + 1
      /\ \A i \in 1..Len(inbox[l]) : inbox'[l][i] = inbox[l][i]
      /\ inbox'[l][Len(inbox[l]) + 1] = e
  BY Appended DEF IInv
<1>2. TypeOK'
  BY <1>1 DEF IInv, TypeOK
<1>3. ASSUME NEW k \in Lanes \ {l} PROVE LaneSound(k)'
  BY <1>1, LaneKept DEF IInv
<1>4. LaneSound(l)'
  <2>0. PICK n \in Nat : n = Len(inbox[l])
    BY <1>1
  <2>1. ASSUME NEW i \in 1..n, NEW c \in Callbacks
        PROVE  Waiting(l, i, c)' <=> Waiting(l, i, c)
    BY <1>1, <2>0 DEF Waiting
  <2>2. ASSUME NEW c \in Callbacks, Waiting(l, n + 1, c)'
        PROVE  /\ c \in emitted' \ emitted /\ Of[c] = l /\ task[c] = "none" /\ admitting[l] # c
               /\ \A i \in 1..n : ~Waiting(l, i, c)
    <3>1. c \in emitted' \ emitted /\ Of[c] = l
      BY <1>1, <2>0, <2>2 DEF Waiting
    <3>2. QED
      BY <2>0, <3>1 DEF IInv, LaneSound, CallbackSound
  <2>3. \A i \in 1..Len(inbox'[l]) : i \in 1..n \/ i = n + 1
    BY <1>1, <2>0
  <2>4. ASSUME NEW i \in 1..Len(inbox'[l]), NEW c \in Callbacks, Waiting(l, i, c)'
        PROVE  /\ c \in emitted' /\ Of[c] = l /\ task[c] = "none" /\ admitting[l] # c
               /\ \A j \in 1..Len(inbox'[l]) : Waiting(l, j, c)' => i = j
    <3>1. CASE i \in 1..n
      <4>1. Waiting(l, i, c)
        BY <2>1, <2>4, <3>1
      <4>2. ~Waiting(l, n + 1, c)'
        BY <2>2, <3>1, <4>1
      <4>3. ASSUME NEW j \in 1..Len(inbox'[l]), Waiting(l, j, c)' PROVE i = j
        <5>1. j \in 1..n
          BY <2>3, <4>2, <4>3
        <5>2. Waiting(l, j, c)
          BY <2>1, <4>3, <5>1
        <5>3. QED
          BY <2>0, <3>1, <4>1, <5>1, <5>2 DEF IInv, LaneSound
      <4>4. QED
        BY <2>0, <3>1, <4>1, <4>3 DEF IInv, LaneSound
    <3>2. CASE i = n + 1
      <4>1. \A j \in 1..n : ~Waiting(l, j, c)'
        BY <2>1, <2>2, <2>4, <3>2
      <4>2. QED
        BY <2>2, <2>3, <2>4, <3>2, <4>1
    <3>3. QED
      BY <2>3, <3>1, <3>2
  <2>5. ASSUME NEW i \in 1..Len(inbox'[l])
        PROVE  /\ inbox'[l][i].what = "resolved" => inbox'[l][i].of \in resolved'
               /\ inbox'[l][i].what \in {"started", "completed"} => inbox'[l][i].of \in Turns \ {0} /\ l \in Sessions
    BY <1>1, <2>0, <2>3 DEF IInv, LaneSound
  <2>6. QED
    BY <2>4, <2>5 DEF LaneSound
<1>5. ASSUME NEW c \in Callbacks PROVE CallbackSound(c)'
  BY CallbackKept DEF IInv
<1>6. ASSUME NEW r \in Requests PROVE RequestSound(r)'
  BY RequestKept DEF IInv
<1>7. Barred' /\ NoneAfterSweep' /\ NoneBusyWithoutTurn'
  BY NothingAdmitted DEF IInv, NoneBusyWithoutTurn
<1>8. QED
  BY <1>2, <1>3, <1>4, <1>5, <1>6, <1>7 DEF IInv

LEMMA BackendStepKeeps ==
  ASSUME IInv, BackendStep PROVE IInv'
<1> DEFINE Event(kind, which) == [what |-> kind, of |-> which]
<1>1. ASSUME NEW s \in Sessions, TurnStarts(s) PROVE IInv'
  <2>1. turns + 1 \in Turns \ {0} /\ turns' = turns + 1
    BY <1>1 DEF TurnStarts, IInv, TypeOK
  <2>2. Event("started", turns + 1) \in Events
    BY <2>1 DEF Events
  <2>3. turn' \in [Sessions -> Turns] /\ resolved \subseteq emitted /\ emitted \subseteq Callbacks
    BY <1>1, <2>1 DEF TurnStarts, IInv, TypeOK
  <2>4. QED
    BY <1>1, <2>1, <2>2, <2>3, BackendKeeps DEF TurnStarts, Sent
<1>2. ASSUME NEW s \in Sessions, TurnEnds(s) PROVE IInv'
  <2>1. turn[s] \in Turns \ {0} /\ turns' = turns /\ turns \in Turns
    BY <1>2 DEF TurnEnds, IInv, TypeOK
  <2>2. Event("completed", turn[s]) \in Events
    BY <2>1 DEF Events
  <2>3. turn' \in [Sessions -> Turns] /\ resolved \subseteq emitted /\ emitted \subseteq Callbacks
    BY <1>2, <2>1 DEF TurnEnds, IInv, TypeOK
  <2>4. QED
    BY <1>2, <2>1, <2>2, <2>3, BackendKeeps DEF TurnEnds, Sent
<1>3. ASSUME NEW c \in Callbacks, Asks(c) PROVE IInv'
  <2>1. Event("request", c) \in Events /\ Of[c] \in Lanes
    BY DEF Events
  <2>2. turn \in [Sessions -> Turns] /\ turns \in Turns /\ resolved \subseteq emitted /\ emitted \subseteq Callbacks
    BY DEF IInv, TypeOK
  <2>3. QED
    BY <1>3, <2>1, <2>2, BackendKeeps DEF Asks, Sent
<1>4. ASSUME NEW c \in Callbacks, Resolves(c) PROVE IInv'
  <2>1. Event("resolved", c) \in Events /\ Of[c] \in Lanes
    BY DEF Events
  <2>2. turn \in [Sessions -> Turns] /\ turns \in Turns /\ resolved \subseteq emitted /\ emitted \subseteq Callbacks
    BY DEF IInv, TypeOK
  <2>3. QED
    BY <1>4, <2>1, <2>2, BackendKeeps DEF Resolves, Sent
<1>5. QED
  BY <1>1, <1>2, <1>3, <1>4 DEF BackendStep

----------------------------------------------------------------------------
(* Workers *)

LEMMA Reached ==
  ASSUME IInv, NEW l \in Lanes, NEW kind, Upcoming(l, kind)
  PROVE  /\ inbox[l] # <<>> /\ Head(inbox[l]) \in Events /\ 1 \in 1..Len(inbox[l])
         /\ inbox[l][1] = Head(inbox[l]) /\ inbox[l][1].what = kind
         /\ kind = "request" =>
              /\ Head(inbox[l]).of \in Callbacks /\ Waiting(l, 1, Head(inbox[l]).of)
              /\ Head(inbox[l]).of \in emitted /\ Of[Head(inbox[l]).of] = l
              /\ task[Head(inbox[l]).of] = "none" /\ admitting[l] # Head(inbox[l]).of
         /\ kind = "resolved" => Head(inbox[l]).of \in resolved /\ Head(inbox[l]).of \in Callbacks
         /\ kind \in {"started", "completed"} => Head(inbox[l]).of \in Turns \ {0} /\ l \in Sessions
<1>1. inbox[l] # <<>> /\ inbox[l] \in Seq(Events)
  BY EventsTyped DEF Upcoming, IInv
<1>2. Head(inbox[l]) \in Events /\ 1 \in 1..Len(inbox[l]) /\ inbox[l][1] = Head(inbox[l])
  BY <1>1
<1>3. inbox[l][1].what = kind
  BY <1>2 DEF Upcoming
<1>4. kind \in {"request", "resolved"} => Head(inbox[l]).of \in Callbacks
  BY <1>2, <1>3 DEF Events
<1>5. kind = "request" => Waiting(l, 1, Head(inbox[l]).of)
  BY <1>2, <1>3 DEF Waiting
<1>6. QED
  BY <1>1, <1>2, <1>3, <1>4, <1>5 DEF IInv, LaneSound

LEMMA TakeRequestKeeps ==
  ASSUME IInv, NEW l \in Lanes, TakeRequest(l) PROVE IInv'
<1> USE DEF dataVars, backendVars, callbackVars
<1>1. PICK c : c = Head(inbox[l]).of
  OBVIOUS
<1>2. /\ inbox[l] # <<>> /\ c \in Callbacks /\ Waiting(l, 1, c)
      /\ c \in emitted /\ Of[c] = l /\ task[c] = "none" /\ admitting[l] # c
  BY <1>1, Reached DEF TakeRequest
<1>3. inbox' \in [Lanes -> Seq(Events)] /\ \A k \in Lanes \ {l} : inbox'[k] = inbox[k]
  BY <1>2, Removed DEF TakeRequest, IInv
<1>4. /\ c \notin pending /\ replies[c] = <<>>
      /\ \A k \in Lanes : admitting[k] = c => k = l
  BY <1>2 DEF IInv, CallbackSound
<1>5. \A k \in Lanes : admitting[k] # c
  BY <1>2, <1>4
<1>6. admitting[l] = Nothing
  BY DEF TakeRequest, Upcoming
<1>7. CASE /\ l \in Sessions => open[l] /\ ~closing[l]
           /\ admitting' = [admitting EXCEPT ![l] = c]
           /\ UNCHANGED callbackVars
  <2>1. admitting'[l] = c /\ \A k \in Lanes \ {l} : admitting'[k] = admitting[k]
    BY <1>7 DEF IInv, TypeOK
  <2>2. TypeOK'
    BY <1>2, <1>3, <1>7 DEF TakeRequest, IInv, TypeOK
  <2>3. \A d \in Callbacks \ {c} : admitting'[l] # d
    BY <2>1
  <2>4. LaneSound(l)'
    BY <1>2, <1>7, <2>3, LaneTaken DEF TakeRequest, IInv
  <2>5. ASSUME NEW k \in Lanes \ {l} PROVE LaneSound(k)'
    BY <1>3, <1>7, <2>1, LaneKept DEF TakeRequest, IInv
  <2>6. CallbackSound(c)'
    BY <1>2, <1>4, <1>5, <1>7, <2>1 DEF TakeRequest, IInv, CallbackSound
  <2>7. ASSUME NEW d \in Callbacks \ {c} PROVE CallbackSound(d)'
    BY <1>7, <2>1, CallbackKept DEF TakeRequest, IInv
  <2>8. ASSUME NEW r \in Requests PROVE RequestSound(r)'
    BY RequestKept DEF TakeRequest, IInv
  <2>9. Barred'
    BY <1>7, <2>1 DEF TakeRequest, IInv, Barred
  <2>10. NoneAfterSweep'
    <3> SUFFICES ASSUME NEW r \in Requests, req[r].kind \in {"close", "archive"},
                        req[r].pc \in {"look", "settle", "clean", "resweep", "shut", "remove"},
                        NEW d \in Callbacks, Of[d] = req[r].on
                 PROVE  d \notin pending /\ admitting'[Of[d]] # d
      BY <1>7 DEF TakeRequest, NoneAfterSweep
    <3>1. d \notin pending /\ admitting[Of[d]] # d /\ Of[d] \in Lanes
      BY DEF IInv, NoneAfterSweep
    <3>2. closing[req[r].on] /\ req[r].on \in Sessions
      BY DEF IInv, RequestSound
    <3>3. Of[d] # l
      BY <1>7, <3>2
    <3>4. QED
      BY <2>1, <3>1, <3>3
  <2>11. NoneBusyWithoutTurn'
    BY DEF TakeRequest, IInv, NoneBusyWithoutTurn
  <2>12. QED
    BY <2>2, <2>4, <2>5, <2>6, <2>7, <2>8, <2>9, <2>10, <2>11 DEF IInv
<1>8. CASE Refuse(c) /\ UNCHANGED admitting
  <2> USE <1>8 DEF Refuse
  <2>1. replies'[c] = <<"refused">> /\ Len(<<"refused">>) = 1 /\ <<"refused">> # <<>>
    BY <1>2, <1>4 DEF IInv, TypeOK
  <2>2. replies' \in [Callbacks -> Seq({"refused", "answer", "error", "cancelled"})]
    BY <1>2 DEF IInv, TypeOK
  <2>3. TypeOK'
    BY <1>2, <1>3, <2>2 DEF TakeRequest, IInv, TypeOK, TaskSteps
  <2>4. task'[c] = "done" /\ \A d \in Callbacks \ {c} : task'[d] = task[d] /\ replies'[d] = replies[d]
    BY <1>2 DEF IInv, TypeOK
  <2>5. LaneSound(l)'
    BY <1>2, <2>4, LaneTaken DEF TakeRequest, IInv
  <2>6. ASSUME NEW k \in Lanes \ {l} PROVE LaneSound(k)'
    BY <1>2, <1>3, <2>4, LaneKept DEF TakeRequest, IInv
  <2>7. CallbackSound(c)'
    BY <1>2, <1>4, <1>5, <2>1, <2>4, SMTT(60) DEF TakeRequest, IInv, CallbackSound
  <2>8. ASSUME NEW d \in Callbacks \ {c} PROVE CallbackSound(d)'
    BY <2>4, CallbackKept DEF TakeRequest, IInv
  <2>9. ASSUME NEW r \in Requests PROVE RequestSound(r)'
    BY RequestKept DEF TakeRequest, IInv
  <2>10. Barred' /\ NoneAfterSweep' /\ NoneBusyWithoutTurn'
    BY NothingAdmitted DEF TakeRequest, IInv, NoneBusyWithoutTurn
  <2>11. QED
    BY <2>3, <2>5, <2>6, <2>7, <2>8, <2>9, <2>10 DEF IInv
<1>9. QED
  BY <1>1, <1>7, <1>8 DEF TakeRequest

LEMMA AdmitKeeps ==
  ASSUME IInv, NEW l \in Lanes, Admit(l) PROVE IInv'
<1> USE DEF dataVars, backendVars
<1>1. PICK c : c = admitting[l]
  OBVIOUS
<1>2. c \in Callbacks /\ Of[c] = l /\ task[c] = "none" /\ c \in emitted
  BY <1>1 DEF Admit, IInv, TypeOK, CallbackSound
<1>3. c \notin pending /\ replies[c] = <<>> /\ \A k \in Lanes : admitting[k] = c => k = l
  BY <1>2 DEF IInv, CallbackSound
<1>4. admitting'[l] = Nothing /\ \A k \in Lanes \ {l} : admitting'[k] = admitting[k]
  BY DEF Admit, IInv, TypeOK
<1>5. \A k \in Lanes : admitting'[k] \in {admitting[k], Nothing} /\ admitting'[k] # c
  BY <1>2, <1>3, <1>4
<1>6. ASSUME NEW k \in Lanes, \A d \in Callbacks \ {c} : task'[d] = task[d]
      PROVE  LaneSound(k)'
  <2>1. \A d \in Callbacks : Of[d] = k /\ admitting[k] # d => d # c
    BY <1>1, <1>2
  <2>2. QED
    BY <1>5, <1>6, <2>1, LaneKept DEF Admit, IInv
<1>7. ASSUME NEW r \in Requests PROVE RequestSound(r)'
  BY RequestKept DEF Admit, IInv
<1>8. Barred'
  BY <1>5 DEF Admit, IInv, Barred
<1>9. CASE /\ ~Full
           /\ pending' = pending \union {c} /\ task' = [task EXCEPT ![c] = "asking"]
           /\ \/ Foreground(l) /\ shown' = [shown EXCEPT ![l] = "requires_action"]
              \/ UNCHANGED shown
           /\ UNCHANGED <<signal, result, replies>>
  <2>1. task'[c] = "asking" /\ \A d \in Callbacks \ {c} : task'[d] = task[d]
    BY <1>2, <1>9 DEF IInv, TypeOK
  <2>2. IsFiniteSet(pending)
    BY FS_Subset DEF IInv, TypeOK
  <2>3. Cardinality(pending) \in Nat /\ Cardinality(pending') = Cardinality(pending) + 1
    BY <1>3, <1>9, <2>2, FS_AddElement, FS_CardinalityType
  <2>4. Cardinality(pending') <= PendingLimit
    BY <1>9, <2>3 DEF Full
  <2>5. shown' \in [Sessions -> {"idle", "running", "requires_action"}]
    BY <1>9 DEF IInv, TypeOK
  <2>6. TypeOK'
    BY <1>2, <1>5, <1>9, <2>4, <2>5 DEF Admit, IInv, TypeOK, TaskSteps
  <2>7. CallbackSound(c)'
    BY <1>2, <1>3, <1>5, <1>9, <2>1 DEF Admit, IInv, CallbackSound
  <2>8. ASSUME NEW d \in Callbacks \ {c} PROVE CallbackSound(d)'
    BY <1>5, <1>9, <2>1 DEF Admit, IInv, CallbackSound
  <2>9. NoneAfterSweep'
    <3> SUFFICES ASSUME NEW r \in Requests, req[r].kind \in {"close", "archive"},
                        req[r].pc \in {"look", "settle", "clean", "resweep", "shut", "remove"},
                        NEW d \in Callbacks, Of[d] = req[r].on
                 PROVE  d \notin pending' /\ admitting'[Of[d]] # d
      BY DEF Admit, NoneAfterSweep
    <3>1. d \notin pending /\ admitting[Of[d]] # d /\ Of[d] \in Lanes
      BY DEF IInv, NoneAfterSweep
    <3>2. closing[req[r].on] /\ req[r].on \in Sessions
      BY DEF IInv, RequestSound
    <3>3. d # c
      BY <1>1, <1>2, <3>1
    <3>4. QED
      BY <1>5, <1>9, <3>1, <3>3
  <2>10. NoneBusyWithoutTurn'
    BY <1>9 DEF Admit, Foreground, IInv, TypeOK, NoneBusyWithoutTurn
  <2>11. QED
    BY <1>6, <1>7, <1>8, <2>1, <2>6, <2>7, <2>8, <2>9, <2>10 DEF IInv
<1>10. CASE Refuse(c) /\ UNCHANGED shown
  <2> USE <1>10 DEF Refuse
  <2>1. replies'[c] = <<"refused">> /\ Len(<<"refused">>) = 1 /\ <<"refused">> # <<>>
    BY <1>2, <1>3 DEF IInv, TypeOK
  <2>2. replies' \in [Callbacks -> Seq({"refused", "answer", "error", "cancelled"})]
    BY <1>2 DEF IInv, TypeOK
  <2>3. TypeOK'
    BY <1>2, <1>5, <2>2 DEF Admit, IInv, TypeOK, TaskSteps
  <2>4. task'[c] = "done" /\ \A d \in Callbacks \ {c} : task'[d] = task[d] /\ replies'[d] = replies[d]
    BY <1>2 DEF IInv, TypeOK
  <2>5. CallbackSound(c)'
    <3>1. c \in emitted' /\ c \notin pending' /\ signal' = signal /\ result' = result /\ resolved' = resolved
      BY <1>2, <1>3 DEF Admit
    <3>2. signal[c] = "dismissed" \/ result[c] = "dismissed" => c \in resolved
      BY <1>2 DEF IInv, CallbackSound
    <3>3. ~(\E k \in Lanes : admitting'[k] = c)
      BY <1>5
    <3> HIDE <1>10 DEF Refuse
    <3>4. Len(replies'[c]) <= 1 /\ replies'[c] # <<>> /\ task'[c] = "done"
      BY <2>1, <2>4
    <3>5. QED
      BY <3>1, <3>2, <3>3, <3>4 DEF CallbackSound
  <2>6. ASSUME NEW d \in Callbacks \ {c} PROVE CallbackSound(d)'
    BY <1>5, <2>4, CallbackKept DEF Admit, IInv
  <2>7. NoneAfterSweep' /\ NoneBusyWithoutTurn'
    BY <1>5, NothingAdmitted DEF Admit, IInv, NoneBusyWithoutTurn
  <2>8. QED
    BY <1>6, <1>7, <1>8, <2>3, <2>4, <2>5, <2>6, <2>7 DEF IInv
<1>11. QED
  BY <1>1, <1>9, <1>10 DEF Admit

LEMMA TakeResolvedKeeps ==
  ASSUME IInv, NEW l \in Lanes, TakeResolved(l) PROVE IInv'
<1> USE DEF dataVars, backendVars
<1>1. PICK c : c = Head(inbox[l]).of
  OBVIOUS
<1>2. inbox[l] # <<>> /\ c \in Callbacks /\ c \in resolved
  BY <1>1, Reached DEF TakeResolved
<1>3. inbox' \in [Lanes -> Seq(Events)] /\ \A k \in Lanes \ {l} : inbox'[k] = inbox[k]
  BY <1>2, Removed DEF TakeResolved, IInv
<1>4. pending' \subseteq pending
  BY DEF TakeResolved
<1>5. /\ signal' \in [Callbacks -> {Nothing, "cancelled", "dismissed"}]
      /\ \A d \in Callbacks \ {c} : signal'[d] = signal[d]
  BY <1>1, <1>2 DEF TakeResolved, IInv, TypeOK
<1>6. pending' \subseteq Callbacks /\ Cardinality(pending') <= PendingLimit
  BY <1>4, Smaller DEF IInv
<1>7. TypeOK'
  BY <1>3, <1>5, <1>6 DEF TakeResolved, IInv, TypeOK
<1>8. LaneSound(l)'
  BY <1>2, LaneTaken DEF TakeResolved, IInv
<1>9. ASSUME NEW k \in Lanes \ {l} PROVE LaneSound(k)'
  BY <1>3, LaneKept DEF TakeResolved, IInv
<1>10. CallbackSound(c)'
  BY <1>2, <1>4 DEF TakeResolved, IInv, CallbackSound
<1>11. ASSUME NEW d \in Callbacks \ {c} PROVE CallbackSound(d)'
  BY <1>4, <1>5, CallbackKept DEF TakeResolved, IInv
<1>12. ASSUME NEW r \in Requests PROVE RequestSound(r)'
  BY RequestKept DEF TakeResolved, IInv
<1>13. Barred' /\ NoneAfterSweep' /\ NoneBusyWithoutTurn'
  BY <1>4, NothingAdmitted DEF TakeResolved, IInv, NoneBusyWithoutTurn
<1>14. QED
  BY <1>7, <1>8, <1>9, <1>10, <1>11, <1>12, <1>13 DEF IInv

LEMMA TakeTurnKeeps ==
  ASSUME IInv, NEW l \in Lanes, TakeTurn(l) PROVE IInv'
<1> USE DEF dataVars, backendVars, callbackVars
<1>1. PICK t : t = Head(inbox[l]).of
  OBVIOUS
<1>2. inbox[l] # <<>> /\ t \in Turns \ {0} /\ l \in Sessions
  BY <1>1, Reached DEF TakeTurn
<1>3. inbox' \in [Lanes -> Seq(Events)] /\ \A k \in Lanes \ {l} : inbox'[k] = inbox[k]
  BY <1>2, Removed DEF TakeTurn, IInv
<1>4. /\ active' \in [Sessions -> Turns]
      /\ shown' \in [Sessions -> {"idle", "running", "requires_action"}]
  <2>1. active \in [Sessions -> Turns] /\ active[l] \in Turns
        /\ shown \in [Sessions -> {"idle", "running", "requires_action"}]
    BY <1>2 DEF IInv, TypeOK
  <2>2. \/ active' = active
        \/ active' = [active EXCEPT ![l] = t]
        \/ active' = [active EXCEPT ![l] = IF active[l] = t THEN 0 ELSE active[l]]
    BY <1>1 DEF TakeTurn
  <2>3. 0 \in Turns /\ (IF active[l] = t THEN 0 ELSE active[l]) \in Turns
    BY <2>1
  <2>4. \/ shown' = shown \/ shown' = [shown EXCEPT ![l] = "running"]
        \/ shown' = [shown EXCEPT ![l] = "idle"]
    BY DEF TakeTurn
  <2>5. QED
    BY <1>2, <2>1, <2>2, <2>3, <2>4
<1>5. TypeOK'
  BY <1>3, <1>4 DEF TakeTurn, IInv, TypeOK
<1>6. LaneSound(l)'
  BY <1>2, LaneTaken DEF TakeTurn, IInv
<1>7. ASSUME NEW k \in Lanes \ {l} PROVE LaneSound(k)'
  BY <1>3, LaneKept DEF TakeTurn, IInv
<1>8. ASSUME NEW d \in Callbacks PROVE CallbackSound(d)'
  BY CallbackKept DEF TakeTurn, IInv
<1>9. ASSUME NEW r \in Requests PROVE RequestSound(r)'
  BY RequestKept DEF TakeTurn, IInv
<1>10. Barred' /\ NoneAfterSweep'
  BY NothingAdmitted DEF TakeTurn, IInv
<1>11. NoneBusyWithoutTurn'
  <2>1. NoneBusyWithoutTurn /\ active \in [Sessions -> Turns] /\ DOMAIN shown = Sessions
    BY DEF IInv, TypeOK
  <2>2. \/ active' = [active EXCEPT ![l] = t] /\ shown' = [shown EXCEPT ![l] = "running"]
        \/ /\ active' = [active EXCEPT ![l] = IF active[l] = t THEN 0 ELSE active[l]]
           /\ shown' = [shown EXCEPT ![l] = "idle"]
        \/ UNCHANGED <<active, shown>>
    BY <1>1 DEF TakeTurn
  <2>3. \A s \in Sessions \ {l} : active'[s] = active[s] /\ shown'[s] = shown[s]
    BY <1>2, <2>1, <2>2
  <2>4. active'[l] = 0 => shown'[l] = "idle"
    BY <1>2, <2>1, <2>2 DEF NoneBusyWithoutTurn
  <2>5. QED
    BY <2>1, <2>3, <2>4 DEF NoneBusyWithoutTurn
<1>12. QED
  BY <1>5, <1>6, <1>7, <1>8, <1>9, <1>10, <1>11 DEF IInv

----------------------------------------------------------------------------
(* Tasks *)

\* The task of one callback, and what it may have put into the table or shown.
LEMMA TaskKeeps ==
  ASSUME IInv, NEW c \in Callbacks, task[c] # "none", TypeOK', CallbackSound(c)',
         UNCHANGED <<inbox, backendVars, dataVars, admitting, req>>, pending' \subseteq pending,
         \A d \in Callbacks \ {c} : /\ task'[d] = task[d] /\ result'[d] = result[d]
                                    /\ replies'[d] = replies[d] /\ signal'[d] = signal[d],
         NoneBusyWithoutTurn'
  PROVE  IInv'
<1> USE DEF dataVars, backendVars
<1>1. ASSUME NEW l \in Lanes PROVE LaneSound(l)'
  BY LaneKept DEF IInv
<1>2. ASSUME NEW d \in Callbacks \ {c} PROVE CallbackSound(d)'
  BY CallbackKept DEF IInv
<1>3. ASSUME NEW r \in Requests PROVE RequestSound(r)'
  BY RequestKept DEF IInv
<1>4. Barred' /\ NoneAfterSweep'
  BY NothingAdmitted DEF IInv
<1>5. QED
  BY <1>1, <1>2, <1>3, <1>4 DEF IInv

LEMMA Moved ==
  ASSUME TypeOK, NEW c \in Callbacks, NEW from, NEW to \in TaskSteps, Moves(c, from, to)
  PROVE  /\ task' \in [Callbacks -> TaskSteps]
         /\ task[c] = from /\ task'[c] = to /\ \A d \in Callbacks \ {c} : task'[d] = task[d]
  BY DEF TypeOK, Moves

LEMMA ConcludesKeeps ==
  ASSUME IInv, NEW c \in Callbacks, NEW outcome \in {"answer", "error", "cancelled", "dismissed"},
         outcome = "dismissed" => signal[c] = "dismissed", Concludes(c, outcome)
  PROVE  IInv'
<1> USE DEF dataVars, backendVars
<1>1. /\ task' \in [Callbacks -> TaskSteps]
      /\ task[c] = "asking" /\ task'[c] = "leaving" /\ \A d \in Callbacks \ {c} : task'[d] = task[d]
  BY Moved DEF IInv, Concludes, TaskSteps
<1>2. /\ result' \in [Callbacks -> {Nothing, "answer", "error", "cancelled", "dismissed"}]
      /\ result'[c] = outcome /\ \A d \in Callbacks \ {c} : result'[d] = result[d]
  BY DEF IInv, TypeOK, Concludes
<1>3. TypeOK'
  BY <1>1, <1>2 DEF IInv, TypeOK, Concludes
<1>4. CallbackSound(c)'
  BY <1>1, <1>2 DEF IInv, CallbackSound, Concludes
<1>5. QED
  BY <1>1, <1>2, <1>3, <1>4, TaskKeeps DEF Concludes, IInv, NoneBusyWithoutTurn

LEMMA LeaveKeeps ==
  ASSUME IInv, NEW c \in Callbacks, Leave(c) PROVE IInv'
<1> USE DEF dataVars, backendVars
<1>1. /\ task' \in [Callbacks -> TaskSteps]
      /\ task[c] = "leaving" /\ task'[c] = "answering"
      /\ \A d \in Callbacks \ {c} : task'[d] = task[d]
  BY Moved DEF IInv, Leave, TaskSteps
<1>2. pending' \subseteq Callbacks /\ Cardinality(pending') <= PendingLimit /\ pending' \subseteq pending
  BY Smaller DEF Leave, IInv
<1>3. TypeOK'
  BY <1>1, <1>2 DEF IInv, TypeOK, Leave
<1>4. CallbackSound(c)'
  BY <1>1 DEF IInv, CallbackSound, Leave
<1>5. QED
  BY <1>1, <1>2, <1>3, <1>4, TaskKeeps DEF Leave, IInv, NoneBusyWithoutTurn

LEMMA RespondKeeps ==
  ASSUME IInv, NEW c \in Callbacks, Respond(c) PROVE IInv'
<1> USE DEF dataVars, backendVars
<1>1. PICK after \in {"done", "looking"} : Moves(c, "answering", after)
  BY DEF Respond
<1>2. /\ task' \in [Callbacks -> TaskSteps]
      /\ task[c] = "answering" /\ task'[c] = after
      /\ \A d \in Callbacks \ {c} : task'[d] = task[d]
  BY <1>1, Moved DEF IInv, TaskSteps
<1>3. /\ c \notin pending /\ replies[c] = <<>> /\ result[c] # Nothing
      /\ result[c] \in {"answer", "error", "cancelled", "dismissed"}
      /\ ~(\E l \in Lanes : admitting[l] = c) /\ c \in emitted
  BY <1>2 DEF IInv, CallbackSound, TypeOK
<1>4. PICK said \in Seq({"refused", "answer", "error", "cancelled"}) :
        /\ replies' = [replies EXCEPT ![c] = said]
        /\ Len(said) <= 1 /\ (said = <<>> => result[c] = "dismissed")
  <2>1. CASE result[c] = "dismissed"
    <3>1. replies' = [replies EXCEPT ![c] = <<>>]
      BY <1>3, <2>1 DEF Respond, AnswerWorthy
    <3>2. <<>> \in Seq({"refused", "answer", "error", "cancelled"}) /\ Len(<<>>) <= 1
      OBVIOUS
    <3>3. QED
      BY <2>1, <3>1, <3>2
  <2>2. CASE result[c] # "dismissed"
    <3>1. replies' = [replies EXCEPT ![c] = <<result[c]>>]
      BY <1>3, <2>2 DEF Respond, AnswerWorthy
    <3>2. /\ <<result[c]>> \in Seq({"refused", "answer", "error", "cancelled"})
          /\ Len(<<result[c]>>) <= 1 /\ <<result[c]>> # <<>>
      BY <1>3, <2>2
    <3>3. QED
      BY <3>1, <3>2
  <2>3. QED
    BY <2>1, <2>2
<1>5. /\ replies' \in [Callbacks -> Seq({"refused", "answer", "error", "cancelled"})]
      /\ replies'[c] = said /\ \A d \in Callbacks \ {c} : replies'[d] = replies[d]
  BY <1>4 DEF IInv, TypeOK
<1>6. /\ result' \in [Callbacks -> {Nothing, "answer", "error", "cancelled", "dismissed"}]
      /\ signal' \in [Callbacks -> {Nothing, "cancelled", "dismissed"}]
      /\ result'[c] = Nothing /\ signal'[c] = Nothing
      /\ \A d \in Callbacks \ {c} : result'[d] = result[d] /\ signal'[d] = signal[d]
  BY DEF IInv, TypeOK, Respond
<1>7. TypeOK'
  BY <1>2, <1>5, <1>6 DEF IInv, TypeOK, Respond
<1>8. result[c] = "dismissed" => c \in resolved
  BY DEF IInv, CallbackSound
<1>9. UNCHANGED <<emitted, resolved, pending, admitting>>
  BY DEF Respond
<1>10. CallbackSound(c)'
  BY <1>2, <1>3, <1>4, <1>5, <1>6, <1>8, <1>9 DEF CallbackSound
<1>11. QED
  BY <1>2, <1>5, <1>6, <1>7, <1>10, TaskKeeps DEF Respond, IInv, NoneBusyWithoutTurn

LEMMA CountPendingKeeps ==
  ASSUME IInv, NEW c \in Callbacks, CountPending(c) PROVE IInv'
<1> USE DEF dataVars, backendVars
<1>1. PICK after \in {"judging", "done"} : Moves(c, "looking", after)
  BY DEF CountPending
<1>2. /\ task' \in [Callbacks -> TaskSteps]
      /\ task[c] = "looking" /\ task'[c] = after
      /\ \A d \in Callbacks \ {c} : task'[d] = task[d]
  BY <1>1, Moved DEF IInv, TaskSteps
<1>3. TypeOK'
  BY <1>2 DEF IInv, TypeOK, CountPending
<1>4. CallbackSound(c)'
  BY <1>2 DEF IInv, CallbackSound, CountPending
<1>5. QED
  BY <1>2, <1>3, <1>4, TaskKeeps DEF CountPending, IInv, NoneBusyWithoutTurn

LEMMA ShowRunningKeeps ==
  ASSUME IInv, NEW c \in Callbacks, ShowRunning(c) PROVE IInv'
<1> USE DEF dataVars, backendVars
<1>1. /\ task' \in [Callbacks -> TaskSteps]
      /\ task[c] = "judging" /\ task'[c] = "done"
      /\ \A d \in Callbacks \ {c} : task'[d] = task[d]
  BY Moved DEF IInv, ShowRunning, TaskSteps
<1>2. \/ shown' = [shown EXCEPT ![Of[c]] = "running"] /\ active[Of[c]] # 0
      \/ shown' = [shown EXCEPT ![Of[c]] = shown[Of[c]]]
  BY DEF ShowRunning
<1>3. /\ shown' \in [Sessions -> {"idle", "running", "requires_action"}]
      /\ NoneBusyWithoutTurn'
  BY <1>2 DEF IInv, TypeOK, ShowRunning, NoneBusyWithoutTurn
<1>4. TypeOK'
  BY <1>1, <1>3 DEF IInv, TypeOK, ShowRunning
<1>5. CallbackSound(c)'
  BY <1>1 DEF IInv, CallbackSound, ShowRunning
<1>6. QED
  BY <1>1, <1>3, <1>4, <1>5, TaskKeeps DEF ShowRunning

----------------------------------------------------------------------------
(* Requests of the client *)

Progress == [pc : Steps, kind : Kinds \union {Nothing}, on : Sessions \union {Nothing}, aim : Turns]

\* A teardown whose sweep is over.
Swept(r) ==
  /\ req[r].kind \in {"close", "archive"}
  /\ req[r].pc \in {"look", "settle", "clean", "resweep", "shut", "remove"}

Clear(r) == \A c \in Callbacks : Of[c] = req[r].on => c \notin pending /\ admitting[Of[c]] # c

\* One request comes to v.
Becomes(r, v) ==
  /\ req' \in [Requests -> Progress] /\ req'[r] = v
  /\ \A q \in Requests \ {r} : req'[q] = req[q]

LEMMA RequestMoves ==
  ASSUME TypeOK, NEW r \in Requests, NEW v \in Progress, req' = [req EXCEPT ![r] = v]
  PROVE  Becomes(r, v)
  BY DEF TypeOK, Becomes, Progress

LEMMA Went ==
  ASSUME TypeOK, NEW r \in Requests, NEW step \in Steps, Goto(r, step)
  PROVE  Becomes(r, Request(step, req[r].kind, req[r].on, req[r].aim))
<1>1. req \in [Requests -> Progress] /\ req[r] \in Progress
  BY DEF TypeOK, Progress
<1>2. req' = [req EXCEPT ![r] = [req[r] EXCEPT !.pc = step]]
  BY DEF Goto
<1>3. [req[r] EXCEPT !.pc = step] = Request(step, req[r].kind, req[r].on, req[r].aim)
  BY <1>1 DEF Progress, Request
<1>4. Request(step, req[r].kind, req[r].on, req[r].aim) \in Progress
  BY <1>1 DEF Progress, Request
<1>5. QED
  BY <1>2, <1>3, <1>4, RequestMoves

LEMMA Returned ==
  ASSUME TypeOK, NEW r \in Requests, Return(r)
  PROVE  Becomes(r, Request("done", Nothing, Nothing, 0)) /\ RequestSound(r)' /\ ~Swept(r)'
<1>1. Request("done", Nothing, Nothing, 0) \in Progress
  BY DEF Progress, Request, Steps, TypeOK, InteractionAssumption
<1>2. Becomes(r, Request("done", Nothing, Nothing, 0))
  BY <1>1, RequestMoves DEF Return
<1>3. QED
  BY <1>2 DEF Becomes, Request, RequestSound, Swept

LEMMA ClearKept ==
  ASSUME NEW r \in Requests, Clear(r), req'[r].on = req[r].on, pending' \subseteq pending,
         UNCHANGED admitting
  PROVE  Clear(r)'
  BY DEF Clear

\* What one request does to the sessions and the table.
LEMMA RequestKeeps ==
  ASSUME IInv, NEW r \in Requests, UNCHANGED <<inbox, backendVars, task, result, replies, admitting>>,
         \A q \in Requests \ {r} : req'[q] = req[q], pending' \subseteq pending,
         \A c \in Callbacks : signal'[c] = "dismissed" => signal[c] = "dismissed",
         \A s \in Sessions : closing[s] => closing'[s],
         TypeOK', RequestSound(r)', Swept(r)' => Clear(r)', Barred', NoneBusyWithoutTurn'
  PROVE  IInv'
<1> USE DEF backendVars
<1>1. ASSUME NEW l \in Lanes PROVE LaneSound(l)'
  BY LaneKept DEF IInv
<1>2. ASSUME NEW d \in Callbacks PROVE CallbackSound(d)'
  BY CallbackKept DEF IInv
<1>3. ASSUME NEW q \in Requests PROVE RequestSound(q)'
  BY RequestKept DEF IInv
<1>4. ASSUME NEW q \in Requests, Swept(q)' PROVE Clear(q)'
  <2>1. CASE q = r
    BY <1>4, <2>1
  <2>2. CASE q # r
    <3>1. Swept(q)
      BY <1>4, <2>2 DEF Swept
    <3>2. Clear(q)
      BY <3>1 DEF IInv, NoneAfterSweep, Swept, Clear
    <3>3. QED
      BY <2>2, <3>2, ClearKept
  <2>3. QED
    BY <2>1, <2>2
<1>5. NoneAfterSweep'
  BY <1>4 DEF NoneAfterSweep, Swept, Clear
<1>6. QED
  BY <1>1, <1>2, <1>3, <1>5 DEF IInv

\* A request that only goes on, maybe with another word to the client.
LEMMA GoesOn ==
  ASSUME IInv, NEW r \in Requests, NEW v \in Progress, Becomes(r, v),
         UNCHANGED <<inbox, backendVars, open, closing, active, admitting, callbackVars>>,
         listed' \in [Sessions -> BOOLEAN],
         shown' \in [Sessions -> {"idle", "running", "requires_action"}],
         \A s \in Sessions : shown'[s] = "idle" \/ shown'[s] = shown[s],
         RequestSound(r)', Swept(r)' => Swept(r) /\ req'[r].on = req[r].on
  PROVE  IInv'
<1> USE DEF backendVars, callbackVars
<1>1. TypeOK'
  BY SMTT(60) DEF IInv, TypeOK, Becomes, Progress
<1>2. Barred' /\ NoneBusyWithoutTurn'
  BY DEF IInv, Barred, NoneBusyWithoutTurn
<1>3. ASSUME Swept(r)' PROVE Clear(r)'
  <2>1. Swept(r) /\ req'[r].on = req[r].on
    BY <1>3
  <2>2. Clear(r)
    BY <2>1 DEF IInv, NoneAfterSweep, Swept, Clear
  <2>3. QED
    BY <2>1, <2>2, ClearKept
<1>4. QED
  BY <1>1, <1>2, <1>3, RequestKeeps DEF Becomes

LEMMA Typed ==
  ASSUME TypeOK, NEW r \in Requests
  PROVE  /\ req[r] \in Progress /\ listed \in [Sessions -> BOOLEAN]
         /\ active \in [Sessions -> Turns]
         /\ shown \in [Sessions -> {"idle", "running", "requires_action"}]
         /\ \A step \in Steps : Request(step, req[r].kind, req[r].on, req[r].aim) \in Progress
         /\ Request("done", Nothing, Nothing, 0) \in Progress
  BY DEF TypeOK, Progress, Request, Steps

LEMMA BeginKeeps ==
  ASSUME IInv, NEW r \in Requests, NEW kind \in Kinds, NEW s \in Sessions, Begin(r, kind, s)
  PROVE  IInv'
<1> USE DEF dataVars
<1>1. Request("wait", kind, s, 0) \in Progress
  BY DEF Progress, Request, Steps
<1>2. Becomes(r, Request("wait", kind, s, 0))
  BY <1>1, RequestMoves DEF Begin, IInv
<1>3. RequestSound(r)' /\ ~Swept(r)'
  BY <1>2 DEF Becomes, Request, RequestSound, Swept
<1>4. QED
  BY <1>1, <1>2, <1>3, GoesOn, Typed DEF Begin, IInv

LEMMA EnterKeeps ==
  ASSUME IInv, NEW r \in Requests, Enter(r) PROVE IInv'
<1> USE DEF dataVars
<1>1. req[r].on \in Sessions /\ req[r].kind \in Kinds
  BY DEF Enter, At, IInv, RequestSound
<1>2. CASE Return(r)
  BY <1>2, Returned, GoesOn, Typed DEF Enter, IInv
<1>3. CASE req[r].kind = "cancel" /\ Goto(r, "sweep")
  <2>1. Becomes(r, Request("sweep", req[r].kind, req[r].on, req[r].aim)) /\ "sweep" \in Steps
    BY <1>3, Went DEF Steps, IInv
  <2>2. RequestSound(r)' /\ ~Swept(r)'
    BY <1>1, <1>3, <2>1 DEF Becomes, Request, RequestSound, Swept
  <2>3. QED
    BY <2>1, <2>2, GoesOn, Typed DEF Enter, IInv
<1>4. CASE req[r].kind # "cancel" /\ Goto(r, "closing")
  <2>1. Becomes(r, Request("closing", req[r].kind, req[r].on, req[r].aim)) /\ "closing" \in Steps
    BY <1>4, Went DEF Steps, IInv
  <2>2. RequestSound(r)' /\ ~Swept(r)'
    BY <1>1, <1>4, <2>1 DEF Becomes, Request, RequestSound, Swept
  <2>3. QED
    BY <2>1, <2>2, GoesOn, Typed DEF Enter, IInv
<1>5. QED
  BY <1>2, <1>3, <1>4 DEF Enter

LEMMA BeginClosingKeeps ==
  ASSUME IInv, NEW r \in Requests, BeginClosing(r) PROVE IInv'
<1> USE DEF backendVars, callbackVars
<1>1. req[r].on \in Sessions /\ req[r].kind \in Kinds \ {"cancel"}
  BY DEF BeginClosing, At, IInv, RequestSound
<1>2. Becomes(r, Request("sweep", req[r].kind, req[r].on, req[r].aim))
  BY Went DEF BeginClosing, Steps, IInv
<1>3. /\ closing' \in [Sessions -> BOOLEAN] /\ closing'[req[r].on]
      /\ \A s \in Sessions : closing[s] => closing'[s]
      /\ \A s \in Sessions : closing'[s] => closing[s] \/ s = req[r].on
  BY <1>1 DEF BeginClosing, IInv, TypeOK
<1>4. TypeOK'
  BY <1>2, <1>3, SMTT(60) DEF BeginClosing, IInv, TypeOK, Becomes, Progress
<1>5. RequestSound(r)' /\ ~Swept(r)'
  BY <1>1, <1>2, <1>3 DEF Becomes, Request, RequestSound, Swept
<1>6. Barred'
  BY <1>3 DEF BeginClosing, Markable, DataFree, IInv, Barred
<1>7. NoneBusyWithoutTurn'
  BY DEF BeginClosing, IInv, NoneBusyWithoutTurn
<1>8. QED
  BY <1>2, <1>3, <1>4, <1>5, <1>6, <1>7, RequestKeeps DEF BeginClosing, Becomes

LEMMA SweepKeeps ==
  ASSUME IInv, NEW r \in Requests, Sweep(r) PROVE IInv'
<1> USE DEF backendVars, dataVars
<1>1. req[r].on \in Sessions /\ req[r].kind \in Kinds
      /\ (req[r].kind # "cancel" => closing[req[r].on])
      /\ (At(r, "resweep") => req[r].kind # "cancel")
  BY DEF Sweep, At, IInv, RequestSound
<1>2. PICK step \in {"look", "shut"} :
        /\ Becomes(r, Request(step, req[r].kind, req[r].on, req[r].aim))
        /\ step = "shut" => req[r].kind # "cancel"
  BY <1>1, Went DEF Sweep, Steps, IInv
<1>3. pending' = pending \ {c \in pending : Of[c] = req[r].on}
  BY DEF Sweep
<1>4. pending' \subseteq pending /\ pending' \subseteq Callbacks /\ Cardinality(pending') <= PendingLimit
  BY <1>3, Smaller DEF IInv
<1>5. /\ signal' \in [Callbacks -> {Nothing, "cancelled", "dismissed"}]
      /\ \A c \in Callbacks : signal'[c] = "dismissed" => signal[c] = "dismissed"
  BY DEF Sweep, Tell, IInv, TypeOK
<1>6. TypeOK'
  BY <1>2, <1>4, <1>5 DEF Sweep, IInv, TypeOK, Becomes, Progress
<1>7. RequestSound(r)'
  BY <1>1, <1>2 DEF Sweep, Becomes, Request, RequestSound
<1>8. Barred' /\ NoneBusyWithoutTurn'
  BY DEF Sweep, IInv, Barred, NoneBusyWithoutTurn
<1>9. ASSUME Swept(r)' PROVE Clear(r)'
  <2>1. req'[r].on = req[r].on /\ req[r].kind # "cancel"
    BY <1>2, <1>9 DEF Becomes, Request, Swept
  <2>2. admitting[req[r].on] = Nothing
    BY <1>1, <2>1 DEF IInv, Barred
  <2>3. QED
    BY <1>3, <1>4, <2>1, <2>2 DEF Sweep, Clear
<1>10. QED
  BY <1>2, <1>4, <1>5, <1>6, <1>7, <1>8, <1>9, RequestKeeps DEF Sweep, Becomes

\* What follows a sweep: a request that goes on with its session.
LEMMA SweptGoesOn ==
  ASSUME IInv, NEW r \in Requests, req[r].pc \in {"look", "settle", "clean", "shut", "remove"},
         NEW step \in {"clean", "resweep", "shut", "remove", "settle"}, NEW t \in Turns,
         Becomes(r, Request(step, req[r].kind, req[r].on, t)), UNCHANGED closing,
         step # "settle" => req[r].kind # "cancel"
  PROVE  RequestSound(r)' /\ (Swept(r)' => Swept(r) /\ req'[r].on = req[r].on)
  BY DEF IInv, RequestSound, Becomes, Request, Swept

\* The end of a cancellation, or the next step of a teardown.
LEMMA AfterCancelGoes ==
  ASSUME IInv, NEW r \in Requests, req[r].pc \in {"look", "settle"}, AfterCancel(r), UNCHANGED closing
  PROVE  \E v \in Progress : /\ Becomes(r, v) /\ RequestSound(r)'
                             /\ Swept(r)' => Swept(r) /\ req'[r].on = req[r].on
<1>1. TypeOK /\ "clean" \in Steps /\ req[r].aim \in Turns
  BY DEF IInv, TypeOK, Steps
<1>2. CASE Return(r)
  BY <1>1, <1>2, Returned, Typed
<1>3. CASE req[r].kind # "cancel" /\ Goto(r, "clean")
  BY <1>1, <1>3, Went, Typed, SweptGoesOn
<1>4. QED
  BY <1>2, <1>3 DEF AfterCancel

LEMMA LookForTurnKeeps ==
  ASSUME IInv, NEW r \in Requests, LookForTurn(r) PROVE IInv'
<1> USE DEF dataVars
<1>1. TypeOK /\ req[r].on \in Sessions /\ req[r].kind \in Kinds
  BY DEF LookForTurn, At, IInv, RequestSound
<1>2. CASE AfterCancel(r) /\ shown' = [shown EXCEPT ![req[r].on] = "idle"]
  <2>1. PICK v \in Progress : /\ Becomes(r, v) /\ RequestSound(r)'
                              /\ Swept(r)' => Swept(r) /\ req'[r].on = req[r].on
    BY <1>2, AfterCancelGoes DEF LookForTurn, At
  <2>2. /\ shown' \in [Sessions -> {"idle", "running", "requires_action"}]
        /\ \A s \in Sessions : shown'[s] = "idle" \/ shown'[s] = shown[s]
    BY <1>1, <1>2, Typed
  <2>3. QED
    BY <1>1, <2>1, <2>2, GoesOn, Typed DEF LookForTurn
<1>3. CASE /\ UNCHANGED shown
           /\ req' = [req EXCEPT ![r] = Request("settle", req[r].kind, req[r].on, active[req[r].on])]
  <2>1. PICK t \in Turns : t = active[req[r].on]
    BY <1>1, Typed
  <2>2. Request("settle", req[r].kind, req[r].on, t) \in Progress
    BY <1>1 DEF Progress, Request, Steps
  <2>3. Becomes(r, Request("settle", req[r].kind, req[r].on, t))
    BY <1>1, <1>3, <2>1, <2>2, RequestMoves
  <2>4. RequestSound(r)' /\ (Swept(r)' => Swept(r) /\ req'[r].on = req[r].on)
    BY <2>3, SweptGoesOn DEF LookForTurn, At
  <2>5. QED
    BY <1>1, <1>3, <2>2, <2>3, <2>4, GoesOn, Typed DEF LookForTurn
<1>4. QED
  BY <1>2, <1>3 DEF LookForTurn

LEMMA SettleKeeps ==
  ASSUME IInv, NEW r \in Requests, Settle(r) PROVE IInv'
<1> USE DEF dataVars
<1>1. PICK v \in Progress : /\ Becomes(r, v) /\ RequestSound(r)'
                            /\ Swept(r)' => Swept(r) /\ req'[r].on = req[r].on
  BY AfterCancelGoes, Returned, Typed DEF Settle, At, IInv
<1>2. QED
  BY <1>1, GoesOn, Typed DEF Settle, IInv

LEMMA CleanKeeps ==
  ASSUME IInv, NEW r \in Requests, Clean(r) PROVE IInv'
<1> USE DEF dataVars
<1>1. TypeOK /\ "shut" \in Steps /\ "resweep" \in Steps /\ req[r].aim \in Turns
  BY DEF IInv, TypeOK, Steps
<1>2. CASE Return(r)
  BY <1>1, <1>2, Returned, GoesOn, Typed DEF Clean
<1>3. ASSUME NEW step \in {"shut", "resweep"}, req[r].kind # "cancel", Goto(r, step) PROVE IInv'
  <2>1. Becomes(r, Request(step, req[r].kind, req[r].on, req[r].aim))
        /\ Request(step, req[r].kind, req[r].on, req[r].aim) \in Progress
    BY <1>1, <1>3, Went, Typed
  <2>2. RequestSound(r)' /\ (Swept(r)' => Swept(r) /\ req'[r].on = req[r].on)
    BY <1>1, <1>3, <2>1, SweptGoesOn DEF Clean, At
  <2>3. QED
    BY <1>1, <2>1, <2>2, GoesOn, Typed DEF Clean
<1>4. QED
  BY <1>2, <1>3 DEF Clean

LEMMA ShutKeeps ==
  ASSUME IInv, NEW r \in Requests, Shut(r) PROVE IInv'
<1> USE DEF backendVars, callbackVars
<1>1. TypeOK /\ "remove" \in Steps /\ req[r].aim \in Turns
  BY DEF IInv, TypeOK, Steps
<1>2. Becomes(r, Request("remove", req[r].kind, req[r].on, req[r].aim))
  BY <1>1, Went DEF Shut
<1>3. req[r].kind # "cancel" /\ req[r].on \in Sessions
  BY DEF Shut, At, IInv, RequestSound
<1>4. RequestSound(r)' /\ (Swept(r)' => Swept(r) /\ req'[r].on = req[r].on)
  BY <1>1, <1>2, <1>3, SweptGoesOn DEF Shut, At
<1>5. TypeOK'
  BY <1>2, ZenonT(60) DEF Shut, IInv, TypeOK, Becomes, Progress
<1>6. Barred' /\ NoneBusyWithoutTurn'
  BY DEF Shut, IInv, Barred, NoneBusyWithoutTurn
<1>7. ASSUME Swept(r)' PROVE Clear(r)'
  <2>1. Clear(r) /\ req'[r].on = req[r].on
    BY <1>4, <1>7 DEF IInv, NoneAfterSweep, Swept, Clear
  <2>2. QED
    BY <2>1, ClearKept DEF Shut
<1>8. QED
  BY <1>2, <1>4, <1>5, <1>6, <1>7, RequestKeeps DEF Shut, Becomes

LEMMA RemoveKeeps ==
  ASSUME IInv, NEW r \in Requests, Remove(r) PROVE IInv'
<1>1. Becomes(r, Request("done", Nothing, Nothing, 0)) /\ RequestSound(r)' /\ ~Swept(r)'
      /\ Request("done", Nothing, Nothing, 0) \in Progress
  BY Returned, Typed DEF Remove, IInv
<1>2. /\ listed' \in [Sessions -> BOOLEAN]
      /\ shown' \in [Sessions -> {"idle", "running", "requires_action"}]
      /\ \A s \in Sessions : shown'[s] = "idle" \/ shown'[s] = shown[s]
  <2>1. listed \in [Sessions -> BOOLEAN] /\ shown \in [Sessions -> {"idle", "running", "requires_action"}]
    BY Typed DEF IInv
  <2>2. QED
    BY <2>1 DEF Remove
<1>3. QED
  BY <1>1, <1>2, GoesOn DEF Remove

----------------------------------------------------------------------------
LEMMA StutterKeeps ==
  ASSUME IInv, UNCHANGED vars PROVE IInv'
<1> USE DEF vars, backendVars, dataVars, callbackVars
<1>1. TypeOK'
  BY DEF IInv, TypeOK
<1>2. ASSUME NEW l \in Lanes PROVE LaneSound(l)'
  BY LaneKept DEF IInv
<1>3. ASSUME NEW c \in Callbacks PROVE CallbackSound(c)'
  BY CallbackKept DEF IInv
<1>4. ASSUME NEW r \in Requests PROVE RequestSound(r)'
  BY RequestKept DEF IInv
<1>5. Barred' /\ NoneAfterSweep' /\ NoneBusyWithoutTurn'
  BY NothingAdmitted DEF IInv, NoneBusyWithoutTurn
<1>6. QED
  BY <1>1, <1>2, <1>3, <1>4, <1>5 DEF IInv

\* Every step keeps the invariant, whoever takes it.
LEMMA StepKeeps ==
  ASSUME IInv, [Next]_vars PROVE IInv'
<1>1. CASE UNCHANGED vars
  BY <1>1, StutterKeeps
<1>2. CASE BackendStep
  BY <1>2, BackendStepKeeps
<1>3. ASSUME NEW l \in Lanes, WorkerStep(l) PROVE IInv'
  BY <1>3, TakeRequestKeeps, AdmitKeeps, TakeResolvedKeeps, TakeTurnKeeps DEF WorkerStep
<1>4. ASSUME NEW c \in Callbacks, ClientAnswers(c) \/ AskingFails(c) \/ FinishStep(c) PROVE IInv'
  <2>1. CASE ClientAnswers(c) \/ AskingFails(c)
    BY <2>1, ConcludesKeeps DEF ClientAnswers, AskingFails
  <2>2. CASE Signalled(c)
    <3>1. signal[c] \in {"cancelled", "dismissed"}
      BY <2>2 DEF Signalled, IInv, TypeOK
    <3>2. QED
      BY <2>2, <3>1, ConcludesKeeps DEF Signalled
  <2>3. CASE Leave(c) \/ Respond(c) \/ CountPending(c) \/ ShowRunning(c)
    BY <2>3, LeaveKeeps, RespondKeeps, CountPendingKeeps, ShowRunningKeeps
  <2>4. QED
    BY <1>4, <2>1, <2>2, <2>3 DEF FinishStep
<1>5. ASSUME NEW r \in Requests, NEW kind \in Kinds, NEW s \in Sessions, Begin(r, kind, s) PROVE IInv'
  BY <1>5, BeginKeeps
<1>6. ASSUME NEW r \in Requests, RequestStep(r) PROVE IInv'
  BY <1>6, EnterKeeps, BeginClosingKeeps, SweepKeeps, LookForTurnKeeps, SettleKeeps, CleanKeeps,
     ShutKeeps, RemoveKeeps DEF RequestStep
<1>7. QED
  BY <1>1, <1>2, <1>3, <1>4, <1>5, <1>6 DEF Next

\* The invariant holds in every state of the program: workers, tasks, the backend and the
\* client's requests keep it in any order.
THEOREM InvariantHolds == Spec => []IInv
<1>1. Init => IInv
  BY Initial
<1>2. IInv /\ [Next]_vars => IInv'
  BY StepKeeps
<1>3. QED
  BY <1>1, <1>2, PTL DEF Spec

\* The state has its types, and the table of outstanding callbacks (State.pending) never
\* exceeds its limit, however many are admitted, answered and swept at once.
THEOREM TypeCorrect == Spec => []TypeOK
<1>1. IInv => TypeOK
  BY DEF IInv
<1>2. QED
  BY <1>1, InvariantHolds, PTL

\* Every callback is answered at most once, and one whose task is over without an answer is
\* one that the backend has resolved itself (answer_callback, cancel_interactions).
THEOREM CallbacksAnswered == Spec => []AnsweredOnce
<1>1. IInv => AnsweredOnce
  BY DEF IInv, AnsweredOnce, CallbackSound
<1>2. QED
  BY <1>1, InvariantHolds, PTL

\* After the sweep of a teardown nothing is pending for its session, and nothing is on its
\* way into the table (cancel_interactions against server_request).
THEOREM SweepIsFinal == Spec => []NoneAfterSweep
<1>1. IInv => NoneAfterSweep
  BY DEF IInv
<1>2. QED
  BY <1>1, InvariantHolds, PTL

\* Whatever the order of turns, callbacks and requests, the client is shown a session as
\* busy only while the server knows of a turn of it.
THEOREM BusyHasTurn == Spec => []NoneBusyWithoutTurn
<1>1. IInv => NoneBusyWithoutTurn
  BY DEF IInv
<1>2. QED
  BY <1>1, InvariantHolds, PTL

================================================================================
