---------------------------- MODULE EventDelivery ----------------------------
(***************************************************************************)
(* From the backend's event channel to the sessions: the event pump of     *)
(* src/src/server/events.rs, the session queues and their workers of       *)
(* dispatch.rs, and the three operations of server/mod.rs that steer them: *)
(* setup_request, register and synchronize_session.                        *)
(*                                                                         *)
(* One pump reads the channel, parks events of threads it cannot place     *)
(* while a session is being created, and hands the others to the queue of  *)
(* the session that owns the thread.  One worker per session delivers that *)
(* queue under the session's delivery lock, which a resume or a history    *)
(* mutation may hold for as long as it replays.                            *)
(***************************************************************************)
EXTENDS Integers, Sequences, SequencesExt, FiniteSets

CONSTANTS
  Threads,               \* threads of the backend
  Root,                  \* the topmost ancestor of every thread
  Opened,                \* root threads that are sessions from the start
  Created,               \* root threads that session/new or fork creates
  Fences,                \* calls of synchronize_session...
  Target,                \* ... and the session of each
  EarlyLimit,            \* events parked while a session is created (256)
  DeliveryLimit,         \* events queued for one session (256)
  RegistrationCapacity,  \* the registrations channel (8)
  MaxEvents              \* bound: events the child ever emits

Roots   == Opened \union Created
Waiters == Created \union Fences   \* tasks a Registration answers: New and Fence
Nobody  == 0

ASSUME DeliveryAssumption ==
  /\ Roots \subseteq Threads /\ Opened \intersect Created = {}
  /\ Root \in [Threads -> Roots] /\ \A r \in Roots : Root[r] = r
  /\ Created \intersect Fences = {} /\ Target \in [Fences -> Roots]
  /\ Waiters \intersect (0 .. MaxEvents) = {}
  /\ {EarlyLimit, DeliveryLimit, RegistrationCapacity, MaxEvents} \subseteq Nat \ {0}

VARIABLES
  printed,        \* history: the thread of each event of the child, in order;
                  \* an event is its index here
  events,         \* the channel from the reader
  registrations,  \* the registrations channel
  queued,         \* event_pump's queued: taken, not yet routed
  registered,     \* event_pump's registered: the task to answer after them
  hand,           \* the event whose owner the pump is resolving
  sessions,       \* State.sessions
  setup,          \* State.setup_in_progress
  early,          \* State.early_events
  fifo,           \* Session.events.pending
  running,        \* Session.events.running
  worker,         \* what the session's worker has popped
  holder,         \* the task holding Session.delivery across its awaits
  delivered,      \* history: events delivered to each session
  lost, refused,  \* history: events dropped, and callbacks answered with an error
  creation,       \* the session/new or fork of every created root
  fence, mark,    \* every synchronize_session call, and the events read when it began
  broken          \* event_pump returned an error: the connection ends

pumpVars == <<registrations, queued, registered, hand>>
fifoVars == <<fifo, running, worker>>
taskVars == <<holder, creation, fence, mark>>
histVars == <<delivered, lost, refused>>
vars == <<printed, events, pumpVars, sessions, setup, early, fifoVars, taskVars, histVars,
          broken>>

OwnerOf(n) == Root[printed[n]]
Events == 1 .. Len(printed)

Numbers == 1 .. MaxEvents

TypeOK ==
  /\ printed \in Seq(Threads) /\ Len(printed) <= MaxEvents
  /\ {events, queued, early} \subseteq Seq(Numbers) /\ Len(early) <= EarlyLimit
  /\ registrations \in Seq(Waiters) /\ Len(registrations) <= RegistrationCapacity
  /\ registered \in Waiters \union {Nobody} /\ hand \in Numbers \union {Nobody}
  /\ sessions \subseteq Roots /\ setup \in BOOLEAN /\ broken \in BOOLEAN
  /\ fifo \in [Roots -> Seq(Numbers \union Waiters)] /\ running \in [Roots -> BOOLEAN]
  /\ worker \in [Roots -> Numbers \union Waiters \union {Nobody}]
  /\ \A r \in Roots : /\ Len(fifo[r]) <= DeliveryLimit
                      /\ worker[r] # Nobody \/ fifo[r] # <<>> => running[r]
  /\ holder \in [Roots -> Fences \union {Nobody}] /\ delivered \in [Roots -> Seq(Numbers)]
  /\ lost \subseteq Numbers /\ refused \subseteq Numbers
  /\ creation \in [Created -> {"idle", "requested", "registering", "registered", "failed",
                               "unusable"}]
  /\ fence \in [Fences -> {"idle", "waiting", "observed", "holding", "done", "failed"}]
  /\ mark \in [Fences -> 0 .. MaxEvents]

Init ==
  /\ printed = <<>> /\ events = <<>>
  /\ registrations = <<>> /\ queued = <<>> /\ registered = Nobody /\ hand = Nobody
  /\ sessions = Opened /\ setup = FALSE /\ early = <<>>
  /\ fifo = [r \in Roots |-> <<>>]
  /\ running = [r \in Roots |-> FALSE]
  /\ worker = [r \in Roots |-> Nobody]
  /\ holder = [r \in Roots |-> Nobody]
  /\ delivered = [r \in Roots |-> <<>>]
  /\ lost = {} /\ refused = {}
  /\ creation = [x \in Created |-> "idle"]
  /\ fence = [f \in Fences |-> "idle"] /\ mark = [f \in Fences |-> 0]
  /\ broken = FALSE

----------------------------------------------------------------------------
(* The child and the reader (external; see Transport) *)

\* A thread emits a notification or a callback (which of them shows only where
\* the event is discarded); a thread under creation, or its descendants, from
\* the moment the backend has the request.
ChildEmits(t) ==
  /\ Len(printed) < MaxEvents
  /\ Root[t] \in Created => creation[Root[t]] # "idle"
  /\ printed' = Append(printed, t)
  /\ events' = Append(events, Len(printed) + 1)
  /\ UNCHANGED <<pumpVars, sessions, setup, early, fifoVars, taskVars, histVars, broken>>

----------------------------------------------------------------------------
(* Creating a session: setup_request and register *)

\* What becomes of events nobody owns: a callback gets an error, the rest is dropped.
Discard(some) ==
  /\ \E callbacks \in SUBSET some :
       refused' = refused \union callbacks /\ lost' = lost \union (some \ callbacks)
  /\ UNCHANGED delivered

\* The creation gate admits one at a time.
SetupBegins(x) ==
  /\ creation[x] = "idle"
  /\ \A y \in Created : creation[y] \notin {"requested", "registering"}
  /\ creation' = [creation EXCEPT ![x] = "requested"]
  /\ setup' = TRUE
  /\ UNCHANGED <<printed, events, pumpVars, sessions, early, fifoVars, holder, fence, mark,
                 histVars, broken>>

\* The response arrives with an id: Registration::New goes to the pump.
SetupAccepted(x) ==
  /\ creation[x] = "requested" /\ Len(registrations) < RegistrationCapacity
  /\ creation' = [creation EXCEPT ![x] = "registering"]
  /\ registrations' = Append(registrations, x)
  /\ UNCHANGED <<printed, events, queued, registered, hand, sessions, setup, early, fifoVars,
                 holder, fence, mark, histVars, broken>>

\* Mutant: the parked events are answered but stay parked.
EarlyAfterFailureKept == early
EarlyAfterFailure == <<>>

\* The request fails or times out: whatever is parked is given up.
SetupRejected(x) ==
  /\ creation[x] = "requested"
  /\ creation' = [creation EXCEPT ![x] = "failed"]
  /\ setup' = FALSE
  /\ early' = EarlyAfterFailure
  /\ Discard(ToSet(early))
  /\ UNCHANGED <<printed, events, pumpVars, sessions, fifoVars, holder, fence, mark, broken>>

\* A response without a thread id fails the operation and leaves the setup open.
SetupUnusable(x) ==
  /\ creation[x] = "requested"
  /\ creation' = [creation EXCEPT ![x] = "unusable"]
  /\ UNCHANGED <<printed, events, pumpVars, sessions, setup, early, fifoVars, holder, fence,
                 mark, histVars, broken>>

----------------------------------------------------------------------------
(* synchronize_session, and the replacement of session state it precedes.
   The session's gate admits one caller at a time. *)

FenceStep(f, from, to) == fence[f] = from /\ fence' = [fence EXCEPT ![f] = to]

FenceBegins(f) ==
  /\ Target[f] \in sessions /\ Len(registrations) < RegistrationCapacity
  /\ \A g \in Fences : Target[g] = Target[f] => fence[g] \in {"idle", "done", "failed"}
  /\ FenceStep(f, "idle", "waiting")
  /\ mark' = [mark EXCEPT ![f] = Len(printed)]
  /\ registrations' = Append(registrations, f)
  /\ UNCHANGED <<printed, events, queued, registered, hand, sessions, setup, early, fifoVars,
                 holder, creation, histVars, broken>>

\* request_timeout elapses.
FenceTimesOut(f) ==
  /\ FenceStep(f, "waiting", "failed")
  /\ UNCHANGED <<printed, events, pumpVars, sessions, setup, early, fifoVars, holder, creation,
                 mark, histVars, broken>>

\* The caller takes the delivery lock for its replay, and lets it go.
FenceLocks(f) ==
  /\ FenceStep(f, "observed", "holding")
  /\ holder[Target[f]] = Nobody
  /\ holder' = [holder EXCEPT ![Target[f]] = f]
  /\ UNCHANGED <<printed, events, pumpVars, sessions, setup, early, fifoVars, creation, mark,
                 histVars, broken>>

FenceReleases(f) ==
  /\ FenceStep(f, "holding", "done")
  /\ holder' = [holder EXCEPT ![Target[f]] = Nobody]
  /\ UNCHANGED <<printed, events, pumpVars, sessions, setup, early, fifoVars, creation, mark,
                 histVars, broken>>

----------------------------------------------------------------------------
(* The pump *)

\* The 256th entry is the last.
Full(queue, limit) == Len(queue) >= limit

\* Mutant: a marker does not start the worker of an idle session.
EnqueueQuiet(r, item) ==
  /\ fifo' = [fifo EXCEPT ![r] = Append(@, item)]
  /\ running' = [running EXCEPT ![r] = @ \/ item \notin Waiters]
  /\ UNCHANGED <<worker, broken>>

\* enqueue_session_event: a full queue is fatal, and a worker is started when none runs.
Enqueue(r, item) ==
  \/ /\ ~Full(fifo[r], DeliveryLimit)
     /\ fifo' = [fifo EXCEPT ![r] = Append(@, item)]
     /\ running' = [running EXCEPT ![r] = TRUE]
     /\ UNCHANGED <<worker, broken>>
  \/ /\ Full(fifo[r], DeliveryLimit)
     /\ broken' = TRUE
     /\ UNCHANGED fifoVars

PumpIdle == ~broken /\ hand = Nobody /\ queued = <<>>

\* The prefix is routed: end the setup, and let the waiter's marker follow it.
PumpFinishes ==
  /\ PumpIdle /\ registered # Nobody
  /\ setup' = (setup /\ registered \notin Created)
  /\ Enqueue(IF registered \in Created THEN registered ELSE Target[registered], registered)
  /\ registered' = Nobody
  /\ UNCHANGED <<printed, events, registrations, queued, hand, sessions, early, taskVars,
                 histVars>>

\* Registration::New: the session exists, and what was parked is routed first.
PumpRegisters ==
  /\ PumpIdle /\ registered = Nobody
  /\ registrations # <<>> /\ Head(registrations) \in Created
  /\ registered' = Head(registrations) /\ registrations' = Tail(registrations)
  /\ sessions' = sessions \union {Head(registrations)}
  /\ queued' = early /\ early' = <<>>
  /\ UNCHANGED <<printed, events, hand, setup, fifoVars, taskVars, histVars, broken>>

\* Mutant: the fence does not capture what is already in the channel.
CapturedNothing == <<>>
Captured == events

\* Registration::Fence: everything now in the channel is routed first.
PumpFences ==
  /\ PumpIdle /\ registered = Nobody
  /\ registrations # <<>> /\ Head(registrations) \in Fences
  /\ registered' = Head(registrations) /\ registrations' = Tail(registrations)
  /\ queued' = Captured
  /\ events' = SubSeq(events, Len(Captured) + 1, Len(events))
  /\ UNCHANGED <<printed, hand, sessions, setup, early, fifoVars, taskVars, histVars, broken>>

\* Mutant: any event of a session being set up elsewhere is parked.
ParkedEvenIfKnown(n) == setup /\ registered = Nobody
\* The pump cannot place the thread, and a creation may explain it.
Parked(n) == printed[n] \notin sessions /\ setup /\ registered = Nobody

\* The next event, from the captured prefix or else the channel, is parked or taken in hand.
PumpTakes ==
  LET n == Head(queued \o events) IN
  /\ ~broken /\ hand = Nobody /\ queued \o events # <<>>
  /\ queued = <<>> => registered = Nobody
  /\ IF queued # <<>> THEN queued' = Tail(queued) /\ UNCHANGED events
     ELSE events' = Tail(events) /\ UNCHANGED queued
  /\ \/ /\ ~Parked(n)
        /\ hand' = n
        /\ UNCHANGED <<early, broken>>
     \/ /\ Parked(n)
        /\ broken' = Full(early, EarlyLimit)
        /\ early' = IF broken' THEN early ELSE Append(early, n)
        /\ UNCHANGED hand
  /\ UNCHANGED <<printed, registrations, registered, sessions, setup, fifoVars, taskVars,
                 histVars>>

\* route_session_event: to the queue of the owner, or to nobody.
PumpRoutes ==
  /\ ~broken /\ hand # Nobody /\ hand' = Nobody
  /\ \/ OwnerOf(hand) \in sessions /\ Enqueue(OwnerOf(hand), hand) /\ UNCHANGED histVars
     \/ OwnerOf(hand) \notin sessions /\ Discard({hand}) /\ UNCHANGED <<fifoVars, broken>>
  /\ UNCHANGED <<printed, events, registrations, queued, registered, sessions, setup, early,
                 taskVars>>

\* The thread/read that resolves an unknown thread fails, or the terminal event is next.
PumpFails ==
  /\ ~broken
  /\ \/ hand # Nobody /\ printed[hand] \notin sessions
     \/ PumpIdle /\ registered = Nobody /\ events = <<>>
  /\ broken' = TRUE
  /\ UNCHANGED <<printed, events, pumpVars, sessions, setup, early, fifoVars, taskVars, histVars>>

----------------------------------------------------------------------------
(* The worker of a session *)

WorkerTakes(r) ==
  /\ running[r] /\ worker[r] = Nobody
  /\ IF fifo[r] = <<>> THEN running' = [running EXCEPT ![r] = FALSE] /\ UNCHANGED <<fifo, worker>>
     ELSE /\ worker' = [worker EXCEPT ![r] = Head(fifo[r])]
          /\ fifo' = [fifo EXCEPT ![r] = Tail(@)]
          /\ UNCHANGED running
  /\ UNCHANGED <<printed, events, pumpVars, sessions, setup, early, taskVars, histVars, broken>>

\* A Registered marker answers its waiter, if it still waits.
WorkerAnswers(r) ==
  LET w == worker[r] IN
  /\ w \in Waiters
  /\ worker' = [worker EXCEPT ![r] = Nobody]
  /\ \/ w \in Created /\ creation' = [creation EXCEPT ![w] = "registered"] /\ UNCHANGED fence
     \/ w \in Fences /\ FenceStep(w, "waiting", "observed") /\ UNCHANGED creation
     \/ w \in Fences /\ fence[w] # "waiting" /\ UNCHANGED <<creation, fence>>
  /\ UNCHANGED <<printed, events, pumpVars, sessions, setup, early, fifo, running, holder, mark,
                 histVars, broken>>

Deliverable(r) == holder[r] = Nobody

\* A notification or a callback is delivered under the delivery lock.
WorkerDelivers(r) ==
  /\ worker[r] \notin Waiters \union {Nobody} /\ Deliverable(r)
  /\ delivered' = [delivered EXCEPT ![r] = Append(@, worker[r])]
  /\ worker' = [worker EXCEPT ![r] = Nobody]
  /\ UNCHANGED <<printed, events, pumpVars, sessions, setup, early, fifo, running, taskVars, lost,
                 refused, broken>>

----------------------------------------------------------------------------
PumpStep == PumpFinishes \/ PumpRegisters \/ PumpFences \/ PumpTakes \/ PumpRoutes
WorkerStep(r) == WorkerTakes(r) \/ WorkerAnswers(r) \/ WorkerDelivers(r)
CreationStep(x) == SetupBegins(x) \/ SetupAccepted(x) \/ SetupRejected(x) \/ SetupUnusable(x)
FenceTaskStep(f) == FenceBegins(f) \/ FenceTimesOut(f) \/ FenceLocks(f) \/ FenceReleases(f)

\* When the pump has failed the other tasks run on until they are dropped.
Next ==
  \/ \E t \in Threads : ChildEmits(t)
  \/ PumpStep \/ PumpFails
  \/ \E r \in Roots : WorkerStep(r)
  \/ \E x \in Created : CreationStep(x)
  \/ \E f \in Fences : FenceTaskStep(f)

Spec == Init /\ [][Next]_vars

\* The pump and the workers are tasks of the runtime, and every request to the
\* backend is answered or times out.  A replay that holds a delivery lock owes
\* nothing.
Fairness ==
  /\ WF_vars(PumpStep)
  /\ \A r \in Roots : WF_vars(WorkerStep(r))
  /\ \A x \in Created :
       WF_vars(SetupAccepted(x) \/ SetupRejected(x) \/ SetupUnusable(x))

FairSpec == Spec /\ Fairness

----------------------------------------------------------------------------
(* Properties *)

\* Where an event is, once for each time it is there.
At(place, r, line, n) == {<<place, r, i>> : i \in {j \in DOMAIN line : line[j] = n}}

Line(r, n) ==
  At("queue", r, fifo[r], n) \union At("worker", r, <<worker[r]>>, n)
  \union At("client", r, delivered[r], n)

Places(n) ==
  At("channel", Nobody, events, n) \union At("captured", Nobody, queued, n)
  \union At("hand", Nobody, <<hand>>, n) \union At("parked", Nobody, early, n)
  \union {<<"given up", Nobody, i>> : i \in {j \in 1 .. 2 : n \in <<lost, refused>>[j]}}
  \union UNION {Line(r, n) : r \in Roots}

\* Every event the reader handed over is in exactly one place: not lost without
\* trace, not delivered twice, however pump, setup, fences and workers interleave.
ExactlyOnce ==
  ~broken => \A n \in Events : \E place \in Places(n) : Places(n) = {place}

\* An open session receives its own thread's events in order, and loses none,
\* whatever is being created or replayed meanwhile.
OwnThreadInOrder ==
  \A r \in Roots :
    LET own == {i \in DOMAIN delivered[r] : printed[delivered[r][i]] = r}
    IN /\ \A i, j \in own : i < j => delivered[r][i] < delivered[r][j]
       /\ r \in Opened => \A n \in lost \union refused : printed[n] # r

\* When synchronize_session has returned, everything its session's thread had
\* emitted before is delivered (or was discarded, if the session was not one yet).
FenceObservesOwn ==
  \A f \in Fences : fence[f] \in {"observed", "holding"} =>
    \A n \in 1 .. mark[f] :
      printed[n] = Target[f] => n \in ToSet(delivered[Target[f]]) \union lost \union refused

\* An event ends up with its session, or is discarded, unless the connection
\* ends, a setup is stuck, or its own session is being replayed: one slow
\* session never holds up another.
SessionsIndependent ==
  \A n \in 1 .. MaxEvents :
    (n \in Events) ~>
      \/ broken \/ \E x \in Created : creation[x] = "unusable"
      \/ n \in lost \union refused \/ \E r \in Roots : n \in ToSet(delivered[r])
      \/ n \in Events /\ holder[OwnerOf(n)] # Nobody

\* A session the backend has created is registered, and session/new answered.
CreationAnswered ==
  \A x \in Created : creation[x] = "registering" ~> (creation[x] = "registered" \/ broken)

\* Neither a replay nor a creation stops the events of other sessions.
EventsGoOn == SessionsIndependent /\ CreationAnswered

\* README.md:436, "Subagent callbacks are attached to their backend-verified open
\* ACP root": the callback of an open session's descendant is not turned away.
CallbacksAttached ==
  \A n \in refused : OwnerOf(n) \notin Opened

=============================================================================
