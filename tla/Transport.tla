------------------------------ MODULE Transport ------------------------------
(***************************************************************************)
(* The connection between the adapter and one Codex child process:         *)
(* src/src/backend/mod.rs and src/src/backend/transport.rs.                *)
(*                                                                         *)
(* Any number of tasks send through a bounded queue: a call expects an     *)
(* answer, a post (notify, respond) does not.  A writer task moves frames  *)
(* to the child, a reader task dispatches what the child prints, and a     *)
(* supervisor ends the connection.  The runtime is multi-threaded, so      *)
(* every lock acquisition, channel operation and await is a step of its    *)
(* own.                                                                    *)
(***************************************************************************)
EXTENDS Integers, Sequences, FiniteSets

CONSTANTS
  Calls,              \* request_snapshot futures, one RPC each
  Posts,              \* notify and respond futures
  Initialize,         \* the handshake's call
  Initialized,        \* the handshake's post
  OutboundCapacity,   \* options.outbound_capacity
  EventCapacity,      \* options.event_capacity
  MaxInFlight,        \* options.max_in_flight
  MaxFrames           \* bound: frames the child ever prints

Senders == Calls \union Posts

\* The validation of transport.rs:12-19, and what spawn itself sends.
ASSUME TransportAssumption ==
  /\ Calls \intersect Posts = {}
  /\ Initialize \in Calls
  /\ Initialized \in Posts
  /\ OutboundCapacity \in Nat \ {0}
  /\ EventCapacity \in Nat \ {0, 1}
  /\ MaxInFlight \in Nat \ {0}
  /\ MaxFrames \in Nat

VARIABLES
  stage,         \* progress of spawn: the handshake, then the Backend is handed out
  phase,         \* program counter of every sender
  callId,        \* the JSON-RPC id a call took from next_id
  reply,         \* the oneshot channel of every call
  outcome,       \* how every sender's future ended
  nextId,        \* Inner.next_id
  pending,       \* State.pending: calls whose Reply sender is in the map
  disconnected,  \* State.disconnected is Some
  sequence,      \* State.sequence
  outgoing,      \* the outbound mpsc channel
  wire,          \* history: frames the child was handed, in order
  printed,       \* the child's output so far
  taken,         \* how many of its frames the reader has taken
  stdoutOpen,    \* some process still holds the write end of that pipe
  events,        \* the event mpsc channel
  reserved,      \* event slots held back by the OwnedPermit for Disconnected
  receiver,      \* the event receiver has not been dropped
  observed,      \* history: events the consumer took, in order
  dispatched,    \* history: positions of the event frames enqueued, in order
  reader,        \* the read_frames task
  writer,        \* the write_frames task
  supervisor,    \* the supervise task
  child,         \* the child process runs
  shutdown       \* the shutdown watch holds true

callVars  == <<phase, callId, reply, outcome, nextId, pending>>
eventVars == <<events, reserved, receiver, observed, dispatched>>
childVars == <<printed, taken, stdoutOpen, child>>
taskVars  == <<reader, writer, supervisor>>
sharedVars == <<stage, callId, reply, nextId, disconnected, sequence, outgoing, wire,
                childVars, eventVars, taskVars, shutdown>>
vars == <<stage, callVars, disconnected, sequence, outgoing, wire, childVars,
          eventVars, taskVars, shutdown>>

----------------------------------------------------------------------------
(* Values *)

NoReply      == [kind |-> "none", of |-> Initialize, position |-> 0, at |-> 0]
LinkDown     == [kind |-> "disconnected", of |-> Initialize, position |-> 0, at |-> 0]
Failure(k)   == [kind |-> k, of |-> Initialize, position |-> 0, at |-> 0]

\* What a frame answers ("of"), State.sequence when the reader took it ("position")
\* and its place in the child's output ("at").
Replies == [kind : {"none", "result", "error", "disconnected"},
            of : Calls, position : Nat, at : Nat]
\* Nothing has been put in a call's oneshot.
Unanswered(c) == reply[c].kind = "none"
Outcomes == [kind : {"none", "sent", "result", "error", "disconnected",
                     "timeout", "cancelled", "limit"},
             of : Calls, position : Nat, at : Nat]

\* A frame of the child: an answer to the call of that id, activity, or one dispatch rejects.
Frames == [kind : {"result", "error", "activity", "malformed"},
           id : Nat, of : Calls, at : Nat]
Event  == [kind : {"activity", "terminal"}, position : Nat, at : Nat]
Terminal == [kind |-> "terminal", position |-> 0, at |-> 0]

Active == {"checking", "sending", "waiting"}

\* Types, and the configured limits: requests in flight, outbound frames, and
\* events including the terminal one whose slot is reserved from the start.
CallTypes ==
  /\ phase \in [Senders -> {"idle", "done"} \union Active]
  /\ callId \in [Calls -> Nat] /\ nextId \in Nat \ {0}
  /\ reply \in [Calls -> Replies] /\ outcome \in [Senders -> Outcomes]
TableTypes ==
  pending \subseteq Calls /\ IsFiniteSet(pending) /\ Cardinality(pending) <= MaxInFlight
PipeTypes ==
  /\ outgoing \in Seq(Senders) /\ Len(outgoing) <= OutboundCapacity /\ wire \in Seq(Senders)
  /\ printed \in Seq(Frames) /\ taken \in 0 .. Len(printed) /\ sequence \in Nat
EventTypes ==
  /\ events \in Seq(Event) /\ observed \in Seq(Event) /\ dispatched \in Seq(Nat)
  /\ reserved \in {0, 1} /\ Len(events) + reserved <= EventCapacity
FlagTypes ==
  /\ disconnected \in BOOLEAN /\ shutdown \in BOOLEAN /\ receiver \in BOOLEAN
  /\ child \in BOOLEAN /\ stdoutOpen \in BOOLEAN
TaskTypes ==
  /\ stage \in {"initialize", "initialized", "ready", "failed"}
  /\ reader \in {"running", "aborting", "ended", "overflowed"}
  /\ writer \in {"running", "aborting", "ended"}
  /\ supervisor \in {"select", "draining", "failing", "announcing", "reaping", "finished"}
  /\ supervisor \in {"select", "draining", "failing", "announcing"} => reserved = 1

TypeOK == CallTypes /\ TableTypes /\ PipeTypes /\ EventTypes /\ FlagTypes /\ TaskTypes

Init ==
  /\ stage = "initialize"
  /\ phase = [s \in Senders |-> "idle"]
  /\ callId = [c \in Calls |-> 0]
  /\ reply = [c \in Calls |-> NoReply]
  /\ outcome = [s \in Senders |-> Failure("none")]
  /\ nextId = 1
  /\ pending = {}
  /\ disconnected = FALSE
  /\ sequence = 0
  /\ outgoing = <<>> /\ wire = <<>>
  /\ printed = <<>> /\ taken = 0 /\ stdoutOpen = TRUE
  /\ events = <<>> /\ observed = <<>> /\ dispatched = <<>>
  /\ reserved = 1 /\ receiver = TRUE
  /\ reader = "running" /\ writer = "running" /\ supervisor = "select"
  /\ child = TRUE /\ shutdown = FALSE

----------------------------------------------------------------------------
(* Senders *)

\* Which futures can exist: spawn makes the handshake's, everything else needs
\* the Backend that spawn returns.
MayBegin(s) ==
  \/ s = Initialize /\ stage = "initialize"
  \/ s = Initialized /\ stage = "initialized"
  \/ s \notin {Initialize, Initialized} /\ stage = "ready"

\* A future ends.  Dropping a call's future drops its PendingGuard.
Settle(s, result) ==
  /\ phase' = [phase EXCEPT ![s] = "done"]
  /\ outcome' = [outcome EXCEPT ![s] = result]
  /\ pending' = pending \ {s}

\* The id of a new call: next_id.fetch_add.
\* Mutant: the slot number is reused once an earlier call has left the table.
FreshIdBySlot == Cardinality(pending) + 1
FreshId == nextId

\* The checks made with the table locked.
\* Mutant: the table is not looked at for a disconnection.
AdmittedUnlessFull == Cardinality(pending) < MaxInFlight
Admitted == ~disconnected /\ Cardinality(pending) < MaxInFlight

\* request_snapshot up to the insertion of the reply slot.
BeginCall(c) ==
  /\ phase[c] = "idle" /\ MayBegin(c)
  /\ callId' = [callId EXCEPT ![c] = FreshId]
  /\ nextId' = nextId + 1
  /\ \/ /\ ~Admitted
        /\ Settle(c, Failure(IF disconnected THEN "disconnected" ELSE "limit"))
     \/ /\ Admitted
        /\ pending' = pending \union {c}
        /\ phase' = [phase EXCEPT ![c] = "checking"]
        /\ UNCHANGED outcome
  /\ UNCHANGED <<stage, reply, disconnected, sequence, outgoing, wire, childVars,
                 eventVars, taskVars, shutdown>>

\* notify and respond go straight to send.
BeginPost(p) ==
  /\ phase[p] = "idle" /\ MayBegin(p)
  /\ phase' = [phase EXCEPT ![p] = "checking"]
  /\ UNCHANGED <<stage, callId, reply, outcome, nextId, pending, disconnected, sequence,
                 outgoing, wire, childVars, eventVars, taskVars, shutdown>>

\* send: the second look at State.disconnected, and the frame's size (any frame
\* but the handshake's can exceed max_frame_bytes).
CheckLink(s) ==
  /\ phase[s] = "checking"
  /\ \/ disconnected /\ Settle(s, Failure("disconnected"))
     \/ ~disconnected /\ s \notin {Initialize, Initialized} /\ Settle(s, Failure("limit"))
     \/ /\ ~disconnected
        /\ phase' = [phase EXCEPT ![s] = "sending"]
        /\ UNCHANGED <<outcome, pending>>
  /\ UNCHANGED sharedVars

\* The frame enters the outbound channel; a post is done, a call awaits its oneshot.
Enqueue(s) ==
  /\ phase[s] = "sending"
  /\ writer # "ended" /\ Len(outgoing) < OutboundCapacity
  /\ outgoing' = Append(outgoing, s)
  /\ IF s \in Posts THEN Settle(s, Failure("sent"))
     ELSE /\ phase' = [phase EXCEPT ![s] = "waiting"]
          /\ UNCHANGED <<outcome, pending>>
  /\ UNCHANGED <<stage, callId, reply, nextId, disconnected, sequence, wire, childVars,
                 eventVars, taskVars, shutdown>>

\* The outbound receiver is gone: "writer closed".
EnqueueClosed(s) ==
  /\ phase[s] = "sending" /\ writer = "ended"
  /\ Settle(s, Failure("disconnected"))
  /\ UNCHANGED sharedVars

\* The oneshot delivers what dispatch or the supervisor put there.
Receive(c) ==
  /\ phase[c] = "waiting" /\ ~Unanswered(c)
  /\ Settle(c, reply[c])
  /\ UNCHANGED sharedVars

\* request_timeout elapses (it covers the queue and the answer), or the task
\* awaiting the future is dropped; both need the future to be at an await.
GiveUp(s) ==
  /\ phase[s] \in {"sending", "waiting"}
  /\ \/ Settle(s, Failure("timeout"))
     \/ s \notin {Initialize, Initialized} /\ Settle(s, Failure("cancelled"))
  /\ UNCHANGED sharedVars

----------------------------------------------------------------------------
(* The handshake of spawn, and shutdown *)

\* A step of the handshake ended: go on, or shut the backend down and fail (an
\* error of the notification drops the Backend, whose Drop shuts it down).
HandshakeStep(from, s, success, to) ==
  /\ stage = from /\ phase[s] = "done"
  /\ \/ outcome[s].kind = success /\ stage' = to /\ UNCHANGED shutdown
     \/ outcome[s].kind # success /\ stage' = "failed" /\ shutdown' = TRUE
  /\ UNCHANGED <<callVars, disconnected, sequence, outgoing, wire, childVars, eventVars,
                 taskVars>>

HandshakeAnswered == HandshakeStep("initialize", Initialize, "result", "initialized")
HandshakeNotified == HandshakeStep("initialized", Initialized, "sent", "ready")

\* Backend::shutdown, or the last clone is dropped (no future borrows it then).
Shutdown ==
  /\ stage = "ready" /\ ~shutdown
  /\ shutdown' = TRUE
  /\ UNCHANGED <<stage, callVars, disconnected, sequence, outgoing, wire, childVars,
                 eventVars, taskVars>>

----------------------------------------------------------------------------
(* The child (external): it answers what it was sent, in any order and even
   twice, prints activity, prints garbage, closes its output, and exits. *)

ChildPrints(frame) ==
  /\ child /\ stdoutOpen /\ Len(printed) < MaxFrames
  /\ printed' = Append(printed, frame)
  /\ UNCHANGED <<stage, callVars, disconnected, sequence, outgoing, wire, taken,
                 stdoutOpen, child, eventVars, taskVars, shutdown>>

ChildAnswers(c, kind) ==
  /\ \E i \in DOMAIN wire : wire[i] = c
  /\ ChildPrints([kind |-> kind, id |-> callId[c], of |-> c, at |-> Len(printed) + 1])

ChildActs(kind) ==
  ChildPrints([kind |-> kind, id |-> 0, of |-> Initialize, at |-> Len(printed) + 1])

\* The last process that holds the pipe closes it; one the child started may
\* hold it after the child has exited.
StdoutCloses ==
  /\ stdoutOpen
  /\ stdoutOpen' = FALSE
  /\ UNCHANGED <<stage, callVars, disconnected, sequence, outgoing, wire, printed, taken,
                 child, eventVars, taskVars, shutdown>>

ChildExits ==
  /\ child
  /\ child' = FALSE
  /\ UNCHANGED <<stage, callVars, disconnected, sequence, outgoing, wire, printed, taken,
                 stdoutOpen, eventVars, taskVars, shutdown>>

----------------------------------------------------------------------------
(* The writer and the reader.  A task that was aborted still runs until its
   next await, so "aborting" can do what "running" can. *)

WriteFrame ==
  /\ writer # "ended" /\ outgoing # <<>> /\ child
  /\ wire' = Append(wire, Head(outgoing))
  /\ outgoing' = Tail(outgoing)
  /\ UNCHANGED <<stage, callVars, disconnected, sequence, childVars, eventVars, taskVars,
                 shutdown>>

\* The writer task stops, and with it the receiver of the outbound queue.
StopWriter ==
  /\ writer' = "ended" /\ outgoing' = <<>>
  /\ UNCHANGED <<stage, callVars, disconnected, sequence, wire, childVars, eventVars,
                 reader, supervisor, shutdown>>

\* A write fails: the child's stdin is broken.
WriterFails == writer = "running" /\ outgoing # <<>> /\ StopWriter

\* The abort takes effect.
WriterStops == writer = "aborting" /\ StopWriter

\* Free slots of the event channel for try_send: the permit holds one.
EventRoom == EventCapacity - Len(events) - reserved

\* read_frames takes the next frame and dispatches it under its position.
NextFrame == printed[taken + 1]

\* The frame position dispatch stamps.
\* Mutant: the counter counts responses only.
SequenceOfResponses == IF NextFrame.kind = "activity" THEN sequence ELSE sequence + 1
NextSequence == sequence + 1

ReadFrame ==
  /\ reader \in {"running", "aborting"} /\ taken < Len(printed)
  /\ taken' = taken + 1
  /\ sequence' = NextSequence
  /\ UNCHANGED <<stage, phase, callId, outcome, nextId, disconnected, outgoing, wire,
                 printed, stdoutOpen, child, reserved, receiver, observed, writer,
                 supervisor, shutdown>>

\* What a full event queue does to the reader.
\* Mutant: the frame is dropped and the connection kept.
ReaderOnFullLossy == reader
ReaderOnFull == "overflowed"

\* A notification or a server request: try_send, and end the connection when full.
DispatchActivity ==
  /\ ReadFrame /\ NextFrame.kind = "activity"
  /\ UNCHANGED <<reply, pending>>
  /\ \/ /\ receiver /\ EventRoom > 0
        /\ events' = Append(events, [kind |-> "activity", position |-> NextSequence,
                                     at |-> NextFrame.at])
        /\ dispatched' = Append(dispatched, NextFrame.at)
        /\ UNCHANGED reader
     \/ /\ ~receiver \/ EventRoom <= 0
        /\ reader' = ReaderOnFull
        /\ UNCHANGED <<events, dispatched>>

\* The table once a response has been matched.
\* Mutant: the slot stays, so a repeated answer resolves it again.
TableKeeping(slot) == pending
TableWithout(slot) == pending \ slot

\* A response: the slot of that id is removed and resolved; an unknown id is a late answer.
DispatchResponse ==
  LET slot == {c \in pending : callId[c] = NextFrame.id}
  IN /\ ReadFrame /\ NextFrame.kind \in {"result", "error"}
     /\ pending' = TableWithout(slot)
     /\ reply' = [c \in Calls |->
                    IF c \in slot
                    THEN [kind |-> NextFrame.kind, of |-> NextFrame.of,
                          position |-> NextSequence, at |-> NextFrame.at]
                    ELSE reply[c]]
     /\ UNCHANGED <<events, dispatched, reader>>

\* A frame dispatch rejects ends the reader with a protocol error.
DispatchMalformed ==
  /\ ReadFrame /\ NextFrame.kind = "malformed"
  /\ reader' = "ended"
  /\ UNCHANGED <<reply, pending, events, dispatched>>

StopReader ==
  /\ reader' = "ended"
  /\ UNCHANGED <<stage, callVars, disconnected, sequence, outgoing, wire, childVars,
                 eventVars, writer, supervisor, shutdown>>

\* End of input.
ReaderAtEof ==
  reader = "running" /\ taken = Len(printed) /\ ~stdoutOpen /\ StopReader

\* The abort takes effect.
ReaderStops == reader = "aborting" /\ StopReader

----------------------------------------------------------------------------
(* The supervisor *)

ReaderDone == reader \in {"ended", "overflowed"}

SupervisorOnly(next) ==
  /\ supervisor' = next
  /\ UNCHANGED <<stage, callVars, disconnected, sequence, outgoing, wire, childVars,
                 eventVars, reader, writer, shutdown>>

\* What ends the connection while the child runs.
\* Mutant: the end of the writer goes unnoticed.
EndsUnlessWriter == shutdown \/ ReaderDone
ConnectionOver == shutdown \/ ReaderDone \/ writer = "ended"

\* select!: whichever branch is ready; a dead child still gets its output drained.
SupervisorWakes ==
  /\ supervisor = "select"
  /\ \/ ConnectionOver /\ SupervisorOnly("failing")
     \/ ~child /\ SupervisorOnly("draining")

\* The reader finished, or the drain's second is over.
SupervisorDrained ==
  /\ supervisor = "draining"
  /\ SupervisorOnly("failing")

Drained == [c \in Calls |-> IF c \in pending THEN LinkDown ELSE reply[c]]

\* Under the lock: set disconnected and resolve every pending reply.
SupervisorFails ==
  /\ supervisor = "failing"
  /\ supervisor' = "announcing"
  /\ disconnected' = TRUE
  /\ reply' = Drained
  /\ pending' = {}
  /\ UNCHANGED <<stage, phase, callId, outcome, nextId, sequence, outgoing, wire, childVars,
                 eventVars, reader, writer, shutdown>>

\* The permit's message takes the slot it reserved.
Announced == IF receiver THEN Append(events, Terminal) ELSE events

\* Abort both tasks and use the reserved permit.
SupervisorAnnounces ==
  /\ supervisor = "announcing"
  /\ supervisor' = "reaping"
  /\ reader' = IF reader = "running" THEN "aborting" ELSE reader
  /\ writer' = IF writer = "running" THEN "aborting" ELSE writer
  /\ reserved' = 0
  /\ events' = Announced
  /\ UNCHANGED <<stage, callVars, disconnected, sequence, outgoing, wire, childVars,
                 receiver, observed, dispatched, shutdown>>

\* Wait for the child, kill it after two seconds, wait again.
SupervisorReaps ==
  /\ supervisor = "reaping"
  /\ supervisor' = "finished"
  /\ child' = FALSE
  /\ UNCHANGED <<stage, callVars, disconnected, sequence, outgoing, wire, printed, taken,
                 stdoutOpen, eventVars, reader, writer, shutdown>>

----------------------------------------------------------------------------
(* The consumer of the event channel (server::events::event_pump) *)

ConsumerTakes ==
  /\ receiver /\ events # <<>>
  /\ observed' = Append(observed, Head(events))
  /\ events' = Tail(events)
  /\ UNCHANGED <<stage, callVars, disconnected, sequence, outgoing, wire, childVars,
                 reserved, receiver, dispatched, taskVars, shutdown>>

ConsumerDrops ==
  /\ receiver /\ stage \in {"ready", "failed"}
  /\ receiver' = FALSE /\ events' = <<>>
  /\ UNCHANGED <<stage, callVars, disconnected, sequence, outgoing, wire, childVars,
                 reserved, observed, dispatched, taskVars, shutdown>>

----------------------------------------------------------------------------
SenderStep(s) ==
  \/ s \in Calls /\ (BeginCall(s) \/ Receive(s))
  \/ s \in Posts /\ BeginPost(s)
  \/ CheckLink(s) \/ Enqueue(s) \/ EnqueueClosed(s) \/ GiveUp(s)

ChildStep ==
  \/ \E c \in Calls, kind \in {"result", "error"} : ChildAnswers(c, kind)
  \/ \E kind \in {"activity", "malformed"} : ChildActs(kind)
  \/ StdoutCloses \/ ChildExits

Next ==
  \/ \E s \in Senders : SenderStep(s)
  \/ HandshakeAnswered \/ HandshakeNotified \/ Shutdown
  \/ ChildStep
  \/ WriteFrame \/ WriterFails \/ WriterStops
  \/ DispatchActivity \/ DispatchResponse \/ DispatchMalformed
  \/ ReaderAtEof \/ ReaderStops
  \/ SupervisorWakes \/ SupervisorDrained \/ SupervisorFails \/ SupervisorAnnounces
  \/ SupervisorReaps
  \/ ConsumerTakes \/ ConsumerDrops

Spec == Init /\ [][Next]_vars

\* What the runtime owes: a ready task runs, a timer of the supervisor fires,
\* a killed child is reaped, the event pump keeps receiving.  Nothing is owed by
\* the child, by request timers, or by room in the outbound queue.
Fairness ==
  /\ \A s \in Senders : WF_vars(CheckLink(s)) /\ WF_vars(EnqueueClosed(s))
  /\ \A c \in Calls : WF_vars(Receive(c))
  /\ WF_vars(WriterStops) /\ WF_vars(ReaderStops)
  /\ WF_vars(SupervisorWakes) /\ WF_vars(SupervisorDrained) /\ WF_vars(SupervisorFails)
  /\ WF_vars(SupervisorAnnounces) /\ WF_vars(SupervisorReaps)
  /\ WF_vars(ConsumerTakes)

FairSpec == Spec /\ Fairness

----------------------------------------------------------------------------
(* Properties *)

\* A call still running is either in the table or has something in its
\* oneshot, never neither (it would hang until its timer) and never both; and a
\* connection marked disconnected has an empty table, so no call can be
\* registered behind the supervisor's drain.
NoStrandedCall ==
  /\ \A c \in Calls :
       /\ c \in pending => phase[c] \in Active /\ Unanswered(c)
       /\ phase[c] \in Active => c \in pending \/ ~Unanswered(c)
  /\ disconnected => pending = {}

\* An answer delivered to a call is the child's answer to that call's own
\* request, however late, repeated or reordered the child's answers are.
AnswersCorrelated ==
  \A c \in Calls : reply[c].kind \in {"result", "error"} => reply[c].of = c

\* The position the adapter attaches to events and to answers orders them as
\* the child printed them ("the reader's exact response position").
PositionsFollowOutput ==
  LET stamped == {observed[i] : i \in {j \in DOMAIN observed : observed[j] # Terminal}}
                 \union {events[i] : i \in {j \in DOMAIN events : events[j] # Terminal}}
                 \union {reply[c] : c \in {d \in Calls : reply[d].kind \in {"result", "error"}}}
  IN \A x, y \in stamped : x.at < y.at <=> x.position < y.position

\* What went through the event channel and was not dropped with its receiver, and
\* the activity the reader has dispatched.
Passed == observed \o events
Acted ==
  {i \in 1 .. (IF reader = "overflowed" THEN taken - 1 ELSE taken) :
     printed[i].kind = "activity"}

\* Nothing the child printed as activity is lost, doubled or reordered on the way to
\* the consumer, except by ending the connection with an overflow error.
NoSilentLoss ==
  LET shown == {i \in DOMAIN Passed : Passed[i].kind = "activity"}
  IN /\ receiver => {Passed[i].at : i \in shown} = Acted
     /\ \A i, j \in shown : i < j => Passed[i].at < Passed[j].at
     /\ {dispatched[i] : i \in DOMAIN dispatched} = Acted
     /\ \A i, j \in DOMAIN dispatched : i < j => dispatched[i] < dispatched[j]

\* The verdict on a call, read off its oneshot and its future.
Verdict(c) ==
  IF Unanswered(c) THEN IF phase[c] = "done" THEN "failed" ELSE "none"
  ELSE IF reply[c].kind = "disconnected" THEN "down"
  ELSE IF reply[c].of = c THEN "answered" ELSE "misanswered"

Promise == INSTANCE RpcPromise WITH
  Limit   <- MaxInFlight,
  link    <- IF disconnected THEN "down" ELSE "up",
  open    <- pending,
  verdict <- [c \in Calls |-> Verdict(c)]

\* The table of pending replies, under every race of answers, timeouts,
\* cancellations and the supervisor's drain, keeps the promise of RpcPromise:
\* one verdict per call, its own, and none open once the link is down.
KeepsPromise == Promise!Spec

\* The inductive invariant behind the theorems of TransportProofs.
\* Ids are unique and belong to calls that began.
IdsUnique ==
  /\ \A c \in Calls : callId[c] < nextId /\ (phase[c] = "idle" <=> callId[c] = 0)
  /\ \A c, d \in Calls : callId[c] = callId[d] /\ callId[c] # 0 => c = d
\* Every frame in either direction stems from a call that began, under its id.
FramesGenuine ==
  /\ \A i \in DOMAIN outgoing : outgoing[i] \in Calls => callId[outgoing[i]] # 0
  /\ \A i \in DOMAIN wire : wire[i] \in Calls => callId[wire[i]] # 0
  /\ \A i \in DOMAIN printed :
       /\ printed[i].at = i
       /\ printed[i].kind \in {"result", "error"} =>
            callId[printed[i].of] = printed[i].id /\ printed[i].id # 0
\* A position is a place in the child's output.
StampsExact ==
  /\ sequence = taken
  /\ \A i \in DOMAIN events : events[i] # Terminal => events[i].position = events[i].at
  /\ \A i \in DOMAIN observed :
       observed[i] # Terminal => observed[i].position = observed[i].at
  /\ \A c \in Calls :
       reply[c].kind \in {"result", "error"} => reply[c].position = reply[c].at
\* The supervisor alone disconnects, and an idle call has heard nothing.
TableGuarded ==
  /\ disconnected <=> supervisor \in {"announcing", "reaping", "finished"}
  /\ \A c \in Calls : phase[c] = "idle" => Unanswered(c)
  /\ NoStrandedCall

IInv == TypeOK /\ IdsUnique /\ FramesGenuine /\ StampsExact /\ TableGuarded /\ AnswersCorrelated

\* When the connection goes down every future that is waiting on it ends, with
\* no help from a request timer.
LinkDownSettles ==
  \A s \in Senders : (disconnected /\ phase[s] \in Active) ~> phase[s] = "done"

\* A shutdown, a dead child, a closed pipe or an overflow ends the connection,
\* and the child is gone.
ConnectionEnds ==
  (shutdown \/ ~child \/ ReaderDone \/ writer = "ended") ~> (supervisor = "finished" /\ ~child)

\* A consumer that keeps receiving sees one Disconnected, however full its
\* queue was.
TerminalDelivered ==
  /\ supervisor = "failing" ~> (~receiver \/ \E i \in DOMAIN observed : observed[i] = Terminal)
  /\ [](\A i, j \in DOMAIN observed :
          observed[i] = Terminal /\ observed[j] = Terminal => i = j)

\* Whatever ends a connection ends it for everybody: for the calls that wait, for the
\* child, and for the consumer of its events.
EndsForAll == LinkDownSettles /\ ConnectionEnds /\ TerminalDelivered

=============================================================================
