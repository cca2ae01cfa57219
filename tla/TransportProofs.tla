--------------------------- MODULE TransportProofs ---------------------------
(***************************************************************************)
(* Theorems of Transport, for any sets of calls and posts, any capacities  *)
(* and any child.                                                          *)
(***************************************************************************)
EXTENDS Transport, FiniteSetTheorems, TLAPS

USE TransportAssumption DEF Senders, Active

----------------------------------------------------------------------------
(* Type correctness *)

\* Removing calls from the table keeps it a finite set within the limit.
LEMMA TableShrinks ==
  ASSUME TableTypes, pending' \subseteq pending
  PROVE  TableTypes'
<1>1. IsFiniteSet(pending') /\ Cardinality(pending') <= Cardinality(pending)
  BY FS_Subset DEF TableTypes
<1>2. Cardinality(pending) \in Nat /\ Cardinality(pending') \in Nat
  BY <1>1, FS_CardinalityType DEF TableTypes
<1>3. QED
  BY <1>1, <1>2 DEF TableTypes

LEMMA TypeInitial == Init => TypeOK
<1> SUFFICES ASSUME Init PROVE TypeOK
  OBVIOUS
<1>1. CallTypes
  BY DEF Init, CallTypes, Replies, Outcomes, NoReply, Failure
<1>2. TableTypes
  BY FS_EmptySet DEF Init, TableTypes
<1>3. PipeTypes
  BY DEF Init, PipeTypes
<1>4. EventTypes
  BY DEF Init, EventTypes
<1>5. FlagTypes /\ TaskTypes
  BY DEF Init, FlagTypes, TaskTypes
<1>6. QED
  BY <1>1, <1>2, <1>3, <1>4, <1>5 DEF TypeOK

\* A future that ends with an outcome of the right type keeps the types.
LEMMA SettleTypes ==
  ASSUME CallTypes, TableTypes, NEW s \in Senders, NEW r \in Outcomes, Settle(s, r),
         callId' = callId \/ (s \in Calls /\ callId' = [callId EXCEPT ![s] = nextId]),
         nextId' \in {nextId, nextId + 1}, reply' = reply
  PROVE  CallTypes' /\ TableTypes'
<1>1. TableTypes'
  BY TableShrinks DEF Settle
<1>2. CallTypes'
  BY DEF CallTypes, Settle
<1>3. QED
  BY <1>1, <1>2

LEMMA FailureIsOutcome ==
  \A k \in {"none", "sent", "disconnected", "timeout", "cancelled", "limit"} :
     Failure(k) \in Outcomes
  BY DEF Failure, Outcomes

LEMMA ReplyIsOutcome == CallTypes => \A c \in Calls : reply[c] \in Outcomes
  BY DEF CallTypes, Replies, Outcomes

LEMMA TypeOfSenders ==
  ASSUME TypeOK, NEW s \in Senders, SenderStep(s)
  PROVE  TypeOK'
<1>0. CallTypes /\ TableTypes /\ PipeTypes /\ EventTypes /\ FlagTypes /\ TaskTypes
  BY DEF TypeOK
<1>1. EventTypes' /\ FlagTypes' /\ TaskTypes'
  BY <1>0 DEF SenderStep, BeginCall, Receive, BeginPost, CheckLink, Enqueue, EnqueueClosed,
     GiveUp, sharedVars, childVars, eventVars, taskVars, EventTypes, FlagTypes, TaskTypes
<1>2. PipeTypes'
  <2>1. CASE Enqueue(s)
    BY <1>0, <2>1 DEF Enqueue, childVars, PipeTypes
  <2>2. CASE ~Enqueue(s)
    BY <1>0, <2>2 DEF SenderStep, BeginCall, Receive, BeginPost, CheckLink, EnqueueClosed,
       GiveUp, sharedVars, childVars, PipeTypes
  <2>3. QED
    BY <2>1, <2>2
<1>3. CallTypes' /\ TableTypes'
  <2>1. CASE s \in Calls /\ BeginCall(s)
    <3>1. CASE ~Admitted
      <4> DEFINE r == Failure(IF disconnected THEN "disconnected" ELSE "limit")
      <4>1. r \in Outcomes
        BY FailureIsOutcome
      <4>2. Settle(s, r) /\ reply' = reply /\ nextId' = nextId + 1
            /\ callId' = [callId EXCEPT ![s] = nextId]
        BY <2>1, <3>1 DEF BeginCall, FreshId
      <4> HIDE DEF r
      <4>3. QED
        BY <1>0, <2>1, <4>1, <4>2, SettleTypes
    <3>2. CASE Admitted
      <4>1. TableTypes'
        <5>1. pending' = pending \union {s} /\ Cardinality(pending) < MaxInFlight
          BY <2>1, <3>2 DEF BeginCall, Admitted
        <5>2. IsFiniteSet(pending) /\ Cardinality(pending) \in Nat
          BY <1>0, FS_CardinalityType DEF TableTypes
        <5>3. IsFiniteSet(pending') /\ Cardinality(pending') \in
                {Cardinality(pending), Cardinality(pending) + 1}
          BY <5>1, <5>2, FS_AddElement
        <5>4. Cardinality(pending') \in Nat
          BY <5>3, FS_CardinalityType
        <5>5. QED
          BY <1>0, <2>1, <5>1, <5>2, <5>3, <5>4 DEF TableTypes
      <4>2. CallTypes'
        BY <1>0, <2>1, <3>2 DEF BeginCall, FreshId, CallTypes
      <4>3. QED
        BY <4>1, <4>2
    <3>3. QED
      BY <3>1, <3>2
  <2>2. CASE s \in Calls /\ Receive(s)
    BY <1>0, <2>2, SettleTypes, ReplyIsOutcome DEF Receive, sharedVars
  <2>3. CASE s \in Posts /\ BeginPost(s)
    BY <1>0, <2>3 DEF BeginPost, CallTypes, TableTypes
  <2>4. CASE CheckLink(s)
    <3>1. CASE \E k \in {"disconnected", "limit"} : Settle(s, Failure(k))
      BY <1>0, <2>4, <3>1, SettleTypes, FailureIsOutcome DEF CheckLink, sharedVars
    <3>2. CASE phase' = [phase EXCEPT ![s] = "sending"] /\ UNCHANGED <<outcome, pending>>
      BY <1>0, <2>4, <3>2 DEF CheckLink, sharedVars, CallTypes, TableTypes
    <3>3. QED
      BY <2>4, <3>1, <3>2 DEF CheckLink
  <2>5. CASE Enqueue(s)
    <3>1. CASE s \in Posts
      BY <1>0, <2>5, <3>1, SettleTypes, FailureIsOutcome DEF Enqueue
    <3>2. CASE s \notin Posts
      BY <1>0, <2>5, <3>2 DEF Enqueue, CallTypes, TableTypes
    <3>3. QED
      BY <3>1, <3>2
  <2>6. CASE EnqueueClosed(s)
    BY <1>0, <2>6, SettleTypes, FailureIsOutcome DEF EnqueueClosed, sharedVars
  <2>7. CASE GiveUp(s)
    BY <1>0, <2>7, SettleTypes, FailureIsOutcome DEF GiveUp, sharedVars
  <2>8. QED
    BY <2>1, <2>2, <2>3, <2>4, <2>5, <2>6, <2>7 DEF SenderStep
<1>4. QED
  BY <1>1, <1>2, <1>3 DEF TypeOK

----
LEMMA TypeOfLink ==
  ASSUME TypeOK,
         \/ HandshakeAnswered \/ HandshakeNotified \/ Shutdown \/ ChildStep
         \/ WriteFrame \/ WriterFails \/ WriterStops \/ ReaderAtEof \/ ReaderStops
         \/ SupervisorWakes \/ SupervisorDrained \/ SupervisorReaps
         \/ ConsumerTakes \/ ConsumerDrops
  PROVE  TypeOK'
<1>0. CallTypes /\ TableTypes /\ PipeTypes /\ EventTypes /\ FlagTypes /\ TaskTypes
  BY DEF TypeOK
<1> USE DEF StopWriter, StopReader, WriterFails, WriterStops, ReaderAtEof, ReaderStops,
            HandshakeStep, HandshakeAnswered, HandshakeNotified, SupervisorOnly
<1>1. CallTypes' /\ TableTypes'
  BY <1>0 DEF Shutdown, ChildStep, ChildAnswers, ChildActs, ChildPrints, StdoutCloses,
     ChildExits, WriteFrame, SupervisorWakes, SupervisorDrained, SupervisorReaps,
     ConsumerTakes, ConsumerDrops, callVars, CallTypes, TableTypes
<1>2. PipeTypes'
  <2>1. CASE \E c \in Calls, kind \in {"result", "error"} : ChildAnswers(c, kind)
    BY <1>0, <2>1, SMTT(60) DEF ChildAnswers, ChildPrints, PipeTypes, CallTypes, Frames
  <2>2. CASE \E kind \in {"activity", "malformed"} : ChildActs(kind)
    BY <1>0, <2>2 DEF ChildActs, ChildPrints, PipeTypes, Frames
  <2>3. CASE WriteFrame
    BY <1>0, <2>3 DEF WriteFrame, childVars, PipeTypes
  <2>4. CASE WriterFails \/ WriterStops
    <3>1. outgoing' = <<>> /\ UNCHANGED <<wire, printed, taken, sequence>>
      BY <2>4 DEF childVars
    <3>2. outgoing' \in Seq(Senders) /\ Len(outgoing') = 0
      BY <3>1
    <3>3. QED
      BY <1>0, <3>1, <3>2 DEF PipeTypes
  <2>5. CASE UNCHANGED <<outgoing, wire, printed, taken, sequence>>
    BY <1>0, <2>5 DEF PipeTypes
  <2>6. QED
    BY <2>1, <2>2, <2>3, <2>4, <2>5 DEF Shutdown, ChildStep, StdoutCloses, ChildExits,
       SupervisorWakes, SupervisorDrained, SupervisorReaps, ConsumerTakes, ConsumerDrops,
       childVars
<1>3. EventTypes'
  <2>1. CASE ConsumerTakes
    BY <1>0, <2>1 DEF ConsumerTakes, EventTypes
  <2>2. CASE ConsumerDrops
    <3>1. events' = <<>> /\ receiver' = FALSE /\ UNCHANGED <<reserved, observed, dispatched>>
      BY <2>2 DEF ConsumerDrops
    <3>2. events' \in Seq(Event) /\ Len(events') = 0
      BY <3>1
    <3>3. QED
      BY <1>0, <3>1, <3>2 DEF EventTypes
  <2>3. CASE UNCHANGED eventVars
    BY <1>0, <2>3 DEF EventTypes, eventVars
  <2>4. QED
    BY <2>1, <2>2, <2>3 DEF Shutdown, ChildStep, ChildAnswers, ChildActs, ChildPrints,
       StdoutCloses, ChildExits, WriteFrame, SupervisorWakes, SupervisorDrained,
       SupervisorReaps
<1>4. FlagTypes'
  <2>1. CASE UNCHANGED <<disconnected, receiver, shutdown, child, stdoutOpen>>
    BY <1>0, <2>1 DEF FlagTypes
  <2>2. CASE HandshakeAnswered \/ HandshakeNotified \/ Shutdown
    BY <1>0, <2>2 DEF Shutdown, childVars, eventVars, FlagTypes
  <2>3. CASE ChildStep
    BY <1>0, <2>3 DEF ChildStep, ChildAnswers, ChildActs, ChildPrints, StdoutCloses,
       ChildExits, eventVars, FlagTypes
  <2>4. CASE SupervisorReaps \/ ConsumerDrops
    BY <1>0, <2>4 DEF SupervisorReaps, ConsumerDrops, childVars, eventVars, FlagTypes
  <2>5. QED
    BY <2>1, <2>2, <2>3, <2>4 DEF WriteFrame, SupervisorWakes, SupervisorDrained,
       ConsumerTakes, childVars, eventVars
<1>5. TaskTypes'
  <2>1. CASE HandshakeAnswered \/ HandshakeNotified \/ Shutdown
    BY <1>0, <2>1 DEF Shutdown, eventVars, taskVars, TaskTypes
  <2>2. CASE ChildStep
    BY <1>0, <2>2, ZenonT(60) DEF ChildStep, ChildAnswers, ChildActs, ChildPrints, StdoutCloses,
       ChildExits, eventVars, taskVars, TaskTypes
  <2>3. CASE WriteFrame \/ WriterFails \/ WriterStops \/ ReaderAtEof \/ ReaderStops
    BY <1>0, <2>3 DEF WriteFrame, eventVars, taskVars, TaskTypes
  <2>4. CASE SupervisorWakes \/ SupervisorDrained \/ SupervisorReaps
    BY <1>0, <2>4 DEF SupervisorWakes, SupervisorDrained, SupervisorReaps, eventVars, TaskTypes
  <2>5. CASE ConsumerTakes \/ ConsumerDrops
    BY <1>0, <2>5 DEF ConsumerTakes, ConsumerDrops, taskVars, TaskTypes
  <2>6. QED
    BY <2>1, <2>2, <2>3, <2>4, <2>5
<1>6. QED
  BY <1>1, <1>2, <1>3, <1>4, <1>5 DEF TypeOK

LEMMA TypeOfDispatch ==
  ASSUME TypeOK, DispatchActivity \/ DispatchResponse \/ DispatchMalformed
  PROVE  TypeOK'
<1>0. CallTypes /\ TableTypes /\ PipeTypes /\ EventTypes /\ FlagTypes /\ TaskTypes
  BY DEF TypeOK
<1>1. /\ NextFrame \in Frames /\ sequence' \in Nat /\ PipeTypes'
      /\ UNCHANGED <<phase, callId, outcome, nextId>>
  BY <1>0 DEF DispatchActivity, DispatchResponse, DispatchMalformed, ReadFrame, NextFrame,
     NextSequence, PipeTypes
<1>2. TableTypes'
  <2>1. pending' \subseteq pending
    BY DEF DispatchActivity, DispatchResponse, DispatchMalformed, TableWithout
  <2>2. QED
    BY <1>0, <2>1, TableShrinks
<1>3. CallTypes'
  <2>1. CASE DispatchResponse
    BY <1>0, <1>1, <2>1, SMTT(60) DEF DispatchResponse, CallTypes, PipeTypes, Frames, Replies,
       NextSequence
  <2>2. CASE UNCHANGED reply
    BY <1>0, <1>1, <2>2 DEF CallTypes
  <2>3. QED
    BY <2>1, <2>2 DEF DispatchActivity, DispatchMalformed
<1>4. EventTypes'
  <2>1. CASE DispatchActivity
    <3>1. UNCHANGED <<reserved, receiver, observed>>
      BY <2>1 DEF DispatchActivity, ReadFrame
    <3>2. CASE UNCHANGED <<events, dispatched>>
      BY <1>0, <3>1, <3>2 DEF EventTypes
    <3>3. CASE ~UNCHANGED <<events, dispatched>>
      <4> DEFINE e == [kind |-> "activity", position |-> NextSequence, at |-> NextFrame.at]
      <4>1. e \in Event /\ NextFrame.at \in Nat
        BY <1>0, <1>1 DEF NextSequence, PipeTypes, Frames, Event
      <4>2. EventRoom > 0 /\ events' = Append(events, e)
            /\ dispatched' = Append(dispatched, NextFrame.at)
        BY <2>1, <3>3 DEF DispatchActivity
      <4> HIDE DEF e
      <4>3. QED
        BY <1>0, <3>1, <4>1, <4>2 DEF EventTypes, EventRoom
    <3>4. QED
      BY <3>2, <3>3
  <2>2. CASE ~DispatchActivity
    BY <1>0, <2>2 DEF DispatchResponse, DispatchMalformed, ReadFrame, EventTypes
  <2>3. QED
    BY <2>1, <2>2
<1>5. FlagTypes' /\ TaskTypes'
  BY <1>0 DEF DispatchActivity, DispatchResponse, DispatchMalformed, ReadFrame, ReaderOnFull,
     FlagTypes, TaskTypes
<1>6. QED
  BY <1>1, <1>2, <1>3, <1>4, <1>5 DEF TypeOK

LEMMA TypeOfSupervisor ==
  ASSUME TypeOK, SupervisorFails \/ SupervisorAnnounces
  PROVE  TypeOK'
<1>0. CallTypes /\ TableTypes /\ PipeTypes /\ EventTypes /\ FlagTypes /\ TaskTypes
  BY DEF TypeOK
<1>1. CASE SupervisorFails
  <2>1. CallTypes'
    BY <1>0, <1>1 DEF SupervisorFails, Drained, CallTypes, Replies, LinkDown
  <2>2. TableTypes'
    BY <1>0, <1>1, TableShrinks DEF SupervisorFails
  <2>3. PipeTypes' /\ EventTypes' /\ FlagTypes' /\ TaskTypes'
    BY <1>0, <1>1 DEF SupervisorFails, childVars, eventVars, PipeTypes, EventTypes,
       FlagTypes, TaskTypes
  <2>4. QED
    BY <2>1, <2>2, <2>3 DEF TypeOK
<1>2. CASE SupervisorAnnounces
  <2>1. CallTypes' /\ TableTypes' /\ PipeTypes' /\ FlagTypes' /\ TaskTypes'
    BY <1>0, <1>2 DEF SupervisorAnnounces, callVars, childVars, CallTypes, TableTypes,
       PipeTypes, FlagTypes, TaskTypes
  <2>2. Terminal \in Event
    BY DEF Terminal, Event
  <2>3. reserved = 1
    BY <1>0, <1>2 DEF SupervisorAnnounces, TaskTypes
  <2>4. EventTypes'
    <3>1. /\ reserved' = 0 /\ UNCHANGED <<receiver, observed, dispatched>>
          /\ events' = IF receiver THEN Append(events, Terminal) ELSE events
      BY <1>2 DEF SupervisorAnnounces, Announced
    <3>2. events \in Seq(Event) /\ Len(events) \in Nat /\ Len(events) + 1 <= EventCapacity
      BY <1>0, <2>3 DEF EventTypes
    <3>3. events' \in Seq(Event) /\ Len(events') \in Nat /\ Len(events') <= Len(events) + 1
      BY <2>2, <3>1, <3>2
    <3>4. QED
      BY <1>0, <3>1, <3>2, <3>3 DEF EventTypes
  <2>5. QED
    BY <2>1, <2>4 DEF TypeOK
<1>3. QED
  BY <1>1, <1>2

LEMMA TypeStuttering == TypeOK /\ UNCHANGED vars => TypeOK'
  BY DEF TypeOK, CallTypes, TableTypes, PipeTypes, EventTypes, FlagTypes, TaskTypes, vars, callVars,
     childVars, eventVars, taskVars

\* Every variable keeps its type and no queue or table outgrows its configured
\* capacity; in particular the terminal event always has its slot.
THEOREM TypeCorrect == Spec => []TypeOK
<1>1. TypeOK /\ [Next]_vars => TypeOK'
  BY TypeOfSenders, TypeOfLink, TypeOfDispatch, TypeOfSupervisor, TypeStuttering DEF Next
<1>2. QED
  BY <1>1, TypeInitial, PTL DEF Spec

----
(* The inductive invariant.  Most actions leave most of its variables alone, so
   each conjunct has a lemma that looks at the actions able to disturb it. *)

LEMMA InvInitial == Init => IInv
<1> SUFFICES ASSUME Init PROVE IInv
  OBVIOUS
<1>1. IdsUnique
  BY DEF Init, IdsUnique
<1>2. FramesGenuine
  BY DEF Init, FramesGenuine
<1>3. StampsExact
  BY DEF Init, StampsExact, NoReply
<1>4. TableGuarded
  BY DEF Init, TableGuarded, NoStrandedCall, Unanswered, NoReply, Active
<1>5. AnswersCorrelated
  BY DEF Init, AnswersCorrelated, NoReply
<1>6. QED
  BY <1>1, <1>2, <1>3, <1>4, <1>5, TypeInitial DEF IInv

\* What a step of a sender does to the sender's own call, and to no other.
LEMMA SenderFacts ==
  ASSUME TypeOK, NEW s \in Senders, SenderStep(s)
  PROVE  /\ UNCHANGED <<reply, disconnected, sequence, wire, printed, taken, events, observed,
                        supervisor>>
         /\ \A t \in Senders : t # s => phase'[t] = phase[t]
         /\ phase'[s] # "idle"
         /\ \/ BeginCall(s) /\ s \in Calls
            \/ callId' = callId /\ nextId' = nextId /\ (s \in Calls => phase[s] # "idle")
<1> USE DEF sharedVars, childVars, eventVars, taskVars, TypeOK, CallTypes, Settle
<1>1. CASE s \in Calls /\ BeginCall(s)
  BY <1>1 DEF BeginCall
<1>2. CASE s \in Calls /\ Receive(s)
  BY <1>2 DEF Receive
<1>3. CASE s \in Posts /\ BeginPost(s)
  BY <1>3 DEF BeginPost
<1>4. CASE CheckLink(s)
  BY <1>4 DEF CheckLink
<1>5. CASE Enqueue(s)
  BY <1>5 DEF Enqueue
<1>6. CASE EnqueueClosed(s)
  BY <1>6 DEF EnqueueClosed
<1>7. CASE GiveUp(s)
  BY <1>7 DEF GiveUp
<1> HIDE DEF sharedVars, childVars, eventVars, taskVars, TypeOK, CallTypes, Settle
<1>8. QED
  BY <1>1, <1>2, <1>3, <1>4, <1>5, <1>6, <1>7 DEF SenderStep

\* What every other step leaves alone.
LEMMA OtherFacts ==
  ASSUME Next \/ UNCHANGED vars, ~\E s \in Senders : SenderStep(s)
  PROVE  UNCHANGED <<phase, callId, outcome, nextId>>
  BY DEF Next, vars, callVars, HandshakeAnswered, HandshakeNotified, HandshakeStep, Shutdown,
     ChildStep, ChildAnswers, ChildActs, ChildPrints, StdoutCloses, ChildExits, WriteFrame,
     WriterFails, WriterStops, StopWriter, DispatchActivity, DispatchResponse,
     DispatchMalformed, ReadFrame, ReaderAtEof, ReaderStops, StopReader, SupervisorWakes,
     SupervisorDrained, SupervisorOnly, SupervisorFails, SupervisorAnnounces,
     SupervisorReaps, ConsumerTakes, ConsumerDrops

LEMMA IdsUniqueStep == IInv /\ [Next]_vars => IdsUnique'
<1> SUFFICES ASSUME IInv, Next \/ UNCHANGED vars PROVE IdsUnique'
  OBVIOUS
<1>0. TypeOK /\ IdsUnique /\ CallTypes
  BY DEF IInv, TypeOK
<1>1. ASSUME NEW s \in Senders, SenderStep(s)
      PROVE  IdsUnique'
  <2>1. CASE s \in Calls /\ BeginCall(s)
    <3>1. /\ phase[s] = "idle" /\ callId' = [callId EXCEPT ![s] = nextId]
          /\ nextId' = nextId + 1
      BY <2>1 DEF BeginCall, FreshId
    <3>2. QED
      BY <1>0, <1>1, <2>1, <3>1, SenderFacts DEF IdsUnique, CallTypes
  <2>2. CASE callId' = callId /\ nextId' = nextId /\ (s \in Calls => phase[s] # "idle")
    BY <1>0, <1>1, <2>2, SenderFacts DEF IdsUnique, CallTypes
  <2>3. QED
    BY <1>0, <1>1, <2>1, <2>2, SenderFacts
<1>2. CASE ~\E s \in Senders : SenderStep(s)
  BY <1>0, <1>2, OtherFacts DEF IdsUnique
<1>3. QED
  BY <1>1, <1>2

LEMMA FrameFields ==
  ASSUME PipeTypes, NEW i \in DOMAIN printed
  PROVE  /\ printed[i] \in Frames /\ printed[i].id \in Nat /\ printed[i].of \in Calls
         /\ printed[i].at \in Nat
<1>1. printed \in Seq(Frames)
  BY DEF PipeTypes
<1>2. printed[i] \in Frames
  BY <1>1
<1>3. QED
  BY <1>2 DEF Frames

LEMMA FramesGenuineStep == IInv /\ [Next]_vars => FramesGenuine'
<1> SUFFICES ASSUME IInv, Next \/ UNCHANGED vars PROVE FramesGenuine'
  OBVIOUS
<1>0. TypeOK /\ CallTypes /\ PipeTypes /\ IdsUnique /\ FramesGenuine
  BY DEF IInv, TypeOK
<1>1. ASSUME NEW s \in Senders, SenderStep(s)
      PROVE  FramesGenuine'
  <2>1. CASE s \in Calls /\ BeginCall(s)
    <3>1. /\ callId[s] = 0 /\ callId' = [callId EXCEPT ![s] = nextId]
          /\ UNCHANGED <<outgoing, wire, printed>>
      BY <1>0, <2>1 DEF BeginCall, FreshId, IdsUnique, childVars
    <3>2. nextId # 0 /\ \A c \in Calls : callId[c] # 0 => callId'[c] = callId[c]
      BY <1>0, <3>1 DEF CallTypes
    <3>3. \A c \in Calls : callId'[c] = 0 => callId[c] = 0
      BY <1>0, <3>1, <3>2 DEF CallTypes
    <3>4. \A i \in DOMAIN printed : printed[i].of \in Calls
      BY <1>0, FrameFields
    <3>5. /\ \A i \in DOMAIN outgoing : outgoing[i] \in Calls => callId'[outgoing[i]] # 0
          /\ \A i \in DOMAIN wire : wire[i] \in Calls => callId'[wire[i]] # 0
      BY <1>0, <3>3 DEF FramesGenuine
    <3>6. \A i \in DOMAIN printed :
             /\ printed[i].at = i
             /\ printed[i].kind \in {"result", "error"} =>
                  callId'[printed[i].of] = printed[i].id /\ printed[i].id # 0
      BY <1>0, <3>2, <3>4 DEF FramesGenuine
    <3>7. QED
      BY <3>1, <3>5, <3>6 DEF FramesGenuine
  <2>2. CASE Enqueue(s)
    <3>1. /\ outgoing' = Append(outgoing, s) /\ UNCHANGED <<callId, wire, printed>>
          /\ (s \in Calls => callId[s] # 0)
      BY <1>0, <2>2 DEF Enqueue, childVars, IdsUnique
    <3>2. QED
      BY <1>0, <3>1 DEF FramesGenuine, PipeTypes
  <2>3. CASE UNCHANGED <<outgoing, wire, printed, callId>>
    BY <1>0, <2>3 DEF FramesGenuine
  <2>4. QED
    BY <1>1, <2>1, <2>2, <2>3 DEF SenderStep, Receive, BeginPost, CheckLink, EnqueueClosed,
       GiveUp, sharedVars, childVars
<1>2. ASSUME NEW c \in Calls, NEW kind \in {"result", "error"}, ChildAnswers(c, kind)
      PROVE  FramesGenuine'
  <2> DEFINE f == [kind |-> kind, id |-> callId[c], of |-> c, at |-> Len(printed) + 1]
  <2>1. callId[c] # 0
    BY <1>0, <1>2 DEF ChildAnswers, FramesGenuine
  <2>2. printed' = Append(printed, f) /\ UNCHANGED <<callId, outgoing, wire>>
    BY <1>2 DEF ChildAnswers, ChildPrints, callVars
  <2>3. QED
    BY <1>0, <2>1, <2>2 DEF FramesGenuine, PipeTypes
<1>3. ASSUME NEW kind \in {"activity", "malformed"}, ChildActs(kind)
      PROVE  FramesGenuine'
  <2> DEFINE f == [kind |-> kind, id |-> 0, of |-> Initialize, at |-> Len(printed) + 1]
  <2>1. printed' = Append(printed, f) /\ UNCHANGED <<callId, outgoing, wire>>
    BY <1>3 DEF ChildActs, ChildPrints, callVars
  <2>2. QED
    BY <1>0, <2>1 DEF FramesGenuine, PipeTypes
<1>4. CASE WriteFrame
  <2>1. /\ outgoing # <<>> /\ wire' = Append(wire, Head(outgoing)) /\ outgoing' = Tail(outgoing)
        /\ UNCHANGED <<callId, printed>>
    BY <1>4 DEF WriteFrame, callVars, childVars
  <2>2. QED
    BY <1>0, <2>1 DEF FramesGenuine, PipeTypes
<1>5. CASE WriterFails \/ WriterStops
  BY <1>0, <1>5 DEF WriterFails, WriterStops, StopWriter, callVars, childVars, FramesGenuine
<1>6. CASE UNCHANGED <<outgoing, wire, printed, callId>>
  BY <1>0, <1>6 DEF FramesGenuine
<1>7. QED
  BY <1>1, <1>2, <1>3, <1>4, <1>5, <1>6
     DEF Next, vars, callVars, childVars, HandshakeAnswered, HandshakeNotified, HandshakeStep,
         Shutdown, ChildStep, StdoutCloses, ChildExits, DispatchActivity, DispatchResponse,
         DispatchMalformed, ReadFrame, ReaderAtEof, ReaderStops, StopReader,
         SupervisorWakes, SupervisorDrained, SupervisorOnly, SupervisorFails,
         SupervisorAnnounces, SupervisorReaps, ConsumerTakes, ConsumerDrops

\* The frame the reader is about to take.
LEMMA NextFrameFacts ==
  ASSUME PipeTypes, FramesGenuine, taken < Len(printed)
  PROVE  /\ NextFrame \in Frames /\ NextFrame.at = taken + 1
         /\ NextFrame.of \in Calls /\ NextFrame.id \in Nat
         /\ NextFrame.kind \in {"result", "error"} =>
              callId[NextFrame.of] = NextFrame.id /\ NextFrame.id # 0
<1>1. printed \in Seq(Frames) /\ taken \in Nat
  BY DEF PipeTypes
<1>2. taken + 1 \in DOMAIN printed
  BY <1>1
<1>3. QED
  BY <1>2, FrameFields DEF NextFrame, FramesGenuine

LEMMA StampsExactStep == IInv /\ [Next]_vars => StampsExact'
<1> SUFFICES ASSUME IInv, Next \/ UNCHANGED vars PROVE StampsExact'
  OBVIOUS
<1>0. /\ TypeOK /\ CallTypes /\ PipeTypes /\ EventTypes /\ FramesGenuine /\ StampsExact
  BY DEF IInv, TypeOK
<1>1. CASE DispatchActivity
  <2>1. /\ taken < Len(printed) /\ taken' = taken + 1 /\ sequence' = sequence + 1
        /\ UNCHANGED <<reply, observed>>
    BY <1>1 DEF DispatchActivity, ReadFrame, NextSequence
  <2>2. NextFrame.at = taken + 1
    BY <1>0, <2>1, NextFrameFacts
  <2> DEFINE e == [kind |-> "activity", position |-> sequence + 1, at |-> NextFrame.at]
  <2>3. events' = events \/ events' = Append(events, e)
    BY <1>1 DEF DispatchActivity, NextSequence
  <2>4. e.position = e.at
    BY <1>0, <2>2 DEF StampsExact
  <2>5. \A i \in DOMAIN events' : events'[i] # Terminal => events'[i].position = events'[i].at
    <3> HIDE DEF e
    <3>1. events \in Seq(Event)
      BY <1>0 DEF EventTypes
    <3>2. QED
      BY <1>0, <2>3, <2>4, <3>1 DEF StampsExact
  <2>6. QED
    BY <1>0, <2>1, <2>5 DEF StampsExact
<1>2. CASE DispatchResponse
  <2>1. /\ taken < Len(printed) /\ taken' = taken + 1 /\ sequence' = sequence + 1
        /\ UNCHANGED <<events, observed>>
    BY <1>2 DEF DispatchResponse, ReadFrame, NextSequence
  <2>2. NextFrame.at = taken + 1
    BY <1>0, <2>1, NextFrameFacts
  <2> DEFINE r == [kind |-> NextFrame.kind, of |-> NextFrame.of,
                   position |-> sequence + 1, at |-> NextFrame.at]
  <2>3. \A c \in Calls : reply'[c] = reply[c] \/ reply'[c] = r
    BY <1>2 DEF DispatchResponse, NextSequence
  <2>4. r.position = r.at
    BY <1>0, <2>2 DEF StampsExact
  <2>5. \A c \in Calls : reply'[c].kind \in {"result", "error"}
                          => reply'[c].position = reply'[c].at
    <3> HIDE DEF r
    <3>1. QED
      BY <1>0, <2>3, <2>4 DEF StampsExact
  <2>6. QED
    BY <1>0, <2>1, <2>5 DEF StampsExact
<1>3. CASE DispatchMalformed
  BY <1>0, <1>3 DEF DispatchMalformed, ReadFrame, NextSequence, StampsExact
<1>4. CASE SupervisorFails
  <2>1. /\ UNCHANGED <<sequence, taken, events, observed>>
        /\ \A c \in Calls : reply'[c] = reply[c] \/ reply'[c] = LinkDown
    BY <1>4 DEF SupervisorFails, Drained, childVars, eventVars
  <2>2. QED
    BY <1>0, <2>1 DEF StampsExact, LinkDown
<1>5. CASE SupervisorAnnounces
  <2>1. /\ UNCHANGED <<sequence, taken, reply, observed>>
        /\ events' = events \/ events' = Append(events, Terminal)
    BY <1>5 DEF SupervisorAnnounces, Announced, childVars, callVars
  <2>2. events \in Seq(Event)
    BY <1>0 DEF EventTypes
  <2>3. \A i \in DOMAIN events' : events'[i] # Terminal => events'[i].position = events'[i].at
    BY <1>0, <2>1, <2>2 DEF StampsExact
  <2>4. QED
    BY <1>0, <2>1, <2>3 DEF StampsExact
<1>6. CASE ConsumerTakes
  <2>1. /\ UNCHANGED <<sequence, taken, reply>> /\ events # <<>>
        /\ observed' = Append(observed, Head(events)) /\ events' = Tail(events)
    BY <1>6 DEF ConsumerTakes, childVars, callVars
  <2>2. events \in Seq(Event) /\ observed \in Seq(Event)
    BY <1>0 DEF EventTypes
  <2>3. \A i \in DOMAIN events' : events'[i] # Terminal => events'[i].position = events'[i].at
    BY <1>0, <2>1, <2>2 DEF StampsExact
  <2>4. Head(events) = events[1] /\ 1 \in DOMAIN events
    BY <2>1, <2>2
  <2>5. \A i \in DOMAIN observed' :
           observed'[i] # Terminal => observed'[i].position = observed'[i].at
    BY <1>0, <2>1, <2>2, <2>4 DEF StampsExact
  <2>6. QED
    BY <1>0, <2>1, <2>3, <2>5 DEF StampsExact
<1>7. CASE ConsumerDrops
  BY <1>0, <1>7 DEF ConsumerDrops, childVars, callVars, StampsExact
<1>8. CASE UNCHANGED <<sequence, taken, events, observed, reply>>
  BY <1>0, <1>8 DEF StampsExact
<1>9. ASSUME NEW s \in Senders, SenderStep(s)
      PROVE  StampsExact'
  BY <1>0, <1>8, <1>9, SenderFacts
<1>10. QED
  BY <1>1, <1>2, <1>3, <1>4, <1>5, <1>6, <1>7, <1>8, <1>9
     DEF Next, vars, callVars, childVars, eventVars, HandshakeAnswered, HandshakeNotified,
         HandshakeStep, Shutdown, ChildStep, ChildAnswers, ChildActs, ChildPrints,
         StdoutCloses, ChildExits, WriteFrame, WriterFails, WriterStops, StopWriter,
         ReaderAtEof, ReaderStops, StopReader, SupervisorWakes, SupervisorDrained,
         SupervisorOnly, SupervisorReaps

LEMMA AnswersCorrelatedStep == IInv /\ [Next]_vars => AnswersCorrelated'
<1> SUFFICES ASSUME IInv, Next \/ UNCHANGED vars PROVE AnswersCorrelated'
  OBVIOUS
<1>0. /\ TypeOK /\ CallTypes /\ PipeTypes /\ TableTypes /\ IdsUnique /\ FramesGenuine
      /\ AnswersCorrelated
  BY DEF IInv, TypeOK
<1>1. CASE DispatchResponse
  <2> SUFFICES ASSUME NEW c \in Calls, reply'[c].kind \in {"result", "error"}
               PROVE  reply'[c].of = c
    BY DEF AnswersCorrelated
  <2>1. taken < Len(printed) /\ NextFrame.kind \in {"result", "error"}
    BY <1>1 DEF DispatchResponse, ReadFrame
  <2>2. NextFrame.of \in Calls /\ callId[NextFrame.of] = NextFrame.id /\ NextFrame.id # 0
    BY <1>0, <2>1, NextFrameFacts
  <2>3. CASE c \in pending /\ callId[c] = NextFrame.id
    <3>1. c = NextFrame.of
      BY <1>0, <2>2, <2>3 DEF IdsUnique
    <3>2. reply'[c].of = NextFrame.of
      BY <1>1, <2>3 DEF DispatchResponse
    <3>3. QED
      BY <3>1, <3>2
  <2>4. CASE ~(c \in pending /\ callId[c] = NextFrame.id)
    <3>1. reply'[c] = reply[c]
      BY <1>1, <2>4 DEF DispatchResponse
    <3>2. QED
      BY <1>0, <3>1 DEF AnswersCorrelated
  <2>5. QED
    BY <2>3, <2>4
<1>2. CASE SupervisorFails
  <2>1. \A c \in Calls : reply'[c] = reply[c] \/ reply'[c] = LinkDown
    BY <1>2 DEF SupervisorFails, Drained
  <2>2. QED
    BY <1>0, <2>1 DEF AnswersCorrelated, LinkDown
<1>3. CASE reply' = reply
  BY <1>0, <1>3 DEF AnswersCorrelated
<1>4. ASSUME NEW s \in Senders, SenderStep(s)
      PROVE  AnswersCorrelated'
  BY <1>0, <1>3, <1>4, SenderFacts
<1>5. QED
  BY <1>1, <1>2, <1>3, <1>4
     DEF Next, vars, callVars, HandshakeAnswered, HandshakeNotified, HandshakeStep, Shutdown,
         ChildStep, ChildAnswers, ChildActs, ChildPrints, StdoutCloses, ChildExits,
         WriteFrame, WriterFails, WriterStops, StopWriter, DispatchActivity,
         DispatchMalformed, ReaderAtEof, ReaderStops, StopReader, SupervisorWakes,
         SupervisorDrained, SupervisorOnly, SupervisorAnnounces, SupervisorReaps,
         ConsumerTakes, ConsumerDrops

\* What a step of a sender does to the table.
LEMMA SenderTable ==
  ASSUME TypeOK, NEW s \in Senders, SenderStep(s)
  PROVE  \/ /\ s \in Calls /\ phase[s] = "idle" /\ phase'[s] \in Active
            /\ ~disconnected /\ pending' = pending \union {s}
         \/ pending' = pending \ {s} /\ phase'[s] = "done"
         \/ /\ s \in Calls => phase[s] \in Active
            /\ pending' = pending /\ phase'[s] \in Active
<1> USE DEF TypeOK, CallTypes, Settle, Active, sharedVars
<1>1. CASE s \in Calls /\ BeginCall(s)
  BY <1>1 DEF BeginCall, Admitted
<1>2. CASE s \in Calls /\ Receive(s)
  BY <1>2 DEF Receive
<1>3. CASE s \in Posts /\ BeginPost(s)
  BY <1>3, TransportAssumption DEF BeginPost
<1>4. CASE CheckLink(s)
  BY <1>4 DEF CheckLink
<1>5. CASE Enqueue(s)
  BY <1>5 DEF Enqueue
<1>6. CASE EnqueueClosed(s)
  BY <1>6 DEF EnqueueClosed
<1>7. CASE GiveUp(s)
  BY <1>7 DEF GiveUp
<1> HIDE DEF TypeOK, CallTypes, Settle, Active, sharedVars
<1>8. QED
  BY <1>1, <1>2, <1>3, <1>4, <1>5, <1>6, <1>7 DEF SenderStep

LEMMA TableGuardedStep == IInv /\ [Next]_vars => TableGuarded'
<1> SUFFICES ASSUME IInv, Next \/ UNCHANGED vars PROVE TableGuarded'
  OBVIOUS
<1>0. /\ TypeOK /\ CallTypes /\ PipeTypes /\ TableTypes /\ TableGuarded /\ NoStrandedCall
      /\ FramesGenuine
  BY DEF IInv, TypeOK, TableGuarded
<1>1. ASSUME NEW s \in Senders, SenderStep(s)
      PROVE  TableGuarded'
  <2>0. /\ UNCHANGED <<reply, disconnected, supervisor>> /\ phase'[s] # "idle"
        /\ \A t \in Senders : t # s => phase'[t] = phase[t]
    BY <1>0, <1>1, SenderFacts
  <2>1. CASE /\ s \in Calls /\ phase[s] = "idle" /\ phase'[s] \in Active
             /\ ~disconnected /\ pending' = pending \union {s}
    BY <1>0, <2>0, <2>1 DEF TableGuarded, NoStrandedCall, Unanswered
  <2>2. CASE pending' = pending \ {s} /\ phase'[s] = "done"
    BY <1>0, <2>0, <2>2 DEF TableGuarded, NoStrandedCall, Unanswered
  <2>3. CASE /\ s \in Calls => phase[s] \in Active
             /\ pending' = pending /\ phase'[s] \in Active
    BY <1>0, <2>0, <2>3 DEF TableGuarded, NoStrandedCall, Unanswered
  <2>4. QED
    BY <1>0, <1>1, <2>1, <2>2, <2>3, SenderTable
<1>2. CASE DispatchResponse
  <2> DEFINE slot == {c \in pending : callId[c] = NextFrame.id}
             r == [kind |-> NextFrame.kind, of |-> NextFrame.of,
                   position |-> NextSequence, at |-> NextFrame.at]
  <2>1. /\ taken < Len(printed) /\ NextFrame.kind \in {"result", "error"}
        /\ UNCHANGED <<phase, disconnected, supervisor>>
        /\ pending' = pending \ slot
        /\ \A c \in Calls : reply'[c] = IF c \in slot THEN r ELSE reply[c]
    BY <1>2 DEF DispatchResponse, ReadFrame, TableWithout
  <2>3. r.kind # "none"
    BY <2>1
  <2>4. slot \subseteq pending /\ pending \subseteq Calls
    BY <1>0 DEF TableTypes
  <2>5. QED
    <3> HIDE DEF slot, r
    <3>1. QED
      BY <1>0, <2>1, <2>3, <2>4 DEF TableGuarded, NoStrandedCall, Unanswered
<1>3. CASE SupervisorFails
  <2>1. /\ supervisor' = "announcing" /\ disconnected' /\ pending' = {} /\ phase' = phase
        /\ \A c \in Calls : reply'[c] = IF c \in pending THEN LinkDown ELSE reply[c]
    BY <1>3 DEF SupervisorFails, Drained
  <2>2. QED
    BY <1>0, <2>1 DEF TableGuarded, NoStrandedCall, Unanswered, LinkDown
<1>4. CASE /\ UNCHANGED <<phase, reply, pending, disconnected>>
           /\ (supervisor' \in {"announcing", "reaping", "finished"}
                <=> supervisor \in {"announcing", "reaping", "finished"})
  BY <1>0, <1>4 DEF TableGuarded, NoStrandedCall, Unanswered
<1>5. CASE SupervisorWakes \/ SupervisorDrained \/ SupervisorAnnounces \/ SupervisorReaps
  BY <1>4, <1>5
     DEF SupervisorWakes, SupervisorDrained, SupervisorOnly, SupervisorAnnounces,
         SupervisorReaps, callVars
<1>6. CASE UNCHANGED <<phase, reply, pending, disconnected, supervisor>>
  BY <1>4, <1>6
<1>7. QED
  BY <1>1, <1>2, <1>3, <1>5, <1>6
     DEF Next, vars, callVars, taskVars, HandshakeAnswered, HandshakeNotified, HandshakeStep,
         Shutdown, ChildStep, ChildAnswers, ChildActs, ChildPrints, StdoutCloses, ChildExits,
         WriteFrame, WriterFails, WriterStops, StopWriter, DispatchActivity,
         DispatchMalformed, ReadFrame, ReaderAtEof, ReaderStops, StopReader, ConsumerTakes,
         ConsumerDrops

\* The inductive invariant holds throughout.
THEOREM InvariantHolds == Spec => []IInv
<1>1. TypeOK /\ [Next]_vars => TypeOK'
  BY TypeOfSenders, TypeOfLink, TypeOfDispatch, TypeOfSupervisor, TypeStuttering DEF Next
<1>2. IInv /\ [Next]_vars => IInv'
  BY <1>1, IdsUniqueStep, FramesGenuineStep, StampsExactStep, TableGuardedStep,
     AnswersCorrelatedStep DEF IInv
<1>3. QED
  BY <1>2, InvInitial, PTL DEF Spec

\* Whatever the order in which answers, timeouts, cancellations and the loss of the
\* child interleave, a running call is in the table or has its reply, never
\* neither and never both, and the table is empty once the link is down.
THEOREM NeverStranded == Spec => []NoStrandedCall
<1>1. IInv => NoStrandedCall
  BY DEF IInv, TableGuarded
<1>2. QED
  BY <1>1, InvariantHolds, PTL

\* An answer that reaches a call answers that very call.
THEOREM Correlated == Spec => []AnswersCorrelated
<1>1. IInv => AnswersCorrelated
  BY DEF IInv
<1>2. QED
  BY <1>1, InvariantHolds, PTL

\* Positions order events and answers as the child printed them.
THEOREM PositionsOrdered == Spec => []PositionsFollowOutput
<1>1. ASSUME IInv PROVE PositionsFollowOutput
  <2>1. StampsExact
    BY <1>1 DEF IInv
  <2>2. QED
    BY <2>1 DEF StampsExact, PositionsFollowOutput
<1>2. QED
  BY <1>1, InvariantHolds, PTL

----
(* Nothing is lost between the child's output and the consumer. *)

\* Places of a sequence one longer, or of two sequences one behind the other.
LEMMA AppendPlaces ==
  ASSUME NEW S, NEW s \in Seq(S), NEW e \in S
  PROVE  /\ Append(s, e) \in Seq(S)
         /\ DOMAIN Append(s, e) = DOMAIN s \union {Len(s) + 1}
         /\ Len(s) + 1 \notin DOMAIN s /\ \A i \in DOMAIN s : i < Len(s) + 1
         /\ \A i \in DOMAIN s : Append(s, e)[i] = s[i]
         /\ Append(s, e)[Len(s) + 1] = e
  OBVIOUS

\* Moving the head of the queue to the end of what was seen before it changes
\* nothing; an event put at the end of the queue comes behind everything.
LEMMA ShiftHead ==
  ASSUME NEW S, NEW s \in Seq(S), NEW t \in Seq(S), t # <<>>
  PROVE  Append(s, Head(t)) \o Tail(t) = s \o t
  OBVIOUS

LEMMA AppendLast ==
  ASSUME NEW S, NEW s \in Seq(S), NEW t \in Seq(S), NEW e \in S
  PROVE  s \o Append(t, e) = Append(s \o t, e)
  OBVIOUS

LEMMA DropBack ==
  ASSUME NEW S, NEW s \in Seq(S), NEW t \in Seq(S)
  PROVE  /\ DOMAIN (s \o <<>>) \subseteq DOMAIN (s \o t)
         /\ \A i \in DOMAIN (s \o <<>>) : (s \o <<>>)[i] = (s \o t)[i]
  OBVIOUS

\* The frame taken counts as dispatched unless it is activity that overflows the queue.
LEMMA ActedStep ==
  ASSUME IInv, ReadFrame, reader' = reader \/ NextFrame.kind # "activity"
  PROVE  /\ reader # "overflowed" /\ taken \in Nat /\ NextFrame.at = taken + 1
         /\ reader' # "overflowed" =>
              Acted' = IF NextFrame.kind = "activity" THEN Acted \union {taken + 1} ELSE Acted
         /\ \A i \in Acted : i < taken + 1
<1>1. PipeTypes /\ FramesGenuine
  BY DEF IInv, TypeOK
<1>2. /\ reader \in {"running", "aborting"} /\ taken' = taken + 1 /\ printed' = printed
      /\ taken < Len(printed) /\ taken \in Nat
  BY <1>1 DEF ReadFrame, PipeTypes
<1>3. NextFrame.at = taken + 1
  BY <1>1, <1>2, NextFrameFacts
<1>4. 1 .. taken + 1 = (1 .. taken) \union {taken + 1} /\ \A i \in 1 .. taken : i < taken + 1
  BY <1>2
<1>5. Acted = {i \in 1 .. taken : printed[i].kind = "activity"}
  BY <1>2 DEF Acted
<1>6. reader' # "overflowed" => Acted' = {i \in 1 .. taken + 1 : printed[i].kind = "activity"}
  BY <1>2 DEF Acted
<1>7. QED
  BY <1>2, <1>3, <1>4, <1>5, <1>6 DEF NextFrame

\* What the child prints comes behind what the reader has taken.
LEMMA ActedPrints ==
  ASSUME IInv, NEW f \in Frames, ChildPrints(f)
  PROVE  Acted' = Acted
<1>1. /\ printed \in Seq(Frames) /\ taken \in 0 .. Len(printed)
      /\ printed' = Append(printed, f) /\ taken' = taken /\ reader' = reader
  BY DEF IInv, TypeOK, PipeTypes, ChildPrints, taskVars
<1>2. \A i \in 1 .. taken : printed'[i] = printed[i]
  BY <1>1
<1>3. CASE reader = "overflowed"
  <2>1. \A i \in 1 .. taken - 1 : i \in 1 .. taken
    BY <1>1
  <2>2. QED
    BY <1>1, <1>2, <1>3, <2>1 DEF Acted
<1>4. CASE reader # "overflowed"
  BY <1>1, <1>2, <1>4 DEF Acted
<1>5. QED
  BY <1>3, <1>4

\* A step that leaves the reader's progress and the channel alone loses nothing.
LEMMA NothingPasses ==
  ASSUME NoSilentLoss, Acted' = Acted, Passed' = Passed, dispatched' = dispatched,
         receiver' => receiver
  PROVE  NoSilentLoss'
  BY DEF NoSilentLoss

LEMMA NoSilentLossStep == IInv /\ NoSilentLoss /\ [Next]_vars => NoSilentLoss'
<1> SUFFICES ASSUME IInv, NoSilentLoss, Next \/ UNCHANGED vars PROVE NoSilentLoss'
  OBVIOUS
<1>0. /\ PipeTypes /\ events \in Seq(Event) /\ observed \in Seq(Event)
      /\ dispatched \in Seq(Nat) /\ Passed \in Seq(Event)
  BY DEF IInv, TypeOK, EventTypes, Passed
<1>1. CASE DispatchActivity
  <2>1. ReadFrame /\ NextFrame.kind = "activity" /\ UNCHANGED <<receiver, observed>>
    BY <1>1 DEF DispatchActivity, ReadFrame
  <2>2. CASE reader' = ReaderOnFull /\ UNCHANGED <<events, dispatched>>
    <3>1. Acted' = Acted
      BY <1>0, <2>1, <2>2 DEF ReadFrame, ReaderOnFull, Acted, PipeTypes
    <3>2. QED
      BY <2>1, <2>2, <3>1, NothingPasses DEF Passed
  <2>3. CASE ~(reader' = ReaderOnFull /\ UNCHANGED <<events, dispatched>>)
    <3> DEFINE e == [kind |-> "activity", position |-> NextSequence, at |-> taken + 1]
    <3>1. /\ reader' = reader /\ taken \in Nat /\ NextFrame.at = taken + 1
          /\ reader # "overflowed" /\ Acted' = Acted \union {taken + 1}
          /\ \A i \in Acted : i < taken + 1
      BY <1>1, <2>1, <2>3, ActedStep DEF DispatchActivity
    <3>2. receiver /\ events' = Append(events, e) /\ dispatched' = Append(dispatched, taken + 1)
      BY <1>1, <2>3, <3>1 DEF DispatchActivity
    <3>3. e \in Event /\ e.kind = "activity" /\ e.at = taken + 1
      BY <1>0, <3>1 DEF Event, NextSequence, PipeTypes
    <3> HIDE DEF e
    <3>4. Passed' = Append(Passed, e)
      BY <1>0, <2>1, <3>2, <3>3, AppendLast DEF Passed
    <3>5. PICK n \in Nat : n = Len(Passed) + 1
      BY <1>0
    <3>6. /\ DOMAIN Passed' = DOMAIN Passed \union {n} /\ Passed'[n] = e
          /\ n \notin DOMAIN Passed
          /\ \A i \in DOMAIN Passed : i < n /\ Passed'[i] = Passed[i] /\ i \in Nat
      BY <1>0, <3>3, <3>4, <3>5, AppendPlaces
    <3>7. PICK m \in Nat : m = Len(dispatched) + 1
      BY <1>0
    <3>8. /\ DOMAIN dispatched' = DOMAIN dispatched \union {m} /\ dispatched'[m] = taken + 1
          /\ m \notin DOMAIN dispatched
          /\ \A i \in DOMAIN dispatched :
               i < m /\ dispatched'[i] = dispatched[i] /\ i \in Nat
      BY <1>0, <3>1, <3>2, <3>7, AppendPlaces
    <3> DEFINE shown == {i \in DOMAIN Passed : Passed[i].kind = "activity"}
    <3>9. /\ {Passed[i].at : i \in shown} = Acted
          /\ \A i, j \in shown : i < j => Passed[i].at < Passed[j].at
          /\ {dispatched[i] : i \in DOMAIN dispatched} = Acted
          /\ \A i, j \in DOMAIN dispatched : i < j => dispatched[i] < dispatched[j]
      BY <3>2 DEF NoSilentLoss
    <3>10. \A i \in DOMAIN Passed' : Passed'[i].kind = "activity" <=> i \in shown \union {n}
      BY <3>3, <3>6
    <3>11. \A i \in shown : Passed'[i] = Passed[i] /\ i < n /\ ~(n < i) /\ i # n
      BY <3>6
    <3>12. shown \union {n} = {i \in DOMAIN Passed' : Passed'[i].kind = "activity"}
      BY <3>6, <3>10
    <3>13. {Passed'[i].at : i \in shown \union {n}} = Acted'
      BY <3>1, <3>3, <3>6, <3>9, <3>11
    <3>14. \A i, j \in shown \union {n} : i < j => Passed'[i].at < Passed'[j].at
      <4>1. \A i \in shown : Passed[i].at < taken + 1
        BY <3>1, <3>9
      <4> HIDE DEF shown
      <4>2. QED
        BY <4>1, <3>3, <3>6, <3>9, <3>11
    <3>15. {dispatched'[i] : i \in DOMAIN dispatched'} = Acted'
      BY <3>1, <3>8, <3>9
    <3>16. \A i, j \in DOMAIN dispatched' : i < j => dispatched'[i] < dispatched'[j]
      BY <3>1, <3>8, <3>9
    <3>17. QED
      BY <3>12, <3>13, <3>14, <3>15, <3>16 DEF NoSilentLoss
  <2>4. QED
    BY <2>2, <2>3
<1>2. CASE DispatchResponse \/ DispatchMalformed
  <2>1. /\ ReadFrame /\ NextFrame.kind # "activity" /\ reader' \in {reader, "ended"}
        /\ UNCHANGED <<events, dispatched, receiver, observed>>
    BY <1>2 DEF DispatchResponse, DispatchMalformed, ReadFrame
  <2>2. Acted' = Acted
    BY <2>1, ActedStep
  <2>3. QED
    BY <2>1, <2>2, NothingPasses DEF Passed
<1>3. CASE SupervisorAnnounces
  <2>1. /\ UNCHANGED <<receiver, observed, dispatched, printed, taken>>
        /\ events' = IF receiver THEN Append(events, Terminal) ELSE events
        /\ reader' = "overflowed" <=> reader = "overflowed"
    BY <1>3 DEF SupervisorAnnounces, Announced, childVars
  <2>2. Acted' = Acted
    BY <2>1 DEF Acted
  <2>3. CASE receiver
    <3>1. Terminal \in Event /\ Terminal.kind # "activity"
      BY DEF Terminal, Event
    <3>2. Passed' = Append(Passed, Terminal)
      BY <1>0, <2>1, <2>3, <3>1, AppendLast DEF Passed
    <3>3. PICK n \in Nat : n = Len(Passed) + 1
      BY <1>0
    <3>4. /\ DOMAIN Passed' = DOMAIN Passed \union {n} /\ Passed'[n] = Terminal
          /\ n \notin DOMAIN Passed /\ \A i \in DOMAIN Passed : Passed'[i] = Passed[i]
      BY <1>0, <3>1, <3>2, <3>3, AppendPlaces
    <3>5. QED
      BY <2>1, <2>2, <3>1, <3>4 DEF NoSilentLoss
  <2>4. CASE ~receiver
    BY <2>1, <2>2, <2>4, NothingPasses DEF Passed
  <2>5. QED
    BY <2>3, <2>4
<1>4. CASE ConsumerTakes
  <2>1. /\ events # <<>> /\ observed' = Append(observed, Head(events))
        /\ events' = Tail(events) /\ UNCHANGED <<receiver, dispatched, printed, taken, reader>>
    BY <1>4 DEF ConsumerTakes, childVars, taskVars
  <2>2. Passed' = Passed
    BY <1>0, <2>1, ShiftHead DEF Passed
  <2>3. QED
    BY <2>1, <2>2, NothingPasses DEF Acted
<1>5. CASE ConsumerDrops
  <2>1. /\ ~receiver' /\ events' = <<>>
        /\ UNCHANGED <<observed, dispatched, printed, taken, reader>>
    BY <1>5 DEF ConsumerDrops, childVars, taskVars
  <2>2. /\ DOMAIN Passed' \subseteq DOMAIN Passed
        /\ \A i \in DOMAIN Passed' : Passed'[i] = Passed[i]
    BY <1>0, <2>1, DropBack DEF Passed
  <2>3. Acted' = Acted
    BY <2>1 DEF Acted
  <2>4. QED
    BY <2>1, <2>2, <2>3 DEF NoSilentLoss
<1>6. CASE \E f \in Frames : ChildPrints(f)
  <2>1. UNCHANGED eventVars
    BY <1>6 DEF ChildPrints
  <2>2. QED
    BY <1>6, <2>1, ActedPrints, NothingPasses DEF eventVars, Passed
<1>7. CASE /\ UNCHANGED <<printed, taken, eventVars>>
           /\ reader' = reader \/ (reader # "overflowed" /\ reader' # "overflowed")
  BY <1>7, NothingPasses DEF eventVars, Passed, Acted
<1>8. ASSUME NEW s \in Senders, SenderStep(s) PROVE UNCHANGED <<printed, taken, eventVars, reader>>
  BY <1>8 DEF SenderStep, BeginCall, Receive, BeginPost, CheckLink, Enqueue, EnqueueClosed,
     GiveUp, sharedVars, childVars, taskVars
<1>9. CASE ChildStep
  <2>1. ASSUME NEW c \in Calls, NEW kind \in {"result", "error"}, ChildAnswers(c, kind)
        PROVE  \E f \in Frames : ChildPrints(f)
    <3>1. callId[c] \in Nat /\ Len(printed) + 1 \in Nat
      BY <1>0 DEF IInv, TypeOK, CallTypes, PipeTypes
    <3>2. QED
      BY <2>1, <3>1 DEF ChildAnswers, Frames
  <2>2. ASSUME NEW kind \in {"activity", "malformed"}, ChildActs(kind)
        PROVE  \E f \in Frames : ChildPrints(f)
    <3>1. Len(printed) + 1 \in Nat
      BY <1>0 DEF PipeTypes
    <3>2. QED
      BY <2>2, <3>1 DEF ChildActs, Frames
  <2>3. CASE StdoutCloses \/ ChildExits
    BY <1>7, <2>3 DEF StdoutCloses, ChildExits, taskVars
  <2>4. QED
    BY <1>6, <1>9, <2>1, <2>2, <2>3 DEF ChildStep
<1>10. QED
  BY <1>1, <1>2, <1>3, <1>4, <1>5, <1>7, <1>8, <1>9
     DEF Next, vars, childVars, taskVars, HandshakeAnswered, HandshakeNotified, HandshakeStep,
         Shutdown, WriteFrame, WriterFails, WriterStops, StopWriter, ReaderAtEof,
         ReaderStops, StopReader, SupervisorWakes, SupervisorDrained, SupervisorOnly,
         SupervisorFails, SupervisorReaps

\* Everything the child printed as activity, up to the place the reader has reached, is
\* with the consumer or on its way to it, once and in order, for queues of any
\* capacity and a consumer of any speed.
THEOREM NothingLost == Spec => []NoSilentLoss
<1>1. Init => NoSilentLoss
  BY DEF Init, NoSilentLoss, Passed, Acted
<1>2. QED
  BY <1>1, NoSilentLossStep, InvariantHolds, PTL DEF Spec

----
(* The refinement: the table of pending replies implements RpcPromise. *)

\* RpcPromise counts as Transport does.
LEMMA SameCount == \A S : Promise!Cardinality(S) = Cardinality(S)
  BY DEF Promise!Cardinality, Cardinality

\* The promise's verdicts change where the table's do.
LEMMA VerdictMap ==
  ASSUME \A c \in Calls : Verdict(c)' = Verdict(c)
  PROVE  [c \in Calls |-> Verdict(c)]' = [c \in Calls |-> Verdict(c)]
  OBVIOUS

\* Settling a call is closing it when it is in the table, and nothing otherwise.
LEMMA SettleRefines ==
  ASSUME IInv, NEW s \in Senders, s \in Calls => phase[s] \in Active, NEW o, Settle(s, o),
         UNCHANGED <<reply, disconnected>>
  PROVE  Promise!Next \/ UNCHANGED Promise!vars
<1>0. /\ TypeOK /\ CallTypes /\ TableTypes /\ NoStrandedCall
  BY DEF IInv, TypeOK, TableGuarded
<1>1. /\ phase' = [phase EXCEPT ![s] = "done"] /\ pending' = pending \ {s}
  BY DEF Settle
<1>2. CASE s \in pending
  <2>1. s \in Calls /\ ~disconnected /\ Unanswered(s)
    BY <1>0, <1>2 DEF NoStrandedCall, TableTypes
  <2>2. \A c \in Calls : Verdict(c)' = IF c = s THEN "failed" ELSE Verdict(c)
    BY <1>0, <1>1, <2>1 DEF Verdict, Unanswered, CallTypes
  <2>3. Promise!Close(s, "failed")
    BY <1>1, <1>2, <2>1, <2>2 DEF Promise!Close
  <2>4. QED
    BY <2>1, <2>3 DEF Promise!Next
<1>3. CASE s \notin pending
  <2>1. \A c \in Calls : Verdict(c)' = Verdict(c)
    BY <1>0, <1>1, <1>3 DEF Verdict, Unanswered, CallTypes, NoStrandedCall, Replies
  <2>2. pending' = pending
    BY <1>1, <1>3
  <2>3. QED
    BY <2>1, <2>2 DEF Promise!vars
<1>4. QED
  BY <1>2, <1>3

LEMMA BeginRefines ==
  ASSUME IInv, NEW c \in Calls, BeginCall(c)
  PROVE  Promise!Next
<1>0. /\ TypeOK /\ CallTypes /\ TableTypes /\ NoStrandedCall /\ TableGuarded
  BY DEF IInv, TypeOK, TableGuarded
<1>1. phase[c] = "idle" /\ UNCHANGED <<reply, disconnected>>
  BY DEF BeginCall
<1>2. Unanswered(c) /\ c \notin pending /\ Verdict(c) = "none"
  BY <1>0, <1>1 DEF TableGuarded, NoStrandedCall, Active, Verdict, Unanswered
<1>3. CASE /\ Admitted /\ pending' = pending \union {c}
           /\ phase' = [phase EXCEPT ![c] = "checking"]
  <2>1. \A d \in Calls : Verdict(d)' = Verdict(d)
    BY <1>0, <1>1, <1>2, <1>3 DEF Verdict, Unanswered, CallTypes
  <2>2. Promise!Open(c)
    BY <1>1, <1>2, <1>3, <2>1, SameCount DEF Promise!Open, Admitted
  <2>3. QED
    BY <2>2 DEF Promise!Next
<1>4. CASE ~Admitted /\ \E o : Settle(c, o)
  <2>1. phase' = [phase EXCEPT ![c] = "done"] /\ pending' = pending
    BY <1>2, <1>4 DEF Settle
  <2>2. \A d \in Calls : Verdict(d)' = IF d = c THEN "failed" ELSE Verdict(d)
    BY <1>0, <1>1, <1>2, <2>1 DEF Verdict, Unanswered, CallTypes
  <2>3. disconnected \/ Cardinality(pending) >= MaxInFlight
    <3>1. Cardinality(pending) \in Nat
      BY <1>0, FS_CardinalityType DEF TableTypes
    <3>2. QED
      BY <1>4, <3>1 DEF Admitted
  <2>4. Promise!Refuse(c)
    BY <1>1, <1>2, <2>1, <2>2, <2>3, SameCount DEF Promise!Refuse
  <2>5. QED
    BY <2>4 DEF Promise!Next
<1>5. QED
  BY <1>3, <1>4 DEF BeginCall

LEMMA SenderRefines ==
  ASSUME IInv, NEW s \in Senders, SenderStep(s)
  PROVE  Promise!Next \/ UNCHANGED Promise!vars
<1>0. /\ TypeOK /\ CallTypes /\ TableTypes
  BY DEF IInv, TypeOK
<1>1. CASE s \in Calls /\ BeginCall(s)
  BY <1>1, BeginRefines
<1>2. CASE /\ \E o : Settle(s, o)
           /\ s \in Calls => phase[s] \in Active
  BY <1>0, <1>2, SettleRefines, SenderFacts
<1>3. CASE /\ phase[s] # "done" /\ pending' = pending
           /\ \E q \in Active : phase' = [phase EXCEPT ![s] = q]
  <2>1. UNCHANGED <<reply, disconnected>>
    BY <1>0, SenderFacts
  <2>2. \A c \in Calls : Verdict(c)' = Verdict(c)
    BY <1>0, <1>3, <2>1 DEF Verdict, Unanswered, CallTypes, Active
  <2>3. QED
    BY <1>3, <2>1, <2>2 DEF Promise!vars
<1>4. QED
  BY <1>1, <1>2, <1>3, TransportAssumption
     DEF SenderStep, Receive, BeginPost, CheckLink, Enqueue, EnqueueClosed, GiveUp, Active,
         sharedVars

LEMMA DispatchRefines ==
  ASSUME IInv, IInv', DispatchResponse
  PROVE  Promise!Next \/ UNCHANGED Promise!vars
<1> DEFINE slot == {c \in pending : callId[c] = NextFrame.id}
<1>0. /\ TypeOK /\ CallTypes /\ TableTypes /\ PipeTypes /\ NoStrandedCall /\ TableGuarded
      /\ IdsUnique /\ FramesGenuine /\ AnswersCorrelated'
  BY DEF IInv, TypeOK, TableGuarded
<1>1. /\ taken < Len(printed) /\ NextFrame.kind \in {"result", "error"}
      /\ UNCHANGED <<phase, disconnected>> /\ pending' = pending \ slot
      /\ \A c \in Calls \ slot : reply'[c] = reply[c]
      /\ \A c \in slot : reply'[c].kind \in {"result", "error"}
  BY <1>0 DEF DispatchResponse, ReadFrame, TableWithout, TableTypes
<1>2. CASE slot = {}
  <2>1. \A c \in Calls : Verdict(c)' = Verdict(c)
    BY <1>1, <1>2 DEF Verdict, Unanswered
  <2>2. QED
    BY <1>1, <1>2, <2>1 DEF Promise!vars
<1>3. CASE slot # {}
  <2>1. PICK c \in slot : TRUE
    BY <1>3
  <2>2. c \in pending /\ c \in Calls /\ slot = {c}
    <3>1. NextFrame.id # 0
      BY <1>0, <1>1, NextFrameFacts
    <3>2. QED
      BY <1>0, <2>1, <3>1 DEF IdsUnique, TableTypes
  <2>3. ~disconnected
    BY <1>0, <2>2 DEF NoStrandedCall
  <2>4. reply'[c].kind \in {"result", "error"} /\ reply'[c].of = c
    BY <1>0, <1>1, <2>1, <2>2 DEF AnswersCorrelated
  <2>5. \A d \in Calls : Verdict(d)' = IF d = c THEN "answered" ELSE Verdict(d)
    <3> HIDE DEF slot
    <3>1. QED
      BY <1>1, <2>2, <2>4 DEF Verdict, Unanswered
  <2>6. Promise!Close(c, "answered")
    <3> HIDE DEF slot
    <3>1. QED
      BY <1>1, <2>2, <2>3, <2>5 DEF Promise!Close
  <2>7. QED
    BY <2>2, <2>6 DEF Promise!Next
<1>4. QED
  BY <1>2, <1>3

LEMMA FailsRefines ==
  ASSUME IInv, SupervisorFails
  PROVE  Promise!Next
<1>0. /\ CallTypes /\ NoStrandedCall /\ TableGuarded
  BY DEF IInv, TypeOK, TableGuarded
<1>1. /\ ~disconnected /\ disconnected' = TRUE /\ pending' = {} /\ phase' = phase
      /\ \A c \in Calls : reply'[c] = IF c \in pending THEN LinkDown ELSE reply[c]
  BY <1>0 DEF SupervisorFails, Drained, TableGuarded
<1>2. \A c \in Calls : Verdict(c)' = IF c \in pending THEN "down" ELSE Verdict(c)
  BY <1>0, <1>1 DEF Verdict, Unanswered, LinkDown
<1>3. Promise!GoDown
  BY <1>1, <1>2 DEF Promise!GoDown
<1>4. QED
  BY <1>3 DEF Promise!Next

\* The table of pending replies keeps RpcPromise for any number of calls, any
\* capacities and any child: the property KeepsPromise.
THEOREM PromiseKept == Spec => KeepsPromise
<1>1. Init => Promise!Init
  BY DEF Init, Promise!Init, Verdict, Unanswered, NoReply
<1>2. IInv /\ IInv' /\ [Next]_vars => Promise!Next \/ UNCHANGED Promise!vars
  <2> SUFFICES ASSUME IInv, IInv', Next \/ UNCHANGED vars
               PROVE  Promise!Next \/ UNCHANGED Promise!vars
    OBVIOUS
  <2>1. CASE UNCHANGED <<phase, reply, pending, disconnected>>
    <3>1. \A c \in Calls : Verdict(c)' = Verdict(c)
      BY <2>1 DEF Verdict, Unanswered
    <3>2. QED
      BY <2>1, <3>1 DEF Promise!vars
  <2>2. QED
    BY <2>1, SenderRefines, DispatchRefines, FailsRefines
       DEF Next, vars, callVars, HandshakeAnswered, HandshakeNotified, HandshakeStep, Shutdown,
           ChildStep, ChildAnswers, ChildActs, ChildPrints, StdoutCloses, ChildExits,
           WriteFrame, WriterFails, WriterStops, StopWriter, DispatchActivity,
           DispatchMalformed, ReadFrame, ReaderAtEof, ReaderStops, StopReader,
           SupervisorWakes, SupervisorDrained, SupervisorOnly, SupervisorAnnounces,
           SupervisorReaps, ConsumerTakes, ConsumerDrops
<1>3. QED
  BY <1>1, <1>2, InvariantHolds, PTL DEF Spec, Promise!Spec, KeepsPromise

=============================================================================
