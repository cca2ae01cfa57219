----------------------------- MODULE Interactions -----------------------------
(***************************************************************************)
(* Callbacks of the backend to the client: server_request and              *)
(* answer_callback of src/src/server/events.rs, the sweeps of              *)
(* cancel_interactions in mod.rs, and the operations that run them, in     *)
(* controls.rs, lifecycle.rs and extension_requests.rs.                    *)
(*                                                                         *)
(* A session's worker puts a callback in State.pending and leaves it to a  *)
(* task of its own, which asks the client.  The task ends by the answer,   *)
(* by a timeout, because the backend has resolved the request (Dismissed), *)
(* or because a cancellation or a teardown has swept it (Cancelled).  The  *)
(* client is told what a session is at: running, requires_action or idle.  *)
(*                                                                         *)
(* An acquired lock or an awaited call is where another task may come in;  *)
(* what lies between two of them is one step.                              *)
(***************************************************************************)
EXTENDS Integers, Sequences, FiniteSets

CONSTANTS
  Sessions,
  Host,          \* stands for no session: callbacks that name no thread
  Callbacks,     \* requests of the backend, with ids of their own
  Of,            \* the session that owns the thread of each, or Host
  HostMethods,   \* options.allow_host_methods
  PendingLimit,  \* callbacks outstanding at the client (128)
  Resolvable,    \* bound: callbacks the backend resolves itself
  Requests,      \* cancellations and teardowns by the client
  MaxTurns       \* bound: turns the backend ever starts

Lanes == Sessions \union {Host}  \* a session's worker, or the pump for the rest
Turns == 0 .. MaxTurns           \* 0: none

ASSUME InteractionAssumption ==
  /\ Host \notin Sessions /\ "nothing" \notin Callbacks
  /\ Of \in [Callbacks -> Lanes] /\ HostMethods \in BOOLEAN
  /\ Resolvable \subseteq Callbacks
  /\ IsFiniteSet(Callbacks) /\ PendingLimit \in Nat \ {0} /\ MaxTurns \in Nat

VARIABLES
  inbox,         \* events of every lane, in order
  turn, turns,   \* backend: the running turn of every session, and the turns so far
  emitted, resolved,  \* backend: callbacks sent, and those it has resolved itself
  open, closing, active,  \* SessionData
  listed,        \* ids in State.sessions
  admitting,     \* the callback whose lane holds the session's data lock
  pending,       \* State.pending
  signal,        \* what was sent through the cancel channel of every callback
  task, result,  \* the spawned task of every callback, and what it came to
  replies,       \* history: answers sent to the backend for every callback
  shown,         \* the last state_update of every session
  req            \* the client's cancellations and teardowns

backendVars  == <<turn, turns, emitted, resolved>>
dataVars     == <<open, closing, active, listed>>
callbackVars == <<pending, signal, task, result, replies>>
vars == <<inbox, backendVars, dataVars, admitting, callbackVars, shown, req>>

Nothing == "nothing"
Events == [what : {"request", "resolved"}, of : Callbacks]
            \union [what : {"started", "completed"}, of : Turns]
TaskSteps == {"none", "asking", "leaving", "answering", "looking", "judging", "done"}
Kinds == {"cancel", "close", "archive"}
Steps == {"idle", "wait", "closing", "sweep", "look", "settle", "clean", "resweep", "shut",
          "remove", "done"}

Request(step, kind, s, t) == [pc |-> step, kind |-> kind, on |-> s, aim |-> t]

\* Types and the limit on outstanding callbacks.
TypeOK ==
  /\ inbox \in [Lanes -> Seq(Events)]
  /\ turn \in [Sessions -> Turns] /\ turns \in Turns
  /\ resolved \subseteq emitted /\ emitted \subseteq Callbacks
  /\ {open, closing, listed} \subseteq [Sessions -> BOOLEAN]
  /\ active \in [Sessions -> Turns]
  /\ admitting \in [Lanes -> Callbacks \union {Nothing}]
  /\ pending \subseteq Callbacks /\ Cardinality(pending) <= PendingLimit
  /\ signal \in [Callbacks -> {Nothing, "cancelled", "dismissed"}]
  /\ task \in [Callbacks -> TaskSteps]
  /\ result \in [Callbacks -> {Nothing, "answer", "error", "cancelled", "dismissed"}]
  /\ replies \in [Callbacks -> Seq({"refused", "answer", "error", "cancelled"})]
  /\ shown \in [Sessions -> {"idle", "running", "requires_action"}]
  /\ req \in [Requests -> [pc : Steps, kind : Kinds \union {Nothing},
                           on : Sessions \union {Nothing}, aim : Turns]]

Init ==
  /\ inbox = [l \in Lanes |-> <<>>]
  /\ turn = [s \in Sessions |-> 0] /\ turns = 0 /\ emitted = {} /\ resolved = {}
  /\ open = [s \in Sessions |-> TRUE] /\ closing = [s \in Sessions |-> FALSE]
  /\ active = [s \in Sessions |-> 0] /\ listed = [s \in Sessions |-> TRUE]
  /\ admitting = [l \in Lanes |-> Nothing]
  /\ pending = {} /\ signal = [c \in Callbacks |-> Nothing]
  /\ task = [c \in Callbacks |-> "none"] /\ result = [c \in Callbacks |-> Nothing]
  /\ replies = [c \in Callbacks |-> <<>>]
  /\ shown = [s \in Sessions |-> "idle"]
  /\ req = [r \in Requests |-> Request("idle", Nothing, Nothing, 0)]

----------------------------------------------------------------------------
(* The backend (external) *)

Sent(l, kind, which) ==
  inbox' = [inbox EXCEPT ![l] = Append(@, [what |-> kind, of |-> which])]

TurnStarts(s) ==
  /\ turn[s] = 0 /\ turns < MaxTurns
  /\ turns' = turns + 1 /\ turn' = [turn EXCEPT ![s] = turns + 1]
  /\ Sent(s, "started", turns + 1)
  /\ UNCHANGED <<emitted, resolved, dataVars, admitting, callbackVars, shown, req>>

TurnEnds(s) ==
  /\ turn[s] # 0
  /\ turn' = [turn EXCEPT ![s] = 0]
  /\ Sent(s, "completed", turn[s])
  /\ UNCHANGED <<turns, emitted, resolved, dataVars, admitting, callbackVars, shown, req>>

Asks(c) ==
  /\ c \notin emitted
  /\ emitted' = emitted \union {c}
  /\ Sent(Of[c], "request", c)
  /\ UNCHANGED <<turn, turns, resolved, dataVars, admitting, callbackVars, shown, req>>

\* serverRequest/resolved: it has an answer, or needs none any more.
Resolves(c) ==
  /\ c \in (Resolvable \intersect emitted) \ resolved
  /\ resolved' = resolved \union {c}
  /\ Sent(Of[c], "resolved", c)
  /\ UNCHANGED <<turn, turns, emitted, dataVars, admitting, callbackVars, shown, req>>

----------------------------------------------------------------------------
(* A session's worker, or the pump: notification and server_request *)

Upcoming(l, kind) == inbox[l] # <<>> /\ admitting[l] = Nothing /\ Head(inbox[l]).what = kind
Took(l) == inbox' = [inbox EXCEPT ![l] = Tail(@)]

\* Session.data is held over an await by server_request alone.
DataFree(s) == admitting[s] = Nothing

Live(s) == open[s] /\ listed[s]

Refuse(c) ==
  /\ replies' = [replies EXCEPT ![c] = Append(@, "refused")]
  /\ task' = [task EXCEPT ![c] = "done"]
  /\ UNCHANGED <<pending, signal, result>>

\* The callback's session, under its data lock, must be open and not closing.
TakeRequest(l) ==
  LET c == Head(inbox[l]).of IN
  /\ Upcoming(l, "request") /\ Took(l)
  /\ \/ /\ l \in Sessions => open[l] /\ ~closing[l]
        /\ admitting' = [admitting EXCEPT ![l] = c]
        /\ UNCHANGED callbackVars
     \/ /\ l \in Sessions /\ (~open[l] \/ closing[l])
        /\ Refuse(c) /\ UNCHANGED admitting
  /\ UNCHANGED <<backendVars, dataVars, shown, req>>

Owned(l) == IF l = Host THEN HostMethods ELSE listed[l]

Full == Cardinality(pending) >= PendingLimit

\* Mutant: requires_action whether or not a turn runs.
ForegroundAlways(l) == l \in Sessions
Foreground(l) == l \in Sessions /\ active[l] # 0

\* With State locked too: entered in the table if it blocks the
\* session's turn, and left to a task; or refused, also for what it asks.
Admit(l) ==
  LET c == admitting[l] IN
  /\ c # Nothing
  /\ admitting' = [admitting EXCEPT ![l] = Nothing]
  /\ \/ /\ Owned(l) /\ ~Full
        /\ pending' = pending \union {c} /\ task' = [task EXCEPT ![c] = "asking"]
        /\ \/ Foreground(l) /\ shown' = [shown EXCEPT ![l] = "requires_action"]
           \/ UNCHANGED shown
        /\ UNCHANGED <<signal, result, replies>>
     \/ Refuse(c) /\ UNCHANGED shown
  /\ UNCHANGED <<inbox, backendVars, dataVars, req>>

\* The backend has resolved a callback: its task ends without an answer.
TakeResolved(l) ==
  LET c == Head(inbox[l]).of IN
  /\ Upcoming(l, "resolved") /\ Took(l)
  /\ \/ /\ l \in Sessions /\ Live(l) /\ c \in pending
        /\ pending' = pending \ {c} /\ signal' = [signal EXCEPT ![c] = "dismissed"]
     \/ ~(l \in Sessions /\ Live(l) /\ c \in pending) /\ UNCHANGED <<pending, signal>>
  /\ UNCHANGED <<backendVars, dataVars, admitting, task, result, replies, shown,
                 req>>

\* turn/started and turn/completed, with the state they project to.
TakeTurn(l) ==
  LET t == Head(inbox[l]).of IN
  /\ Upcoming(l, "started") \/ Upcoming(l, "completed")
  /\ Took(l)
  /\ \/ /\ Live(l) /\ Upcoming(l, "started")
        /\ active' = [active EXCEPT ![l] = t] /\ shown' = [shown EXCEPT ![l] = "running"]
     \/ /\ Live(l) /\ Upcoming(l, "completed")
        /\ active' = [active EXCEPT ![l] = IF @ = t THEN 0 ELSE @]
        /\ shown' = [shown EXCEPT ![l] = "idle"]
     \/ ~Live(l) /\ UNCHANGED <<active, shown>>
  /\ UNCHANGED <<backendVars, open, closing, listed, admitting, callbackVars, req>>

----------------------------------------------------------------------------
(* The task of a callback *)

Moves(c, from, to) == task[c] = from /\ task' = [task EXCEPT ![c] = to]

Concludes(c, outcome) ==
  /\ Moves(c, "asking", "leaving")
  /\ result' = [result EXCEPT ![c] = outcome]
  /\ UNCHANGED <<inbox, backendVars, dataVars, admitting, pending, signal, replies, shown, req>>

\* The client answers; it fails, lacks what it takes, or the wait times out; or
\* the cancel channel has a reason, which may lose against an answer.
ClientAnswers(c) == Concludes(c, "answer")
AskingFails(c)   == Concludes(c, "error")
Signalled(c)     == signal[c] # Nothing /\ Concludes(c, signal[c])

\* Mutant: an entry leaves the table only with a sweep.
LeavePending(c) ==
  /\ Moves(c, "leaving", "answering")
  /\ UNCHANGED <<inbox, backendVars, dataVars, admitting, pending, signal, result, replies,
                 shown, req>>
Leave(c) ==
  /\ Moves(c, "leaving", "answering")
  /\ pending' = pending \ {c}
  /\ UNCHANGED <<inbox, backendVars, dataVars, admitting, signal, result, replies, shown, req>>

\* Mutant: an interaction that failed or timed out is dropped.
AnswerWorthyIfDecided(c) == result[c] \notin {"dismissed", "error"}
AnswerWorthy(c) == result[c] # "dismissed"

\* Backend::respond, unless the backend wants no answer any more.
Respond(c) ==
  /\ Moves(c, "answering", IF Of[c] = Host THEN "done" ELSE "looking")
  /\ replies' = [replies EXCEPT ![c] = IF AnswerWorthy(c) THEN Append(@, result[c]) ELSE @]
  /\ result' = [result EXCEPT ![c] = Nothing] /\ signal' = [signal EXCEPT ![c] = Nothing]
  /\ UNCHANGED <<inbox, backendVars, dataVars, admitting, pending, shown, req>>

\* If its session is still in the table, and no other callback of it is pending
\* (two looks at State with nothing between them)...
CountPending(c) ==
  /\ Moves(c, "looking",
           IF listed[Of[c]] /\ ~\E d \in pending : Of[d] = Of[c] THEN "judging" ELSE "done")
  /\ UNCHANGED <<inbox, backendVars, dataVars, admitting, pending, signal, result, replies,
                 shown, req>>

\* ... and it has a turn and is not closing, it runs again.
ShowRunning(c) ==
  LET s == Of[c] IN
  /\ Moves(c, "judging", "done") /\ DataFree(s)
  /\ shown' = [shown EXCEPT ![s] = IF ~closing[s] /\ active[s] # 0 THEN "running" ELSE @]
  /\ UNCHANGED <<inbox, backendVars, dataVars, admitting, pending, signal, result, replies,
                 req>>

----------------------------------------------------------------------------
(* Cancellation, close and the archive extension *)

At(r, step) == req[r].pc = step
Goto(r, step) == req' = [req EXCEPT ![r].pc = step]
Return(r) == req' = [req EXCEPT ![r] = Request("done", Nothing, Nothing, 0)]

Begin(r, kind, s) ==
  /\ At(r, "idle") /\ listed[s]
  /\ req' = [req EXCEPT ![r] = Request("wait", kind, s, 0)]
  /\ UNCHANGED <<inbox, backendVars, dataVars, admitting, callbackVars, shown>>

\* Session.admission is held by a cancellation, Session.gate by a teardown.
Excluded(r) ==
  \E q \in Requests \ {r} :
    /\ req[q].pc \notin {"idle", "wait", "done"} /\ req[q].on = req[r].on
    /\ (req[q].kind = "cancel") = (req[r].kind = "cancel")

Enter(r) ==
  LET s == req[r].on IN
  /\ At(r, "wait") /\ ~Excluded(r) /\ DataFree(s)
  /\ \/ req[r].kind = "cancel" /\ open[s] /\ Goto(r, "sweep")
     \/ req[r].kind = "close" /\ Goto(r, "closing")
     \/ req[r].kind = "archive" /\ open[s] /\ ~closing[s] /\ Goto(r, "closing")
     \/ req[r].kind # "close" /\ ~open[s] /\ Return(r)
     \/ req[r].kind = "archive" /\ closing[s] /\ Return(r)
  /\ UNCHANGED <<inbox, backendVars, dataVars, admitting, callbackVars, shown>>

\* Mutant: the mark does not wait for a callback being admitted.
MarkableAlways(s) == TRUE
Markable(s) == DataFree(s)

\* closing is set under the data lock, against the insertion of callbacks.
BeginClosing(r) ==
  /\ At(r, "closing") /\ Markable(req[r].on)
  /\ closing' = [closing EXCEPT ![req[r].on] = TRUE]
  /\ Goto(r, "sweep")
  /\ UNCHANGED <<inbox, backendVars, open, active, listed, admitting, callbackVars, shown>>

Tell(some) == signal' = [c \in Callbacks |-> IF c \in some THEN "cancelled" ELSE signal[c]]

\* cancel_interactions.
Sweep(r) ==
  LET swept == {c \in pending : Of[c] = req[r].on} IN
  /\ \/ At(r, "sweep") /\ Goto(r, "look")
     \/ At(r, "resweep") /\ Goto(r, "shut")
  /\ pending' = pending \ swept /\ Tell(swept)
  /\ UNCHANGED <<inbox, backendVars, dataVars, admitting, task, result, replies, shown>>

AfterCancel(r) == IF req[r].kind = "cancel" THEN Return(r) ELSE Goto(r, "clean")

\* cancel_locked: an idle session is said to be, a turn is interrupted...
LookForTurn(r) ==
  LET s == req[r].on IN
  /\ At(r, "look") /\ DataFree(s)
  /\ \/ /\ active[s] = 0 /\ AfterCancel(r)
        /\ shown' = [shown EXCEPT ![s] = "idle"]
     \/ /\ active[s] # 0 /\ UNCHANGED shown
        /\ req' = [req EXCEPT ![r] = Request("settle", req[r].kind, s, active[s])]
  /\ UNCHANGED <<inbox, backendVars, dataVars, admitting, callbackVars>>

\* ... and its end waited for, unless the interrupt fails or the wait times out.
Settle(r) ==
  /\ At(r, "settle")
  /\ \/ DataFree(req[r].on) /\ active[req[r].on] # req[r].aim /\ AfterCancel(r)
     \/ Return(r)
  /\ UNCHANGED <<inbox, backendVars, dataVars, admitting, callbackVars, shown>>

\* The calls that detach the thread and what hangs on it succeed or fail.
Clean(r) ==
  /\ At(r, "clean")
  /\ \/ req[r].kind = "close" /\ Goto(r, "shut")
     \/ req[r].kind = "archive" /\ Goto(r, "resweep")
     \/ Return(r)
  /\ UNCHANGED <<inbox, backendVars, dataVars, admitting, callbackVars, shown>>

Shut(r) ==
  /\ At(r, "shut") /\ DataFree(req[r].on) /\ Goto(r, "remove")
  /\ open' = [open EXCEPT ![req[r].on] = FALSE]
  /\ UNCHANGED <<inbox, backendVars, closing, active, listed, admitting, callbackVars, shown>>

Remove(r) ==
  LET s == req[r].on IN
  /\ At(r, "remove") /\ Return(r)
  /\ listed' = [listed EXCEPT ![s] = FALSE]
  /\ shown' = [shown EXCEPT ![s] = IF req[r].kind = "archive" THEN "idle" ELSE @]
  /\ UNCHANGED <<inbox, backendVars, open, closing, active, admitting, callbackVars>>

----------------------------------------------------------------------------
BackendStep ==
  \/ \E s \in Sessions : TurnStarts(s) \/ TurnEnds(s)
  \/ \E c \in Callbacks : Asks(c) \/ Resolves(c)
WorkerStep(l) == TakeRequest(l) \/ Admit(l) \/ TakeResolved(l) \/ TakeTurn(l)
FinishStep(c) ==
  Signalled(c) \/ Leave(c) \/ Respond(c) \/ CountPending(c) \/ ShowRunning(c)
RequestStep(r) ==
  \/ Enter(r) \/ BeginClosing(r) \/ Sweep(r) \/ LookForTurn(r) \/ Settle(r) \/ Clean(r)
  \/ Shut(r) \/ Remove(r)

Next ==
  \/ BackendStep
  \/ \E l \in Lanes : WorkerStep(l)
  \/ \E c \in Callbacks : ClientAnswers(c) \/ AskingFails(c) \/ FinishStep(c)
  \/ \E r \in Requests, kind \in Kinds, s \in Sessions : Begin(r, kind, s)
  \/ \E r \in Requests : RequestStep(r)

Spec == Init /\ [][Next]_vars

\* Workers and tasks run.  The client owes no answer, and no timer is counted on.
Fairness ==
  /\ \A l \in Lanes : WF_vars(WorkerStep(l))
  /\ \A c \in Callbacks : WF_vars(FinishStep(c))
FairSpec == Spec /\ Fairness

----------------------------------------------------------------------------
(* Properties *)

\* Every callback is answered once, whatever ends it first and whoever else ends it
\* too; only one the backend has resolved itself may go without an answer.
AnsweredOnce ==
  \A c \in Callbacks :
    /\ Len(replies[c]) <= 1
    /\ task[c] = "done" /\ replies[c] = <<>> => c \in resolved

\* A session's teardown that has swept its callbacks leaves none behind, and none
\* can be admitted any more: the client is not asked for a session that is closing.
NoneAfterSweep ==
  \A r \in Requests :
    /\ req[r].kind \in {"close", "archive"}
    /\ req[r].pc \in {"look", "settle", "clean", "resweep", "shut", "remove"}
    => \A c \in Callbacks : Of[c] = req[r].on => c \notin pending /\ admitting[Of[c]] # c

\* A session without a turn is never shown as busy: neither a late callback nor
\* the end of one brings back running or requires_action.
NoneBusyWithoutTurn == \A s \in Sessions : active[s] = 0 => shown[s] = "idle"

\* requires_action does not outlast the last pending callback of a session.
RequiresActionLeaves ==
  \A s \in Sessions :
    shown[s] = "requires_action"
      ~> \/ shown[s] # "requires_action" \/ closing[s]
         \/ \E c \in pending : Of[c] = s /\ task[c] = "asking"

\* A client that does not answer holds up no event of the session, nor another callback.
WorkersIndependent == \A l \in Lanes : inbox[l] # <<>> ~> inbox[l] = <<>>

\* What a cancellation, a teardown or the backend takes from the table ends
\* without the client.
RemovedEnds ==
  \A c \in Callbacks : task[c] = "asking" /\ c \notin pending ~> task[c] = "done"

\* However long the client takes, what depends on its answer no longer goes on.
GoesOnWithoutClient == RequiresActionLeaves /\ WorkersIndependent /\ RemovedEnds

=============================================================================
