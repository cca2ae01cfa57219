--------------------------- MODULE SessionLifecycle ---------------------------
(***************************************************************************)
(* The sessions of one connection: the requests of                         *)
(* src/src/server/lifecycle.rs, cancellation in controls.rs, archive and   *)
(* detached review in extension_requests.rs, racing with each other and    *)
(* with the turn notifications of events.rs.                               *)
(*                                                                         *)
(* A request runs in a task of its own; every lock it takes, every look at *)
(* the state and every call to the backend is a step.  State.sessions maps *)
(* an id to a Session object behind an Arc: a request keeps the object it  *)
(* looked up although the table may have moved on, so objects and ids are  *)
(* told apart.  An object is named by the request that created it.         *)
(***************************************************************************)
EXTENDS Integers, Sequences, FiniteSets

CONSTANTS
  Ids,           \* thread ids, which are session ids
  Stored,        \* those the backend knows from the start
  Opened,        \* those that are sessions from the start
  Requests,      \* the client's requests
  Kinds,         \* bound: what the client asks for
  MaxSessions,   \* options.max_sessions
  MaxTurns,      \* bound: turns the backend ever starts
  Nobody

Creators == {"new", "resume", "fork", "review"}
AllKinds == Creators \union {"close", "archive", "delete", "prompt", "cancel"}
Arcs     == Requests \union Opened   \* a session open from the start is its own object

ASSUME LifecycleAssumption ==
  /\ IsFiniteSet(Ids) /\ Opened \subseteq Stored /\ Stored \subseteq Ids
  /\ Requests \intersect Ids = {} /\ Nobody \notin Requests \union Ids
  /\ Kinds \subseteq AllKinds
  /\ MaxSessions \in Nat /\ Cardinality(Opened) <= MaxSessions /\ MaxTurns \in Nat

VARIABLES
  table,         \* State.sessions
  open, closing, active, last,   \* SessionData of every object (turn 0: none)
  creation,      \* who holds creation_gate
  gate, admission, delivery,     \* who holds these locks of every object
  req,           \* every request, with what its task keeps across its awaits
  threads, subscribed,           \* backend: threads, and those this connection is attached to
  turn, turns,   \* backend: the running turn of every thread, and the turns so far
  news,          \* turn notifications on their way to a session
  seen, over     \* history: turns whose start, and whose end, reached an object

sessionVars == <<open, closing, active, last>>
lockVars    == <<creation, gate, admission, delivery>>
backendVars == <<threads, subscribed, turn, turns, news>>
historyVars == <<seen, over>>
vars == <<table, sessionVars, lockVars, req, backendVars, historyVars>>

OpenIds == {i \in Ids : table[i] # Nobody}
Turns   == 0 .. MaxTurns
News    == [what : {"started", "completed"}, of : Turns]

Steps == {"idle", "creation", "limit", "lookup", "gate", "check", "setup", "register",
          "read", "adopt", "sync", "delivery", "vacant", "detach", "shut", "rejoin",
          "withdraw", "reopen", "resync", "redeliver", "replay", "leave",
          "admission", "turn", "record", "which", "closing", "interrupt", "interrupting",
          "settle", "clean", "unsubscribe", "archive", "shutdown", "remove", "done"}

\* A request: its progress, what it asks and of which session, the object it
\* looked up, the turn it interrupts, steers or has started, and how it was
\* answered; and as history, the turns its object had announced when looked up.
Request == [pc : Steps, kind : AllKinds \union {"none"}, id : Ids \union {Nobody},
            mine : Arcs \union {Nobody}, aim : Turns,
            answer : {"none", "ok", "error"}, goal : SUBSET Turns]
Task(step, k, i, a, t, g) == [pc |-> step, kind |-> k, id |-> i, mine |-> a, aim |-> t,
                              answer |-> "none", goal |-> g]
Idle == Task("idle", "none", Nobody, Nobody, 0, {})
Returned(result) == [pc |-> "done", kind |-> "none", id |-> Nobody, mine |-> Nobody, aim |-> 0,
                     answer |-> result, goal |-> {}]

\* Types, and no lock is held by a request that has not begun or has returned.
TableTypes == table \in [Ids -> Arcs \union {Nobody}]
ObjectTypes ==
  /\ open \in [Arcs -> BOOLEAN] /\ closing \in [Arcs -> BOOLEAN]
  /\ active \in [Arcs -> Turns] /\ last \in [Arcs -> Turns]
LockTypes ==
  /\ creation \in Requests \union {Nobody}
  /\ {gate, admission, delivery} \subseteq [Arcs -> Requests \union {Nobody}]
LocksOwned ==
  \A r \in Requests : req[r].pc \in {"idle", "done"} =>
    creation # r /\ \A a \in Arcs : r \notin {gate[a], admission[a], delivery[a]}
BackendTypes ==
  /\ threads \subseteq Ids /\ subscribed \subseteq threads
  /\ turn \in [Ids -> Turns] /\ turns \in Turns /\ news \in [Ids -> Seq(News)]
HistoryTypes == seen \in [Arcs -> SUBSET Turns] /\ over \in [Arcs -> SUBSET Turns]

TypeOK ==
  /\ TableTypes /\ ObjectTypes /\ LockTypes /\ LocksOwned /\ BackendTypes /\ HistoryTypes
  /\ req \in [Requests -> Request]

Init ==
  /\ table = [i \in Ids |-> IF i \in Opened THEN i ELSE Nobody]
  /\ open = [a \in Arcs |-> a \in Opened] /\ closing = [a \in Arcs |-> FALSE]
  /\ active = [a \in Arcs |-> 0] /\ last = [a \in Arcs |-> 0]
  /\ creation = Nobody
  /\ gate = [a \in Arcs |-> Nobody] /\ admission = [a \in Arcs |-> Nobody]
  /\ delivery = [a \in Arcs |-> Nobody]
  /\ req = [r \in Requests |-> Idle]
  /\ threads = Stored /\ subscribed = Opened
  /\ turn = [i \in Ids |-> 0] /\ turns = 0 /\ news = [i \in Ids |-> <<>>]
  /\ seen = [a \in Arcs |-> {}] /\ over = [a \in Arcs |-> {}]

----------------------------------------------------------------------------
(* Requests *)

Kind(r) == req[r].kind
Id(r)   == req[r].id
Mine(r) == req[r].mine
Aim(r)  == req[r].aim
Goal(r) == req[r].goal
At(r, step) == req[r].pc = step
Released(locks, r) == [a \in Arcs |-> IF locks[a] = r THEN Nobody ELSE locks[a]]

\* A handler returns: its guards are dropped.
Finish(r, result) ==
  /\ req' = [req EXCEPT ![r] = Returned(result)]
  /\ creation' = IF creation = r THEN Nobody ELSE creation
  /\ gate' = Released(gate, r) /\ admission' = Released(admission, r)
  /\ delivery' = Released(delivery, r)

Fail(r) == Finish(r, "error")

\* Go on, with the locks as they are, or with what the task now knows.
Goto(r, step) == req' = [req EXCEPT ![r].pc = step]
Proceed(r, step) == Goto(r, step) /\ UNCHANGED lockVars
Become(r, task) == req' = [req EXCEPT ![r] = task] /\ UNCHANGED lockVars
Find(r, step, a) == Become(r, Task(step, Kind(r), Id(r), a, 0, Goal(r)))
Note(r, step, t) == Become(r, Task(step, Kind(r), Id(r), Mine(r), t, Goal(r)))

Begin(r, k, i) ==
  /\ At(r, "idle") /\ k \in Kinds
  /\ k = "new" <=> i = Nobody
  /\ \/ k \in Creators /\ Become(r, Task("creation", k, i, Nobody, 0, {}))
     \/ k = "delete" /\ Become(r, Task("which", k, i, Nobody, 0, {}))
     \/ k \notin Creators \union {"delete"} /\ Become(r, Task("lookup", k, i, Nobody, 0, {}))
  /\ UNCHANGED <<table, sessionVars, backendVars, historyVars>>

\* creation_gate: one session/new, resume, fork or detached review at a time.
\* Mutant: a fork does not take it.
TakeCreationUnlessFork(r) ==
  /\ At(r, "creation") /\ (creation = Nobody \/ Kind(r) = "fork")
  /\ creation' = r
  /\ \/ Kind(r) \in {"new", "review"} /\ Goto(r, "limit")
     \/ Kind(r) = "resume" /\ Goto(r, "read")
     \/ Kind(r) = "fork" /\ Goto(r, "lookup")
  /\ UNCHANGED <<table, sessionVars, gate, admission, delivery, backendVars, historyVars>>
TakeCreation(r) ==
  /\ At(r, "creation") /\ creation = Nobody
  /\ creation' = r
  /\ \/ Kind(r) \in {"new", "review"} /\ Goto(r, "limit")
     \/ Kind(r) = "resume" /\ Goto(r, "read")
     \/ Kind(r) = "fork" /\ Goto(r, "lookup")
  /\ UNCHANGED <<table, sessionVars, gate, admission, delivery, backendVars, historyVars>>

\* Server::session: the object of the id, if it is open on this connection.
Lookup(r) ==
  /\ At(r, "lookup")
  /\ \/ /\ table[Id(r)] # Nobody
        /\ Become(r, Task(IF Kind(r) = "cancel" THEN "admission" ELSE "gate", Kind(r), Id(r),
                          table[Id(r)], 0, seen[table[Id(r)]]))
     \/ table[Id(r)] = Nobody /\ Fail(r)
  /\ UNCHANGED <<table, sessionVars, backendVars, historyVars>>

\* Session.gate: one operation at a time.
TakeGate(r) ==
  /\ At(r, "gate") /\ gate[Mine(r)] = Nobody
  /\ gate' = [gate EXCEPT ![Mine(r)] = r]
  /\ \/ Kind(r) = "resume" /\ Goto(r, "sync")
     \/ Kind(r) = "prompt" /\ Goto(r, "admission")
     \/ Kind(r) \in {"fork", "review", "archive"} /\ Goto(r, "check")
     \/ Kind(r) \in {"close", "delete"} /\ Goto(r, "closing")
  /\ UNCHANGED <<table, sessionVars, creation, admission, delivery, backendVars, historyVars>>

\* Session.admission: a cancellation and the admission of a turn exclude each
\* other; a prompt has reconciled the settings before it, or failed to.
TakeAdmission(r) ==
  /\ At(r, "admission")
  /\ \/ /\ admission[Mine(r)] = Nobody
        /\ admission' = [admission EXCEPT ![Mine(r)] = r]
        /\ Goto(r, "check") /\ UNCHANGED <<creation, gate, delivery>>
     \/ Kind(r) = "prompt" /\ Fail(r)
  /\ UNCHANGED <<table, sessionVars, backendVars, historyVars>>

\* "session is closed or closing": what each operation asks of its object.
Usable(r) ==
  LET a == Mine(r) IN
  /\ open[a]
  /\ Kind(r) # "cancel" => ~closing[a]
  /\ Kind(r) = "fork" => active[a] = 0

Check(r) ==
  /\ At(r, "check")
  /\ \/ Usable(r) /\ Kind(r) = "fork" /\ Proceed(r, "limit")
     \/ Usable(r) /\ Kind(r) = "review" /\ Proceed(r, "setup")
     \/ Usable(r) /\ Kind(r) = "prompt" /\ Note(r, "turn", active[Mine(r)])
     \/ Usable(r) /\ Kind(r) = "cancel" /\ Proceed(r, "interrupt")
     \/ Usable(r) /\ Kind(r) = "archive" /\ Proceed(r, "closing")
     \/ ~Usable(r) /\ Fail(r)
  /\ UNCHANGED <<table, sessionVars, backendVars, historyVars>>

----------------------------------------------------------------------------
(* session/new, session/fork and detached review *)

Room == Cardinality(OpenIds) < MaxSessions

\* A review looks at the limit before it looks up its session and waits for it.
AfterLimit(r) == IF Kind(r) = "review" THEN "lookup" ELSE "setup"

Limit(r) ==
  /\ At(r, "limit")
  /\ \/ Room /\ Proceed(r, AfterLimit(r))
     \/ ~Room /\ Fail(r)
  /\ UNCHANGED <<table, sessionVars, backendVars, historyVars>>

\* thread/start, thread/fork or review/start: a new thread; a call that timed out may
\* have made one.
Setup(r) ==
  /\ At(r, "setup")
  /\ \/ \E i \in Ids \ threads :
          /\ threads' = threads \union {i} /\ subscribed' = subscribed \union {i}
          /\ \/ Become(r, Task("register", Kind(r), i, Mine(r), 0, Goal(r)))
             \/ Fail(r)
     \/ Fail(r) /\ UNCHANGED <<threads, subscribed>>
  /\ UNCHANGED <<table, sessionVars, turn, turns, news, historyVars>>

\* A new object, as Session::new makes it.
Fresh(r) ==
  /\ table' = [table EXCEPT ![Id(r)] = r]
  /\ open' = [open EXCEPT ![r] = TRUE]
  /\ UNCHANGED <<closing, active, last>>

\* The pump inserts the session, then the request is answered (see EventDelivery).
Register(r) ==
  /\ At(r, "register")
  /\ Fresh(r)
  /\ Finish(r, "ok")
  /\ UNCHANGED <<backendVars, historyVars>>

----------------------------------------------------------------------------
(* session/resume *)

\* thread/read: stored, at the same cwd, and not active.
Read(r) ==
  /\ At(r, "read")
  /\ \/ Id(r) \in threads /\ turn[Id(r)] = 0 /\ Proceed(r, "adopt")
     \/ Fail(r)
  /\ UNCHANGED <<table, sessionVars, backendVars, historyVars>>

\* With State locked: the object of the id, or a new one within the limit.
Adopt(r) ==
  /\ At(r, "adopt")
  /\ \/ /\ table[Id(r)] # Nobody /\ UNCHANGED <<table, sessionVars>>
        /\ Find(r, "gate", table[Id(r)])
     \/ /\ table[Id(r)] = Nobody /\ Room /\ Fresh(r)
        /\ Find(r, "gate", r)
     \/ /\ table[Id(r)] = Nobody /\ ~Room /\ Fail(r)
        /\ UNCHANGED <<table, sessionVars>>
  /\ UNCHANGED <<backendVars, historyVars>>

WasRegistered(r) == Mine(r) # r

\* synchronize_session: every event read so far is delivered, or the wait times out.
Synchronize(r) ==
  /\ \/ At(r, "sync") /\ news[Id(r)] = <<>> /\ Proceed(r, "delivery")
     \/ At(r, "resync") /\ news[Id(r)] = <<>> /\ Proceed(r, "redeliver")
     \/ req[r].pc \in {"sync", "resync"} /\ Fail(r)
  /\ UNCHANGED <<table, sessionVars, backendVars, historyVars>>

\* Session.delivery, before the session's state is replaced and again before the replay.
TakeDelivery(r) ==
  /\ \/ At(r, "delivery") /\ Goto(r, "vacant")
     \/ At(r, "redeliver") /\ Goto(r, "replay")
  /\ delivery[Mine(r)] = Nobody
  /\ delivery' = [delivery EXCEPT ![Mine(r)] = r]
  /\ UNCHANGED <<table, sessionVars, creation, gate, admission, backendVars, historyVars>>

\* Mutant: the session is not looked at again under its locks.
UnoccupiedAlways(r) == TRUE
Unoccupied(r) == active[Mine(r)] = 0

Vacant(r) ==
  /\ At(r, "vacant")
  /\ \/ Unoccupied(r) /\ Proceed(r, IF WasRegistered(r) THEN "detach" ELSE "rejoin")
     \/ ~Unoccupied(r) /\ Fail(r)
  /\ UNCHANGED <<table, sessionVars, backendVars, historyVars>>

\* A call that attaches this connection to the thread or detaches it: when it
\* fails, a timeout leaves open whether it was carried out.
Attempt(r, attached, step, otherwise) ==
  /\ \/ subscribed' = attached /\ Proceed(r, step)
     \/ subscribed' \in {subscribed, attached} /\ otherwise
  /\ UNCHANGED <<threads, turn, turns, news>>

\* thread/unsubscribe, so that the backend honours the request's overrides.
Detach(r) ==
  /\ At(r, "detach")
  /\ Attempt(r, subscribed \ {Id(r)}, "shut", Fail(r))
  /\ UNCHANGED <<table, sessionVars, historyVars>>

Shut(r) ==
  /\ At(r, "shut") /\ Proceed(r, "rejoin")
  /\ open' = [open EXCEPT ![Mine(r)] = FALSE]
  /\ UNCHANGED <<table, closing, active, last, backendVars, historyVars>>

\* thread/resume.
Rejoin(r) ==
  /\ At(r, "rejoin")
  /\ Attempt(r, subscribed \union {Id(r)}, "reopen",
             IF WasRegistered(r) THEN Fail(r) ELSE Proceed(r, "withdraw"))
  /\ UNCHANGED <<table, sessionVars, historyVars>>

\* The session this request inserted is taken out again.
Withdraw(r) ==
  /\ At(r, "withdraw") /\ Fail(r)
  /\ table' = [table EXCEPT ![Id(r)] = Nobody]
  /\ UNCHANGED <<sessionVars, backendVars, historyVars>>

\* The session's state is replaced by the response, and live events may follow.
Reopen(r) ==
  /\ At(r, "reopen") /\ Goto(r, "resync")
  /\ open' = [open EXCEPT ![Mine(r)] = TRUE]
  /\ closing' = [closing EXCEPT ![Mine(r)] = FALSE]
  /\ delivery' = Released(delivery, r)
  /\ UNCHANGED <<table, active, last, creation, gate, admission, backendVars, historyVars>>

\* The replay is done, or it failed: then a session this request inserted leaves.
Replay(r) ==
  /\ At(r, "replay")
  /\ \/ Finish(r, "ok") /\ UNCHANGED table
     \/ WasRegistered(r) /\ Fail(r) /\ UNCHANGED table
     \/ /\ ~WasRegistered(r) /\ Proceed(r, "leave")
        /\ table' = [table EXCEPT ![Id(r)] = Nobody]
  /\ UNCHANGED <<sessionVars, backendVars, historyVars>>

Leave(r) ==
  /\ At(r, "leave") /\ Fail(r)
  /\ subscribed' \in {subscribed, subscribed \ {Id(r)}}
  /\ UNCHANGED <<table, sessionVars, threads, turn, turns, news, historyVars>>

----------------------------------------------------------------------------
(* session/prompt *)

Started(i) ==
  /\ i \in subscribed /\ turn[i] = 0 /\ turns < MaxTurns
  /\ turns' = turns + 1 /\ turn' = [turn EXCEPT ![i] = turns + 1]
  /\ news' = [news EXCEPT ![i] = Append(@, [what |-> "started", of |-> turns + 1])]
  /\ UNCHANGED <<threads, subscribed>>

\* turn/steer when the session has a turn, or else turn/start.
Turn(r) ==
  /\ At(r, "turn")
  /\ \/ /\ Aim(r) # 0 /\ turn[Id(r)] = Aim(r) /\ Finish(r, "ok")
        /\ UNCHANGED backendVars
     \/ /\ Aim(r) = 0 /\ Started(Id(r))
        /\ Note(r, "record", turns + 1)
     \/ Aim(r) = 0 /\ Started(Id(r)) /\ Fail(r)
     \/ Fail(r) /\ UNCHANGED backendVars
  /\ UNCHANGED <<table, sessionVars, historyVars>>

\* The accepted turn becomes the session's, unless it is known to be over.
Record(r) ==
  LET a == Mine(r) IN
  /\ At(r, "record") /\ Finish(r, "ok")
  /\ active' = [active EXCEPT ![a] =
                  IF @ = 0 /\ last[a] # Aim(r) THEN Aim(r) ELSE @]
  /\ UNCHANGED <<table, open, closing, last, backendVars, historyVars>>

----------------------------------------------------------------------------
(* session/cancel, session/close, session/delete and the archive extension *)

\* delete: close the session, or archive a thread that is not open and not active.
Which(r) ==
  /\ At(r, "which")
  /\ \/ table[Id(r)] # Nobody /\ Proceed(r, "lookup")
     \/ table[Id(r)] = Nobody /\ turn[Id(r)] = 0 /\ Proceed(r, "archive")
     \/ table[Id(r)] = Nobody /\ Fail(r)
  /\ UNCHANGED <<table, sessionVars, backendVars, historyVars>>

BeginClosing(r) ==
  /\ At(r, "closing") /\ Proceed(r, "interrupt")
  /\ closing' = [closing EXCEPT ![Mine(r)] = TRUE]
  /\ UNCHANGED <<table, open, active, last, backendVars, historyVars>>

\* cancel_locked has nothing left to interrupt.
Cancelled(r) ==
  \/ Kind(r) = "cancel" /\ Finish(r, "ok")
  \/ Kind(r) # "cancel" /\ Proceed(r, "clean")

\* The session's turn is read...
Interrupt(r) ==
  /\ At(r, "interrupt")
  /\ \/ active[Mine(r)] = 0 /\ Cancelled(r)
     \/ /\ active[Mine(r)] # 0
        /\ Note(r, "interrupting", active[Mine(r)])
  /\ UNCHANGED <<table, sessionVars, backendVars, historyVars>>

\* ... and interrupted at the backend, which admits that before the turn ends
\* (TurnEnds).  A refusal is forgiven if the turn is over and fails otherwise, so
\* that either outcome may come whether the turn runs or not...
Interrupting(r) ==
  /\ At(r, "interrupting")
  /\ Proceed(r, "settle") \/ Fail(r)
  /\ UNCHANGED <<table, sessionVars, backendVars, historyVars>>

\* Mutant: the end of the turn is not waited for.
SettledAtOnce(r) == TRUE
Settled(r) == active[Mine(r)] # Aim(r)

\* Mutant: the wait has no timeout.
SettleForever(r) ==
  /\ At(r, "settle") /\ Settled(r) /\ Cancelled(r)
  /\ UNCHANGED <<table, sessionVars, backendVars, historyVars>>

\* ... and its end waited for, until the timeout.
Settle(r) ==
  /\ At(r, "settle")
  /\ (Settled(r) /\ Cancelled(r)) \/ Fail(r)
  /\ UNCHANGED <<table, sessionVars, backendVars, historyVars>>

\* Streams, descendants and background terminals.
Clean(r) ==
  /\ At(r, "clean")
  /\ \/ Proceed(r, IF Kind(r) = "archive" THEN "archive" ELSE "unsubscribe")
     \/ Fail(r)
  /\ UNCHANGED <<table, sessionVars, backendVars, historyVars>>

\* Mutant: a refusal to unsubscribe is ignored.
UnsubscribeLossy(r) ==
  /\ At(r, "unsubscribe") /\ Proceed(r, "shutdown")
  /\ subscribed' \in {subscribed, subscribed \ {Id(r)}}
  /\ UNCHANGED <<table, sessionVars, threads, turn, turns, news, historyVars>>
Unsubscribe(r) ==
  /\ At(r, "unsubscribe")
  /\ Attempt(r, subscribed \ {Id(r)}, "shutdown", Fail(r))
  /\ UNCHANGED <<table, sessionVars, historyVars>>

\* thread/archive: the backend unloads the thread.
Archive(r) ==
  /\ At(r, "archive")
  /\ \/ /\ subscribed' = subscribed \ {Id(r)} /\ turn' = [turn EXCEPT ![Id(r)] = 0]
        /\ \/ Kind(r) = "archive" /\ Proceed(r, "shutdown")
           \/ Kind(r) = "delete" /\ Finish(r, "ok")
           \/ Fail(r)
     \/ Fail(r) /\ UNCHANGED <<subscribed, turn>>
  /\ UNCHANGED <<table, sessionVars, threads, turns, news, historyVars>>

\* The leases are closed, the session is marked...
Shutdown(r) ==
  /\ At(r, "shutdown") /\ Proceed(r, "remove")
  /\ open' = [open EXCEPT ![Mine(r)] = FALSE]
  /\ UNCHANGED <<table, closing, active, last, backendVars, historyVars>>

\* ... and its id leaves the table; a delete goes on to archive, without the gate.
Remove(r) ==
  /\ At(r, "remove")
  /\ table' = [table EXCEPT ![Id(r)] = Nobody]
  /\ \/ Kind(r) = "delete" /\ Goto(r, "archive") /\ gate' = Released(gate, r)
        /\ UNCHANGED <<creation, admission, delivery>>
     \/ Kind(r) # "delete" /\ Finish(r, "ok")
     \/ Kind(r) # "archive" /\ Fail(r)
  /\ UNCHANGED <<sessionVars, backendVars, historyVars>>

----------------------------------------------------------------------------
(* Turns (external), and their notifications *)

Ended(i) ==
  /\ turn' = [turn EXCEPT ![i] = 0]
  /\ news' = [news EXCEPT ![i] =
                IF i \in subscribed
                THEN Append(@, [what |-> "completed", of |-> turn[i]]) ELSE @]
  /\ UNCHANGED <<threads, subscribed, turns>>

\* A turn ends, or the backend starts one that it had queued.
TurnEnds(i) ==
  /\ turn[i] # 0 /\ Ended(i)
  /\ UNCHANGED <<table, sessionVars, lockVars, req, historyVars>>

TurnStarts(i) ==
  /\ Started(i)
  /\ UNCHANGED <<table, sessionVars, lockVars, req, historyVars>>

\* owner_for_thread confirms an open session.
Owned(i) == table[i] # Nobody /\ open[table[i]]

\* Server::notification under the delivery lock, for the object now in the table.
Deliver(i) ==
  LET a == table[i]  event == Head(news[i]) IN
  /\ news[i] # <<>> /\ news' = [news EXCEPT ![i] = Tail(@)]
  /\ Owned(i) /\ delivery[a] = Nobody
  /\ \/ /\ event.what = "started"
        /\ active' = [active EXCEPT ![a] = event.of]
        /\ seen' = [seen EXCEPT ![a] = @ \union {event.of}]
        /\ UNCHANGED <<last, over>>
     \/ /\ event.what = "completed"
        /\ active' = [active EXCEPT ![a] = IF @ = event.of THEN 0 ELSE @]
        /\ last' = [last EXCEPT ![a] = event.of]
        /\ over' = [over EXCEPT ![a] = @ \union {event.of}]
        /\ UNCHANGED seen
  /\ UNCHANGED <<table, open, closing, lockVars, req, threads, subscribed, turn,
                 turns>>

\* Nobody owns the thread, or its session is not open: the event is dropped,
\* unless it is parked for a session that is being registered (EventDelivery).
Drop(i) ==
  /\ news[i] # <<>> /\ news' = [news EXCEPT ![i] = Tail(@)]
  /\ ~Owned(i) /\ \A r \in Requests : ~(At(r, "register") /\ Id(r) = i)
  /\ UNCHANGED <<table, sessionVars, lockVars, req, threads, subscribed, turn, turns,
                 historyVars>>

----------------------------------------------------------------------------
CreationStep(r) == TakeCreation(r) \/ Limit(r) \/ Setup(r) \/ Register(r)
ResumeStep(r) ==
  \/ Read(r) \/ Adopt(r) \/ Synchronize(r) \/ TakeDelivery(r) \/ Vacant(r) \/ Detach(r)
  \/ Shut(r) \/ Rejoin(r) \/ Withdraw(r) \/ Reopen(r) \/ Replay(r) \/ Leave(r)
PromptStep(r) == TakeAdmission(r) \/ Turn(r) \/ Record(r)
CloseStep(r) ==
  \/ Which(r) \/ BeginClosing(r) \/ Interrupt(r) \/ Interrupting(r) \/ Settle(r) \/ Clean(r)
  \/ Unsubscribe(r) \/ Archive(r) \/ Shutdown(r) \/ Remove(r)
RequestStep(r) ==
  \/ Lookup(r) \/ TakeGate(r) \/ Check(r)
  \/ CreationStep(r) \/ ResumeStep(r) \/ PromptStep(r) \/ CloseStep(r)

Next ==
  \/ \E r \in Requests : \E k \in AllKinds, i \in Ids \union {Nobody} : Begin(r, k, i)
  \/ \E r \in Requests : RequestStep(r)
  \/ \E i \in Ids : TurnEnds(i) \/ TurnStarts(i) \/ Deliver(i) \/ Drop(i)

Spec == Init /\ [][Next]_vars

\* Every request is a task of the runtime, and a call to the backend is answered
\* or times out.  Nothing is owed by the backend's turns or by the session queues.
Fairness == \A r \in Requests : WF_vars(RequestStep(r))

FairSpec == Spec /\ Fairness

----------------------------------------------------------------------------
(* Properties *)

\* Never more sessions than max_sessions, although the limit is checked long
\* before session/new, fork and a detached review insert theirs.
SessionLimit == Cardinality(OpenIds) <= MaxSessions

\* The inductive invariant behind the theorems of SessionLifecycleProofs.
\* What a request knows at each of its steps, which the steps rely on.
InUse == {"gate", "admission", "check", "closing", "interrupt", "sync", "delivery", "vacant",
          "detach", "shut", "rejoin", "withdraw", "reopen", "resync", "redeliver", "replay"}
Rejoining == {"adopt", "sync", "delivery", "vacant", "detach", "shut", "rejoin"}
Informed(r) ==
  /\ req[r].pc \notin {"idle", "done", "creation", "limit", "setup"} => Id(r) \in Ids
  /\ req[r].pc \in {"creation", "limit"} /\ Kind(r) # "new" => Id(r) \in Ids
  /\ req[r].pc \in InUse => Mine(r) \in Arcs
  /\ At(r, "lookup") => Kind(r) # "resume"
  /\ req[r].pc \in {"which", "admission"} => Kind(r) \notin Creators
  /\ req[r].pc \in Rejoining \/ (At(r, "gate") /\ Kind(r) = "resume") => Id(r) \in threads
\* A creation holds the creation gate from its grant to its end.
CreationHeld(r) ==
  /\ req[r].pc \in {"creation", "limit", "setup", "register", "read", "adopt"} =>
       Kind(r) \in Creators
  /\ req[r].pc \in {"read", "adopt"} => Kind(r) = "resume"
  /\ Kind(r) \in Creators /\ req[r].pc \notin {"idle", "creation", "done"} => creation = r
\* The room a creation has found stays until it uses it.
FoundRoom(r) ==
  \/ req[r].pc \in {"setup", "register"}
  \/ Kind(r) = "review" /\ req[r].pc \in {"lookup", "gate", "check"}
RoomKept(r) == FoundRoom(r) => Room

IInv ==
  /\ TypeOK /\ SessionLimit
  /\ \A r \in Requests : Informed(r) /\ CreationHeld(r) /\ RoomKept(r)

\* When close, delete or archive takes the session object it has closed off the table,
\* the session is detached at the backend, and no turn the client had seen running when
\* it asked still runs.  It says nothing of a request whose object has left the table
\* while it waited at the gate: sessions are removed by name (lifecycle.rs:374), so a
\* second close may take out what a resume has opened meanwhile, whose turn and streams
\* it has not ended, though README.md:183 has a successful close end them.
TornDown ==
  [][\A r \in Requests :
       (Remove(r) /\ table[Id(r)] = Mine(r)) =>
         /\ Id(r) \notin subscribed
         /\ turn[Id(r)] \notin Goal(r) \ {0}]_vars

\* A resume that detaches an open session never takes an announced, running
\* turn away from it, whatever was started since it looked.
ResumeSparesForeground ==
  [][\A r \in Requests : Detach(r) => turn[Id(r)] \notin seen[Mine(r)] \ {0}]_vars

\* A cancellation that succeeds has stopped every turn the client had seen
\* running when it asked.
CancelReaches ==
  [][\A r \in Requests :
       Kind(r) = "cancel" /\ req'[r].answer = "ok" =>
         turn[Id(r)] \notin Goal(r) \ {0}]_vars

\* Every request is answered: no circle of gates, locks and waits.
RequestsAnswered == \A r \in Requests : req[r].pc # "idle" ~> req[r].pc = "done"

\* codex_peer.py:170, "resume overrides require unsubscribing the existing thread
\* first": the backend ignores the overrides of a thread/resume otherwise.
ResumeDetached == \A r \in Requests : At(r, "rejoin") => Id(r) \notin subscribed

\* mod.rs:253, "session is not open on this connection; resume it first": a resume
\* that succeeds leaves its session open on this connection.
ResumeOpens ==
  [][\A r \in Requests :
       Kind(r) = "resume" /\ req'[r].answer = "ok" =>
         table'[Id(r)] # Nobody]_vars

\* lifecycle.rs:345, "The event pump records completed IDs to avoid resurrecting a
\* completed turn": no session has a turn whose end it was told of.
NoneResurrected == \A a \in Arcs : active[a] \notin over[a]

=============================================================================
