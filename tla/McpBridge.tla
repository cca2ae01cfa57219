------------------------------ MODULE McpBridge ------------------------------
(***************************************************************************)
(* Native MCP connections: McpManager (src/src/mcp/mod.rs), the listener   *)
(* of a declaration (listener.rs), its leases (resources.rs) and the       *)
(* handlers of its HTTP requests (http.rs).                                *)
(*                                                                         *)
(* An HTTP initialize connects to the client through a detached task,      *)
(* relays the request and enters its connection in the listener's table.   *)
(* The ProviderLease of a connection is with that task, with the handler,  *)
(* in the table, or with the cleanup that ends it; it keeps a permit of    *)
(* the listener and a slot of the manager.  Meanwhile the client sends      *)
(* messages to connections by id, an HTTP client deletes its session, and  *)
(* the session that owns the listener closes it.                           *)
(*                                                                         *)
(* These tasks run in parallel: a step ends where a lock or an answer is   *)
(* awaited, and where a flag is read that another task writes.             *)
(***************************************************************************)
EXTENDS Integers, FiniteSets

CONSTANTS
  Listeners,    \* one for every native declaration
  Inits,        \* HTTP initialize requests, each with the connection it makes
  On,           \* the listener each is sent to
  Ids,          \* connection ids the client gives
  Messages,     \* mcp/message requests of the client, for the MCP client in Codex
  To,           \* the connection id of each
  MaxConnections,  \* native connections of the process (128)
  MaxSessions      \* HTTP sessions of a listener (32)

None == "none"

ASSUME BridgeAssumption ==
  /\ On \in [Inits -> Listeners] /\ To \in [Messages -> Ids]
  /\ IsFiniteSet(Inits) /\ None \notin Ids \union Inits
  /\ {MaxConnections, MaxSessions} \subseteq Nat \ {0}

VARIABLES
  shutdown,    \* Listener.shutdown
  closing,     \* what Listener.close is at
  batch,       \* the leases it has taken out of the table
  handler,     \* the handler of every initialize
  task,        \* the detached connect of each
  id,          \* Endpoint.connection_id
  permits,     \* connections holding a permit of their listener...
  slots,       \* ... and one of the manager's
  elsewhere,   \* how many of those other sessions hold all the while
  connecting,  \* McpManager.connecting
  endpoints,   \* McpManager.endpoints: which connection has an id
  sessions,    \* connections in the table of their listener
  down,        \* Endpoint.shutdown
  cleanup,     \* ProviderCleanup.close
  rescue,      \* connections an overflow has spawned a disconnect for
  ending,      \* Endpoint.disconnected and disconnect_result
  told,        \* history: mcp/disconnect requests sent
  lookup,      \* what the handler of every message is at
  woken,       \* handlers McpManager.changed has notified
  found,       \* the connection a handler has found
  entry,       \* the entry of a request in Endpoint.pending
  verdict      \* what became of every message

listenerVars == <<shutdown, closing, batch>>
poolVars     == <<permits, slots, elsewhere>>
endVars      == <<cleanup, rescue, ending, told>>
lookupVars   == <<lookup, woken, found>>
replyVars    == <<entry, verdict>>
vars == <<listenerVars, handler, task, id, poolVars, connecting, endpoints, sessions,
          down, endVars, lookupVars, replyVars>>

Of(l) == {i \in Inits : On[i] = l}

\* Types, and the limits on connections and on the sessions of a listener.
TypeOK ==
  /\ Cardinality(slots) + elsewhere <= MaxConnections
  /\ \A l \in Listeners : Cardinality(permits \intersect Of(l)) <= MaxSessions
  /\ shutdown \in [Listeners -> BOOLEAN]
  /\ closing \in [Listeners -> {"open", "drain", "wait", "closed", "late"}]
  /\ batch \in [Listeners -> SUBSET Inits]
  /\ handler \in [Inits -> {"idle", "connecting", "relaying", "done"}]
  /\ task \in [Inits -> {None, "admitted", "asked", "answered", "made", "returned",
                         "over"}]
  /\ id \in [Inits -> Ids \union {None}]
  /\ permits \subseteq Inits /\ slots \subseteq Inits /\ elsewhere \in 0 .. MaxConnections
  /\ connecting \in 0 .. Cardinality(Inits)
  /\ endpoints \in [Ids -> Inits \union {None}]
  /\ sessions \subseteq Inits /\ down \subseteq Inits
  /\ cleanup \in [Inits -> {None, "removing", "waiting", "done"}]
  /\ rescue \subseteq Inits
  /\ ending \in [Inits -> {None, "asked", "over"}]
  /\ told \in [Inits -> Nat]
  /\ lookup \in [Messages -> {"idle", "checking", "waiting", "publishing", "asking",
                              "done"}]
  /\ woken \subseteq Messages
  /\ entry \in [Messages -> {None, "pending", "replied"}]
  /\ found \in [Messages -> Inits \union {None}]
  /\ verdict \in [Messages -> {None, "answer", "closed", "full", "unknown", "late",
                              "withdrawn"}]

Init ==
  /\ shutdown = [l \in Listeners |-> FALSE]
  /\ closing = [l \in Listeners |-> "open"] /\ batch = [l \in Listeners |-> {}]
  /\ handler = [i \in Inits |-> "idle"] /\ task = [i \in Inits |-> None]
  /\ id = [i \in Inits |-> None]
  /\ permits = {} /\ slots = {} /\ elsewhere \in {0, MaxConnections} /\ connecting = 0
  /\ endpoints = [x \in Ids |-> None]
  /\ sessions = {} /\ down = {}
  /\ cleanup = [i \in Inits |-> None] /\ rescue = {}
  /\ ending = [i \in Inits |-> None] /\ told = [i \in Inits |-> 0]
  /\ lookup = [m \in Messages |-> "idle"] /\ woken = {}
  /\ entry = [m \in Messages |-> None]
  /\ found = [m \in Messages |-> None] /\ verdict = [m \in Messages |-> None]

Handles(i, from, to) == handler[i] = from /\ handler' = [handler EXCEPT ![i] = to]
Works(i, from, to) == task[i] = from /\ task' = [task EXCEPT ![i] = to]

\* Mutant: only an explicit close ends a connection.
DropLeaseQuietly(i) == down' = down \union {i} /\ UNCHANGED cleanup
\* Dropping a ProviderLease, or closing it: the endpoint shuts down, and a task
\* of its own ends it, whether or not somebody waits for that.
DropLease(i) ==
  /\ down' = down \union {i}
  /\ cleanup' = [cleanup EXCEPT ![i] = "removing"]

Room(i) == Cardinality(permits \intersect Of(On[i])) < MaxSessions

----------------------------------------------------------------------------
(* HTTP initialize: message of http.rs, Listener::connect and register *)

\* Mutant: the listener's shutdown is not looked at with the table locked.
AdmissibleAlways(i) == Room(i)
Admissible(i) == ~shutdown[On[i]] /\ Room(i)

\* Under the lock of the table, so that close, which drains it, sees the permit.
Admit(i) ==
  /\ \/ /\ Admissible(i) /\ Handles(i, "idle", "connecting")
        /\ permits' = permits \union {i}
        /\ task' = [task EXCEPT ![i] = "admitted"]
     \/ ~Admissible(i) /\ Handles(i, "idle", "done") /\ UNCHANGED <<permits, task>>
  /\ UNCHANGED <<listenerVars, id, slots, elsewhere, connecting, endpoints, sessions,
                 down, endVars, lookupVars, replyVars>>

\* The handler ends without registering: the HTTP client leaves, the answer has no
\* result, its time is up, or the listener shuts down.  Its lease goes with it.
Abandon(i) ==
  /\ \/ Handles(i, "connecting", "done") /\ UNCHANGED <<down, cleanup>>
     \/ Handles(i, "relaying", "done") /\ DropLease(i)
  /\ UNCHANGED <<listenerVars, task, id, poolVars, connecting, endpoints, sessions,
                 rescue, ending, told, lookupVars, replyVars>>

Registrable(i) == ~shutdown[On[i]] /\ i \notin down

\* The client has answered the relayed request.
Register(i) ==
  /\ Handles(i, "relaying", "done")
  /\ \/ /\ Registrable(i)
        /\ sessions' = sessions \union {i}
        /\ UNCHANGED <<down, cleanup>>
     \/ ~Registrable(i) /\ DropLease(i) /\ UNCHANGED sessions
  /\ UNCHANGED <<listenerVars, task, id, poolVars, connecting, endpoints, rescue,
                 ending, told, lookupVars, replyVars>>

----------------------------------------------------------------------------
(* The detached connect: McpManager::connect *)

\* What a task that fails gives back.
Fails(i) ==
  /\ task' = [task EXCEPT ![i] = "over"]
  /\ handler' = [handler EXCEPT ![i] = IF @ = "connecting" THEN "done" ELSE @]
  /\ permits' = permits \ {i} /\ slots' = slots \ {i} /\ UNCHANGED elsewhere

\* Mutant: handlers that wait are not told.
NotifyNobody == UNCHANGED woken
\* Notify::notify_waiters, for those that look or wait.
Notify == woken' = woken \union {m \in Messages : lookup[m] \in {"checking", "waiting"}}

SlotFree == Cardinality(slots) + elsewhere < MaxConnections

Ask(i) ==
  /\ task[i] = "admitted"
  /\ \/ /\ SlotFree
        /\ slots' = slots \union {i} /\ connecting' = connecting + 1
        /\ Works(i, "admitted", "asked") /\ UNCHANGED <<handler, permits, elsewhere>>
     \/ ~SlotFree /\ Fails(i) /\ UNCHANGED connecting
  /\ UNCHANGED <<listenerVars, id, endpoints, sessions, down, endVars,
                 lookupVars, replyVars>>

\* The client's answer gives any id, also one it has given before.
ClientConnects(i, x) ==
  /\ Works(i, "asked", "answered")
  /\ id' = [id EXCEPT ![i] = x]
  /\ UNCHANGED <<listenerVars, handler, poolVars, connecting, endpoints, sessions,
                 down, endVars, lookupVars, replyVars>>

\* It refuses or does not answer in time.
ConnectFails(i) ==
  /\ task[i] = "asked" /\ Fails(i)
  /\ connecting' = connecting - 1 /\ Notify
  /\ UNCHANGED <<listenerVars, id, endpoints, sessions, down, endVars,
                 lookup, found, replyVars>>

\* With the endpoints locked.
Insert(i) ==
  /\ task[i] = "answered"
  /\ \/ /\ endpoints[id[i]] = None
        /\ Works(i, "answered", "made")
        /\ endpoints' = [endpoints EXCEPT ![id[i]] = i]
        /\ UNCHANGED <<handler, poolVars, connecting, woken>>
     \/ /\ endpoints[id[i]] # None
        /\ Fails(i) /\ connecting' = connecting - 1 /\ Notify
        /\ UNCHANGED endpoints
  /\ UNCHANGED <<listenerVars, id, sessions, down, endVars, lookup, found,
                 replyVars>>

\* Connecting::drop, behind the insertion.
Uncount(i) ==
  /\ Works(i, "made", "returned") /\ Notify
  /\ connecting' = connecting - 1
  /\ UNCHANGED <<listenerVars, handler, id, poolVars, endpoints, sessions, down,
                 endVars, lookup, found, replyVars>>

\* The lease goes to the handler, or, if that is gone or the listener shuts down, away.
HandOver(i) ==
  /\ Works(i, "returned", "over")
  /\ \/ /\ ~shutdown[On[i]] /\ Handles(i, "connecting", "relaying")
        /\ UNCHANGED <<down, cleanup>>
     \/ /\ shutdown[On[i]] \/ handler[i] # "connecting"
        /\ handler' = [handler EXCEPT ![i] = "done"] /\ DropLease(i)
  /\ UNCHANGED <<listenerVars, id, poolVars, connecting, endpoints, sessions,
                 rescue, ending, told, lookupVars, replyVars>>

----------------------------------------------------------------------------
(* The end of a connection *)

\* Mutant: nobody remembers that the client has been asked.
DisconnectAgain(i) ==
  /\ told' = [told EXCEPT ![i] = @ + 1]
  /\ ending' = [ending EXCEPT ![i] = "asked"]
\* Endpoint::disconnect, up to the wait for its result.
Disconnect(i) ==
  \/ /\ ending[i] = None
     /\ told' = [told EXCEPT ![i] = @ + 1]
     /\ ending' = [ending EXCEPT ![i] = "asked"]
  \/ ending[i] # None /\ UNCHANGED <<told, ending>>

\* ProviderCleanup::close: out of the endpoints by its id, where its reverse requests
\* are answered too, and then disconnected.
End(i) ==
  /\ cleanup[i] = "removing" /\ cleanup' = [cleanup EXCEPT ![i] = "waiting"]
  /\ endpoints' = [endpoints EXCEPT ![id[i]] = None]
  /\ entry' = [m \in Messages |-> IF found[m] = i /\ entry[m] = "pending" THEN None ELSE entry[m]]
  /\ Disconnect(i)
  /\ UNCHANGED <<listenerVars, handler, task, id, poolVars, connecting, sessions, down,
                 rescue, lookupVars, verdict>>

Rescue(i) ==
  /\ i \in rescue
  /\ rescue' = rescue \ {i} /\ Disconnect(i)
  /\ UNCHANGED <<listenerVars, handler, task, id, poolVars, connecting, endpoints, sessions,
                 down, cleanup, lookupVars, replyVars>>

\* The client answers, or its time is up.
Ended(i) ==
  /\ ending[i] = "asked" /\ ending' = [ending EXCEPT ![i] = "over"]
  /\ UNCHANGED <<listenerVars, handler, task, id, poolVars, connecting, endpoints, sessions,
                 down, cleanup, rescue, told, lookupVars, replyVars>>

Finishable(i) == cleanup[i] = "waiting" /\ ending[i] = "over"

Finish(i) ==
  /\ Finishable(i)
  /\ cleanup' = [cleanup EXCEPT ![i] = "done"]
  /\ permits' = permits \ {i} /\ slots' = slots \ {i}
  /\ UNCHANGED <<listenerVars, handler, task, id, elsewhere, connecting, endpoints, sessions,
                 down, rescue, ending, told, lookupVars, replyVars>>

\* Out of its listener's table, by an HTTP DELETE...
Delete(i) ==
  /\ i \in sessions /\ sessions' = sessions \ {i} /\ DropLease(i)
  /\ UNCHANGED <<listenerVars, handler, task, id, poolVars, connecting, endpoints, rescue,
                 ending, told, lookupVars, replyVars>>

\* ... or, of a connection that shuts down by itself, by the task register leaves behind.
Retire(i) == i \in down /\ Delete(i)

----------------------------------------------------------------------------
(* The end of a listener: Lease, ListenerCleanup and Listener::close *)

CloseBegins(l) ==
  /\ closing[l] = "open" /\ closing' = [closing EXCEPT ![l] = "drain"]
  /\ shutdown' = [shutdown EXCEPT ![l] = TRUE]
  /\ UNCHANGED <<batch, handler, task, id, poolVars, connecting, endpoints, sessions,
                 down, endVars, lookupVars, replyVars>>

CloseDrains(l) ==
  LET taken == sessions \intersect Of(l) IN
  /\ closing[l] = "drain" /\ closing' = [closing EXCEPT ![l] = "wait"]
  /\ batch' = [batch EXCEPT ![l] = taken] /\ sessions' = sessions \ taken
  /\ down' = down \union taken
  /\ cleanup' = [i \in Inits |-> IF i \in taken THEN "removing" ELSE cleanup[i]]
  /\ UNCHANGED <<shutdown, handler, task, id, poolVars, connecting, endpoints,
                 rescue, ending, told, lookupVars, replyVars>>

\* First for these leases, then two seconds for every permit, also of connections that
\* were on their way.
CloseEnds(l) ==
  /\ closing[l] = "wait" /\ \A i \in batch[l] : cleanup[i] = "done"
  /\ \/ permits \intersect Of(l) = {} /\ closing' = [closing EXCEPT ![l] = "closed"]
     \/ closing' = [closing EXCEPT ![l] = "late"]
  /\ UNCHANGED <<shutdown, batch, handler, task, id, poolVars, connecting, endpoints,
                 sessions, down, endVars, lookupVars, replyVars>>

----------------------------------------------------------------------------
(* Requests of the client: McpManager::request, endpoint and Endpoint::publish *)

Looks(m, from, to) == lookup[m] = from /\ lookup' = [lookup EXCEPT ![m] = to]

\* Notified::enable, before it looks: it will hear of what changes from here on.
Enable(m) ==
  /\ woken' = woken \ {m}
  /\ UNCHANGED <<listenerVars, handler, task, id, poolVars, connecting, endpoints, sessions,
                 down, endVars, found, replyVars>>

MessageArrives(m) == Looks(m, "idle", "checking") /\ Enable(m)
Wake(m) == m \in woken /\ Looks(m, "waiting", "checking") /\ Enable(m)

\* Mutant: connections on their way do not count.
UnknownNow(m) == endpoints[To[m]] = None
Unknown(m) == endpoints[To[m]] = None /\ connecting = 0

\* With the endpoints locked.  What has found a connection listens no more.
Check(m) ==
  /\ \/ /\ endpoints[To[m]] # None /\ Looks(m, "checking", "publishing")
        /\ found' = [found EXCEPT ![m] = endpoints[To[m]]]
        /\ woken' = woken \ {m} /\ UNCHANGED verdict
     \/ /\ Unknown(m) /\ Looks(m, "checking", "done")
        /\ verdict' = [verdict EXCEPT ![m] = "unknown"]
        /\ woken' = woken \ {m} /\ UNCHANGED found
     \/ /\ endpoints[To[m]] = None /\ ~Unknown(m) /\ Looks(m, "checking", "waiting")
        /\ UNCHANGED <<found, verdict, woken>>
  /\ UNCHANGED <<listenerVars, handler, task, id, poolVars, connecting, endpoints, sessions,
                 down, endVars, entry>>

LookupTimesOut(m) ==
  /\ Looks(m, "waiting", "done") /\ verdict' = [verdict EXCEPT ![m] = "late"]
  /\ woken' = woken \ {m}
  /\ UNCHANGED <<listenerVars, handler, task, id, poolVars, connecting, endpoints, sessions,
                 down, endVars, found, entry>>

\* A message enters the connection's queue; one that is too long, or that meets a
\* full queue, ends the connection: none is lost silently.
Deposit(i, fits) ==
  \/ i \notin down /\ fits /\ UNCHANGED <<down, rescue>>
  \/ i \notin down /\ ~fits /\ down' = down \union {i} /\ rescue' = rescue \union {i}
  \/ i \in down /\ ~fits /\ UNCHANGED <<down, rescue>>

\* The request gets an entry, unless 32 others have one, and goes into the queue.
Publish(m) ==
  /\ \/ /\ Deposit(found[m], TRUE) /\ Looks(m, "publishing", "asking")
        /\ entry' = [entry EXCEPT ![m] = "pending"] /\ UNCHANGED verdict
     \/ /\ Deposit(found[m], FALSE) /\ Looks(m, "publishing", "done")
        /\ verdict' = [verdict EXCEPT ![m] = "closed"] /\ UNCHANGED entry
     \/ /\ Looks(m, "publishing", "done") /\ UNCHANGED <<down, rescue, entry>>
        /\ verdict' = [verdict EXCEPT ![m] = "full"]
  /\ UNCHANGED <<listenerVars, handler, task, id, poolVars, connecting, endpoints, sessions,
                 cleanup, ending, told, woken, found>>

\* Other messages for a connection: the one that does not fit.
Overflow(i) ==
  /\ \E x \in Ids : endpoints[x] = i
  /\ i \notin down /\ Deposit(i, FALSE)
  /\ UNCHANGED <<listenerVars, handler, task, id, poolVars, connecting, endpoints, sessions,
                 cleanup, ending, told, lookupVars, replyVars>>

\* relay: a response posted by Codex takes the request out of the table, a malformed one
\* too, after which the client gets an error for an answer (http.rs:163).
Reply(m) ==
  /\ entry[m] = "pending" /\ found[m] \in sessions
  /\ entry' = [entry EXCEPT ![m] = "replied"]
  /\ UNCHANGED <<listenerVars, handler, task, id, poolVars, connecting, endpoints, sessions,
                 down, endVars, lookupVars, verdict>>

\* The select of request: the answer, its entry gone with the table, or shutdown.
Settles(m, how) ==
  \/ how = "answer" /\ entry[m] = "replied"
  \/ how = "closed" /\ entry[m] = None
  \/ how = "closed" /\ found[m] \in down

\* Mutant: a request that is given up is only taken out of the table.
WithdrawQuietly(m, how) ==
  verdict' = [verdict EXCEPT ![m] = how] /\ UNCHANGED <<down, rescue>>
\* Pending::drop: a request that still has its entry is also cancelled in Codex.
Withdraw(m, how) ==
  \/ /\ entry[m] # "pending" /\ verdict' = [verdict EXCEPT ![m] = how]
     /\ UNCHANGED <<down, rescue>>
  \/ /\ entry[m] = "pending" /\ Deposit(found[m], TRUE)
     /\ verdict' = [verdict EXCEPT ![m] = "withdrawn"]
  \/ /\ entry[m] = "pending" /\ Deposit(found[m], FALSE)
     /\ verdict' = [verdict EXCEPT ![m] = how]

EndRequest(m, how) ==
  /\ Looks(m, "asking", "done") /\ Withdraw(m, how)
  /\ entry' = [entry EXCEPT ![m] = None]
  /\ UNCHANGED <<listenerVars, handler, task, id, poolVars, connecting, endpoints, sessions,
                 cleanup, ending, told, woken, found>>

Settled(m) == \E how \in {"answer", "closed"} : Settles(m, how) /\ EndRequest(m, how)

\* Its timer, or the client cancels it.
GivenUp(m) == EndRequest(m, "late")

----------------------------------------------------------------------------
ConnectStep(i) == Ask(i) \/ Insert(i) \/ Uncount(i) \/ HandOver(i)
Connected(i) == ConnectFails(i) \/ \E x \in Ids : ClientConnects(i, x)
HandlerStep(i) == Abandon(i) \/ Register(i)
EndStep(i) == End(i) \/ Rescue(i) \/ Finish(i) \/ Retire(i)
CloseStep(l) == CloseDrains(l) \/ CloseEnds(l)
LookupStep(m) == Check(m) \/ Wake(m) \/ Publish(m) \/ Settled(m)

Next ==
  \/ \E i \in Inits :
       \/ Admit(i) \/ HandlerStep(i) \/ ConnectStep(i) \/ Connected(i)
       \/ EndStep(i) \/ Ended(i) \/ Delete(i) \/ Overflow(i)
  \/ \E l \in Listeners : CloseBegins(l) \/ CloseStep(l)
  \/ \E m \in Messages :
       \/ MessageArrives(m) \/ LookupStep(m) \/ LookupTimesOut(m) \/ Reply(m) \/ GivenUp(m)

Spec == Init /\ [][Next]_vars

\* Tasks run, and what asks the client ends by a timer at the latest.  The timers of
\* the client's own requests are not counted on, nor an answer to them.
Fairness ==
  /\ \A i \in Inits :
       /\ WF_vars(ConnectStep(i)) /\ WF_vars(Connected(i)) /\ WF_vars(HandlerStep(i))
       /\ WF_vars(EndStep(i)) /\ WF_vars(Ended(i))
  /\ \A l \in Listeners : WF_vars(CloseStep(l))
  /\ \A m \in Messages : WF_vars(LookupStep(m))
FairSpec == Spec /\ Fairness

----------------------------------------------------------------------------
(* Properties *)

\* Whoever ends a connection, and whoever else does too (the HTTP client, the
\* session's close, an overflow, a handler that is dropped): the client is asked to
\* disconnect once, and before the connection's permit and slot can be used again.
DisconnectedOnce ==
  \A i \in Inits :
    /\ told[i] <= 1
    /\ task[i] \in {"made", "returned"} => i \in permits
    /\ task[i] = "over" /\ i \notin permits /\ id[i] # None =>
         ending[i] = "over" \/ cleanup[i] = None

\* A close that came to its end has left nothing behind and lets nothing in:
\* no connection of the listener, no entry of one, nor a connect on its way.
ClosedForGood ==
  \A l \in Listeners : closing[l] = "closed" =>
    \A i \in Of(l) :
      /\ i \notin permits /\ i \notin sessions
      /\ task[i] \in {None, "over"} /\ handler[i] \in {"idle", "done"}
      /\ \A x \in Ids : endpoints[x] # i

\* A message that follows the answer to a connect reaches that connection, or learns
\* that it is closed; it is never told that there is none.  A connect that is answered
\* after its time was up makes no connection, and is not spoken of.
ConnectedIsKnown ==
  [][\A m \in Messages : verdict[m] # "unknown" /\ verdict'[m] = "unknown" =>
       ~\E i \in Inits :
          /\ id[i] = To[m] /\ i \notin down
          /\ \/ task[i] \in {"answered", "made", "returned"}
             \/ handler[i] = "relaying" \/ i \in sessions]_vars

\* A connection that shuts down, or whose listener does, gives back what it holds.
PermitsReturn ==
  \A i \in Inits : i \in permits /\ (i \in down \/ shutdown[On[i]]) ~> i \notin permits

\* A request the client gave up, or whose time was up, does not go on in Codex: it
\* leaves asking answered or cancelled there, or with its connection over.
GivenUpIsWithdrawn ==
  [][\A m \in Messages : lookup[m] = "asking" /\ lookup'[m] = "done" =>
       entry[m] = "replied" \/ verdict'[m] = "withdrawn" \/ found[m] \in down']_vars

\* A request for a connection that is being made, or that is over, ends without a timer.
RequestsEnd ==
  \A m \in Messages :
    /\ lookup[m] = "checking" ~> lookup[m] \in {"asking", "done"}
    /\ lookup[m] = "asking" /\ found[m] \in down ~> lookup[m] = "done"
=============================================================================
