-------------------------- MODULE ExtensionRequests --------------------------
(***************************************************************************)
(* The way of a _codex/request to the backend: authorization               *)
(* (src/src/extensions.rs), the scope it gets and the wait for its         *)
(* session (src/src/server/extension_requests.rs), and the MCP event       *)
(* streams that a session owns (src/src/server/resources.rs).              *)
(*                                                                         *)
(* A request is authorized by what is open when it arrives, waits for its  *)
(* session's gate, and is sent; sessions close and are resumed meanwhile,  *)
(* also twice at once: whoever has found a session object keeps it, and    *)
(* takes a session off the table by its name.  Events of a stream name no  *)
(* thread: they go to the session that has claimed the stream's            *)
(* identifier.  What else these requests do is in SettingsSync and         *)
(* HistoryReplay, and what else a close or a resume does in                *)
(* SessionLifecycle and Descendants.                                       *)
(***************************************************************************)
EXTENDS Integers, Sequences

CONSTANTS
  Calls,
  SessionIds,      \* root threads, by which sessions are named
  Children,        \* threads that are no session's own, each of which
  Owner,           \* descends from a session
  Streams,         \* subscription identifiers
  Requests,        \* those that clients make
  AllowHost,       \* --allow-host-methods
  MaxObjects       \* bound: sessions opened

Nothing == "none"
Object == 1..MaxObjects

Classes == {"thread", "read", "turn", "start", "stop", "archive",  \* thread methods
            "delete", "shell",                  \* thread methods for the host only
            "resource",                         \* a thread method or a host method
            "host", "discovery", "lifecycle",
            "close", "resume"}                  \* session/close and session/resume

\* No extension requests: they only need their session.
Standard(r) == r.class \in {"close", "resume"}

\* Those that take their session off the table.
Teardown(r) == r.class \in {"close", "archive", "delete"}

\* Others fail before they are authorized; the parameters of a stop name a subscription
\* and no thread, and a close or a resume is of a session.
WellFormed(r) ==
  /\ r.class \in {"start", "stop"} => r.stream # Nothing
  /\ r.class = "stop" \/ Standard(r) => r.thread = Nothing
  /\ Standard(r) => r.session # Nothing

ASSUME ExtensionAssumption ==
  /\ "none" \notin SessionIds \union Children \union Streams \union Calls
  /\ \A r \in Requests : WellFormed(r)
  /\ Owner \in [Children -> SessionIds] /\ Children \intersect SessionIds = {}
  /\ AllowHost \in BOOLEAN /\ MaxObjects \in Nat \ {0}
  /\ Requests \subseteq [class : Classes, session : SessionIds \union {Nothing},
                         thread : SessionIds \union Children \union {Nothing},
                         stream : Streams \union {Nothing}]

VARIABLES
  call,      \* each request: what it is, where it is, its session's object
  objects,   \* ServerState.sessions: the object of each thread, or 0
  made,      \* objects made so far
  names,     \* Session.id of each
  live, closing,  \* objects with SessionData.open, SessionData.closing
  strays,    \* history: objects that were open while another, or none, was in the table
  gate,      \* Session.gate: the call that holds it
  claims,    \* ServerState.mcp_subscriptions
  stopping,  \* close_streams: the identifiers a call has left to stop
  wire,      \* what the backend has yet to carry out
  reply,     \* its verdict on a call that waits
  running    \* the backend's streams, and the thread of each

sessionVars == <<objects, made, names, live, closing, strays>>
backendVars   == <<wire, reply, running>>
requestVars == <<call, sessionVars, gate, claims, stopping, backendVars>>

NoRequest == [class |-> "host", session |-> Nothing, thread |-> Nothing, stream |-> Nothing]

RequestsInit ==
  /\ call = [c \in Calls |-> [at |-> "new", request |-> NoRequest, object |-> 0]]
  /\ objects = [t \in SessionIds |-> 0] /\ made = 0 /\ live = {} /\ closing = {}
  /\ names = [o \in Object |-> Nothing] /\ strays = {}
  /\ gate = [o \in Object |-> Nothing]
  /\ claims = [s \in Streams |-> Nothing] /\ stopping = [c \in Calls |-> {}]
  /\ wire = <<>> /\ reply = [c \in Calls |-> Nothing] /\ running = [s \in Streams |-> Nothing]

Request(c) == call[c].request
At(c, place) == call[c].at = place
Goes(c, place) == call' = [call EXCEPT ![c].at = place]
Owned == {t \in SessionIds : objects[t] # 0}

-----------------------------------------------------------------------------
(* ExtensionPolicy::authorize, and the scope of what it allows.            *)

ThreadMethod(r) ==
  \/ r.class \in {"thread", "read", "turn", "start", "stop", "archive", "delete", "shell"}
  \/ r.class = "resource" /\ r.thread # Nothing

HostMethod(r) ==
  \/ r.class \in {"host", "delete", "shell"}
  \/ r.class = "resource" /\ r.thread = Nothing

Supported(r) == ThreadMethod(r) \/ HostMethod(r) \/ r.class = "discovery"

\* Mutant: any open thread will do.
AgreeOwned(r) == ThreadMethod(r) \/ r.thread # Nothing => r.thread \in Owned

Agree(r) == ThreadMethod(r) \/ r.thread # Nothing => r.thread = r.session /\ r.thread # Nothing

Authorized(r) ==
  /\ r.class # "lifecycle" /\ Supported(r)
  /\ r.session # Nothing => r.session \in Owned
  /\ Agree(r)
  /\ HostMethod(r) => AllowHost

\* What is authorized in place of a request: a stop names the stream's owner
\* for its thread, and reading a descendant counts as reading its root.
Stands(r) ==
  IF r.class = "stop" THEN [r EXCEPT !.thread = claims[r.stream]]
  ELSE IF r.class = "read" /\ r.thread \in Children THEN [r EXCEPT !.thread = r.session]
  ELSE r

Founded(r) ==
  /\ r.class = "stop" => claims[r.stream] # Nothing /\ r.session = claims[r.stream]
  /\ r.class = "read" /\ r.session # Nothing /\ r.thread \in Children =>
       Owner[r.thread] = r.session /\ r.session \in Owned

Arrives(c, r) ==
  /\ At(c, "new")
  /\ call' = [call EXCEPT ![c] = [at |-> "arrived", request |-> r, object |-> 0]]
  /\ UNCHANGED <<sessionVars, gate, claims, stopping, backendVars>>

Scope(c) ==
  LET r == Request(c)
      lawful == Founded(r) /\ Authorized(Stands(r))
  IN /\ At(c, "arrived")
     /\ \/ Standard(r) /\ Goes(c, "look")
        \/ ~Standard(r) /\ lawful /\ Goes(c, IF ThreadMethod(r) THEN "look" ELSE "ready")
        \/ ~Standard(r) /\ ~lawful /\ Goes(c, "refused")
     /\ UNCHANGED <<sessionVars, gate, claims, stopping, backendVars>>

-----------------------------------------------------------------------------
(* The table.  A session is added by requests that hold the creation gate, *)
(* a resume to its end.                                                    *)

Resumes(c) == Request(c).class = "resume"

Creating ==
  \E c \in Calls : Resumes(c) /\ (call[c].at \in {"gate", "added", "attach", "reattach"}
                                 \/ call[c].at \in {"streams", "sent"})

Adds(t) ==
  /\ made < MaxObjects /\ made' = made + 1
  /\ objects' = [objects EXCEPT ![t] = made'] /\ names' = [names EXCEPT ![made'] = t]
  /\ live' = live \union {made'}
  /\ UNCHANGED <<closing, strays>>

\* By its name, whichever object that is; those closed are open no more.
Removes(t, closed) ==
  /\ objects' = [objects EXCEPT ![t] = 0] /\ live' = live \ closed
  /\ strays' = strays \union ({objects[t]} \ (closed \union {0}))
  /\ UNCHANGED <<made, names, closing>>

\* A new or forked session is of a thread that no session was of.
OpensSession(t) ==
  /\ ~Creating /\ (\A o \in Object : names[o] # t) /\ Adds(t)
  /\ UNCHANGED <<call, gate, claims, stopping, backendVars>>

-----------------------------------------------------------------------------
(* The session of a request in its scope.                                  *)

Finds(c, place, o) == call' = [call EXCEPT ![c] = [at |-> place, request |-> Request(c), object |-> o]]

FindSession(c) ==
  LET t == Request(c).session
  IN /\ At(c, "look") /\ (Resumes(c) => ~Creating)
     /\ \/ objects[t] # 0 /\ Finds(c, "gate", objects[t]) /\ UNCHANGED sessionVars
        \/ objects[t] = 0 /\ Resumes(c) /\ Adds(t) /\ Finds(c, "added", made')
        \/ objects[t] = 0 /\ ~Resumes(c) /\ Goes(c, "refused") /\ UNCHANGED sessionVars
     /\ UNCHANGED <<gate, claims, stopping, backendVars>>

\* Mutant: the session is not looked at again once the gate is held.
AdmitsAlways(o) == o \in Object

Admits(o) == o \in live /\ o \notin closing

\* The gate is left with the request.
Leave(c) == gate' = [o \in Object |-> IF gate[o] = c THEN Nothing ELSE gate[o]]
TakeGate(c) ==
  gate[call[c].object] = Nothing /\ gate' = [gate EXCEPT ![call[c].object] = c]

\* close_streams begins.
ListStreams(c) ==
  /\ stopping' = [stopping EXCEPT ![c] = {s \in Streams : claims[s] = Request(c).session}]
  /\ Goes(c, "streams")

Enter(c) ==
  LET o == call[c].object
      r == Request(c)
  IN /\ At(c, "gate") /\ ~Resumes(c)
     /\ \/ /\ r.class = "close" \/ Admits(o)
           /\ TakeGate(c)
           /\ \/ Teardown(r) /\ closing' = closing \union {o} /\ ListStreams(c)
              \/ /\ ~Teardown(r) /\ Goes(c, IF r.class = "start" THEN "claim" ELSE "ready")
                 /\ UNCHANGED <<closing, stopping>>
        \/ /\ r.class # "close" /\ ~Admits(o) /\ gate[o] = Nothing
           /\ Goes(c, "refused") /\ UNCHANGED <<gate, closing, stopping>>
     /\ UNCHANGED <<objects, made, names, live, strays, claims, backendVars>>

\* A resume does not ask whether the session is open, nor whether it is in the table
\* still; one that it has found there it detaches first.
EnterResume(c) ==
  /\ Resumes(c)
  /\ \/ At(c, "gate") /\ TakeGate(c) /\ ListStreams(c)
     \/ At(c, "added") /\ TakeGate(c) /\ Goes(c, "attach") /\ UNCHANGED stopping
     \/ \* it has foreground work
        /\ call[c].at \in {"gate", "added"} /\ gate[call[c].object] = Nothing
        /\ Goes(c, "refused") /\ UNCHANGED <<gate, stopping>>
  /\ UNCHANGED <<sessionVars, claims, backendVars>>

-----------------------------------------------------------------------------
(* Streams: start_stream, stop_stream, close_streams.                      *)

\* Claimed before the backend is asked: it may publish before it answers.
ClaimStream(c) ==
  LET r == Request(c)
  IN /\ At(c, "claim")
     /\ \/ /\ claims[r.stream] = Nothing
           /\ claims' = [claims EXCEPT ![r.stream] = r.session]
           /\ Goes(c, "ready") /\ UNCHANGED gate
        \/ /\ claims[r.stream] # Nothing
           /\ Goes(c, "refused") /\ Leave(c) /\ UNCHANGED claims
     /\ UNCHANGED <<sessionVars, stopping, backendVars>>

AnyOf(S) == CHOOSE s \in S : TRUE

\* What a call asks of the backend: to stop what it has left to stop, then its own.
Kind(c) == IF stopping[c] # {} THEN "stop" ELSE Request(c).class
StreamOf(c) == IF stopping[c] # {} THEN AnyOf(stopping[c]) ELSE Request(c).stream

Silenced(c) == At(c, "streams") /\ stopping[c] = {}

Send(c) ==
  /\ \/ At(c, "ready") \/ (At(c, "streams") /\ stopping[c] # {})
     \/ (Silenced(c) /\ Request(c).class \in {"archive", "delete"})
  /\ wire' = Append(wire, [kind |-> Kind(c), stream |-> StreamOf(c), by |-> c])
  /\ reply' = [reply EXCEPT ![c] = Nothing]
  /\ Goes(c, "sent")
  /\ UNCHANGED <<sessionVars, gate, claims, stopping, running>>

\* Mutant: a start that fails in any way gives its claim up.
UnclaimsOnFailure(kind, verdict) ==
  \/ kind = "start" /\ verdict # "ok"
  \/ kind = "stop" /\ verdict = "ok"

\* The verdicts that end a claim.  A time-out tells nothing of the stream.
Unclaims(kind, verdict) ==
  \/ kind = "start" /\ verdict = "rejected"
  \/ kind = "stop" /\ verdict = "ok"

Answered(c, verdict) ==
  LET ok == verdict = "ok"
      goesOn == ok /\ (stopping[c] # {} \/ Teardown(Request(c)))
  IN /\ At(c, "sent")
     /\ \/ verdict # "timeout" /\ reply[c] = verdict
        \/ verdict = "timeout" /\ reply[c] = Nothing
     /\ claims' = [s \in Streams |->
                     IF Unclaims(Kind(c), verdict) /\ s = StreamOf(c) THEN Nothing ELSE claims[s]]
     /\ \/ /\ goesOn /\ stopping' = [stopping EXCEPT ![c] = @ \ {StreamOf(c)}]
           /\ Goes(c, IF stopping[c] # {} THEN "streams" ELSE "end") /\ UNCHANGED gate
        \/ /\ ~goesOn /\ Goes(c, IF ok THEN "done" ELSE "failed") /\ Leave(c)
           /\ UNCHANGED stopping
     /\ UNCHANGED <<sessionVars, backendVars>>

-----------------------------------------------------------------------------
(* The end of a close, an archive, a delete and a resume.                  *)

TearsDown(c) ==
  /\ At(c, "end") \/ (Silenced(c) /\ Request(c).class = "close")
  /\ Removes(Request(c).session, {call[c].object})
  /\ Goes(c, "done") /\ Leave(c)
  /\ UNCHANGED <<claims, stopping, backendVars>>

Detaches(c) ==
  /\ Silenced(c) /\ Resumes(c)
  /\ live' = live \ {call[c].object} /\ Goes(c, "reattach")
  /\ UNCHANGED <<objects, made, names, closing, strays, gate, claims, stopping, backendVars>>

\* thread/resume; if the replay after it fails, an added session is taken out again.
Attaches(c) ==
  LET o == call[c].object
      t == Request(c).session
  IN /\ call[c].at \in {"attach", "reattach"}
     /\ live' = live \union {o} /\ closing' = closing \ {o}
     /\ \/ Goes(c, "done") /\ UNCHANGED objects
        \/ At(c, "attach") /\ Goes(c, "failed") /\ objects' = [objects EXCEPT ![t] = 0]
     /\ strays' = strays \union ({o, objects[t]} \ {0, objects'[t]})
     /\ Leave(c)
     /\ UNCHANGED <<made, names, claims, stopping, backendVars>>

\* Another of its requests fails.
Fails(c) ==
  /\ call[c].at \in {"streams", "reattach", "attach"}
  /\ \/ At(c, "attach") /\ Removes(Request(c).session, {})
     \/ ~At(c, "attach") /\ UNCHANGED sessionVars
  /\ Goes(c, "failed") /\ Leave(c)
  /\ UNCHANGED <<claims, stopping, backendVars>>

-----------------------------------------------------------------------------
(* Codex carries requests out in order; it may refuse any.                 *)

Verdict(c, verdict) ==
  reply' = IF At(c, "sent") THEN [reply EXCEPT ![c] = verdict] ELSE reply

CarriesOut ==
  /\ wire # <<>>
  /\ wire' = Tail(wire)
  /\ LET m == Head(wire)
     IN \/ /\ m.kind = "start" /\ running[m.stream] = Nothing
           /\ running' = [running EXCEPT ![m.stream] = Request(m.by).session]
           /\ Verdict(m.by, "ok")
        \/ /\ m.kind = "stop" /\ running[m.stream] # Nothing
           /\ running' = [running EXCEPT ![m.stream] = Nothing]
           /\ Verdict(m.by, "ok")
        \/ /\ m.kind \notin {"start", "stop"}
           /\ Verdict(m.by, "ok") /\ UNCHANGED running
        \/ /\ ~(m.kind = "stop" /\ running[m.stream] # Nothing)
           /\ Verdict(m.by, "rejected") /\ UNCHANGED running
  /\ UNCHANGED <<call, sessionVars, gate, claims, stopping>>

RequestsNext ==
  \/ CarriesOut
  \/ \E t \in SessionIds : OpensSession(t)
  \/ \E c \in Calls :
       \/ \E r \in Requests : Arrives(c, r)
       \/ Scope(c) \/ FindSession(c) \/ Enter(c) \/ EnterResume(c) \/ ClaimStream(c) \/ Send(c)
       \/ TearsDown(c) \/ Detaches(c) \/ Attaches(c) \/ Fails(c)
       \/ \E verdict \in {"ok", "rejected", "timeout"} : Answered(c, verdict)

RequestsSpec == RequestsInit /\ [][RequestsNext]_requestVars

-----------------------------------------------------------------------------
Call == [at : {"new", "arrived", "look", "gate", "added", "claim", "ready", "sent", "streams",
               "end", "attach", "reattach", "done", "refused", "failed"},
         request : Requests \union {NoRequest}, object : 0..MaxObjects]

\* Every variable has the type of what it stands for.
RequestsTypeOK ==
  /\ call \in [Calls -> Call]
  /\ made \in 0..MaxObjects /\ objects \in [SessionIds -> 0..made]
  /\ names \in [Object -> SessionIds \union {Nothing}]
  /\ live \subseteq 1..made /\ closing \subseteq 1..made /\ strays \subseteq 1..made
  /\ gate \in [Object -> Calls \union {Nothing}]
  /\ claims \in [Streams -> SessionIds \union {Nothing}]
  /\ running \in [Streams -> SessionIds \union {Nothing}]
  /\ reply \in [Calls -> {Nothing, "ok", "rejected"}]
  /\ stopping \in [Calls -> SUBSET Streams]
  /\ wire \in Seq([kind : Classes, stream : Streams \union {Nothing}, by : Calls])

\* Whatever publishes events can be routed: a stream that runs is claimed by
\* its own session (resources.rs:10), however starts and stops time out, fail,
\* or race each other, a close and a resume.
EventsRouted ==
  \A s \in Streams : running[s] # Nothing => claims[s] = running[s]

\* Where no object of a session is open, there is no stream of the session, running or
\* on its way: what a close or a failed resume has shut stays silent, whichever requests
\* were waiting at its gate, and with closes and resumes of one session racing.  It says
\* nothing of a session that is off the table while an object of it is open: one that a
\* resume opened again behind a close (lifecycle.rs:163), one that a second close removed
\* by its name (lifecycle.rs:374), and one whose resume failed (lifecycle.rs:190) are.
ClosedSilent ==
  \A t \in SessionIds : (\A o \in live : names[o] # t) =>
    /\ \A s \in Streams : running[s] # t
    /\ \A i \in 1..Len(wire) : wire[i].kind = "start" => Request(wire[i].by).session # t

\* A request about a thread reaches the backend only while the session object it found
\* is the named session's, open, and closing only if it is this request that closes it,
\* and if it is the one in the table, whatever has closed, resumed or replaced it during
\* the wait; the exception to the last are strays, of which no promise holds (README.md:414
\* demands an open session): a resume behind a close, a second close, or a resume that
\* failed has parted them from the table.  A request about the host takes the operator's
\* leave (extensions.rs:186).
Sent(c) == stopping[c] = {} /\ ~At(c, "sent") /\ call'[c].at = "sent"

ForwardedOwned ==
  [][\A c \in Calls : Sent(c) =>
       LET r == Request(c)
           o == call[c].object
       IN /\ HostMethod(r) => AllowHost
          /\ ThreadMethod(r) =>
               /\ o \in live /\ names[o] = r.session
               /\ objects[r.session] = o \/ o \in strays
               /\ o \in closing => Teardown(r)
               /\ \/ r.thread \in {r.session, Nothing}
                  \/ r.thread \in Children /\ Owner[r.thread] = r.session]_requestVars
=============================================================================
