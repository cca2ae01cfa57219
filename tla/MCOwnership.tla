----------------------------- MODULE MCOwnership -----------------------------
(* To whom threads and streams belong, for TLC: two sessions, and two threads of which
   their agents may spawn each, listed before and behind; or, in other behaviours, three
   requests to two sessions that compete for one stream identifier. *)
EXTENDS Descendants, ExtensionRequests

CONSTANTS a, b, c, d
MCThreads == <<c, a, d, b>>

CONSTANTS kid, x, y, z, s1
MCOwner == [t \in {kid} |-> a]

R(class, session, thread, stream) ==
  [class |-> class, session |-> session, thread |-> thread, stream |-> stream]
StreamRequests ==
  {R("start", t, t, s1) : t \in {a, b}} \cup {R("stop", t, None, s1) : t \in {a, b}}
    \cup {R("close", a, None, None), R("resume", a, None, None),
         R("archive", b, b, None)}
OtherRequests ==
  {R("turn", a, b, None), R("read", a, kid, None), R("read", b, kid, None),
   R("resource", None, None, None)}
MCRequests == StreamRequests \cup OtherRequests

VARIABLE part  \* which of the two a behaviour is of

MCInit == Init /\ RequestsInit /\ part \in {"threads", "requests"}
MCNext ==
  \/ part = "threads" /\ Next /\ UNCHANGED <<requestVars, part>>
  \/ part = "requests" /\ RequestsNext /\ UNCHANGED <<vars, part>>
MCSpec == MCInit /\ [][MCNext]_<<vars, requestVars, part>>
=============================================================================
