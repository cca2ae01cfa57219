------------------------------ MODULE MCServing ------------------------------
(* How the server goes on, for TLC: events of an open session, its subagent and a session
   being created, while a caller synchronizes and replays; or, in other behaviours, two
   requests that compete for the locks of their sessions. *)
EXTENDS EventDelivery

CONSTANTS parent, child, x, f

MCRoot == [t \in Threads |-> IF t = child THEN parent ELSE t]
MCTarget == [g \in Fences |-> parent]

CONSTANTS s, made, p, q, Kinds, MaxSessions, MaxTurns, Missing
VARIABLES
  table, open, closing, active, last, creating, gate, admission, delivery, req, threads,
  subscribed, turn, turns, news, seen, over
requestVars ==
  <<table, open, closing, active, last, creating, gate, admission, delivery, req, threads,
    subscribed, turn, turns, news, seen, over>>

Lifecycle == INSTANCE SessionLifecycle WITH
  Ids <- {s, made}, Stored <- {s}, Opened <- {s}, Requests <- {p, q}, Nobody <- Missing,
  creation <- creating

VARIABLE part  \* which of the two a behaviour is of

MCInit == Init /\ Lifecycle!Init /\ part \in {"events", "requests"}
MCNext ==
  \/ part = "events" /\ Next /\ UNCHANGED <<requestVars, part>>
  \/ part = "requests" /\ Lifecycle!Next /\ UNCHANGED <<vars, part>>
MCSpec ==
  MCInit /\ [][MCNext]_<<vars, requestVars, part>> /\ Fairness /\ Lifecycle!Fairness

RequestsAnswered == Lifecycle!RequestsAnswered
=============================================================================
