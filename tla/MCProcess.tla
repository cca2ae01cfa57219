------------------------------ MODULE MCProcess ------------------------------
(* What a process keeps outside its sessions, for TLC: native MCP connections (two
   connections of one listener, a client that may give both the same id, a message for
   that id) or, in other behaviours, the runtime cache it shares with other processes. *)
EXTENDS McpBridge, RuntimeCache

CONSTANTS server, one, two, message, provider, p, q, r, v1, v2

MCOn == [i \in Inits |-> server]
MCTo == [m \in Messages |-> provider]

MCVersionOf == [l \in Launchers |-> IF l = r THEN v2 ELSE v1]

VARIABLE part  \* which of the two a behaviour is of

MCInit ==
  /\ Init /\ CacheInit /\ part \in {"bridge", "cache"}
  /\ part = "cache" => elsewhere = 0
MCNext ==
  \/ part = "bridge" /\ Next /\ UNCHANGED <<cacheVars, part>>
  \/ part = "cache" /\ CacheNext /\ UNCHANGED <<vars, part>>
MCSpec == MCInit /\ [][MCNext]_<<vars, cacheVars, part>> /\ Fairness /\ CacheFairness
=============================================================================
