--------------------------- MODULE MCEventDelivery ---------------------------
(* Instances of EventDelivery for TLC: an open session with a subagent thread,
   a session being created, and callers of synchronize_session. *)
EXTENDS EventDelivery

CONSTANTS a, child, x, f

MCRoot == [t \in Threads |-> IF t = child THEN a ELSE t]
MCTarget == [g \in Fences |-> a]
=============================================================================
