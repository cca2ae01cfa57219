------------------------------ MODULE RpcPromise ------------------------------
(***************************************************************************)
(* What the Backend promises to the tasks that call it, with no queues, no *)
(* frames and no tasks of its own: a bounded set of calls is open while    *)
(* the link is up; every open call leaves that set once, with one verdict  *)
(* that never changes; and the link goes down once, taking every open call *)
(* with it.                                                                *)
(***************************************************************************)
EXTENDS Naturals, FiniteSets

CONSTANTS
  Calls,   \* the calls that can be made
  Limit    \* how many may be open at once

VARIABLES
  link,     \* "up" or "down"
  open,     \* the calls awaiting a verdict
  verdict   \* "none", "answered", "failed" or "down"

vars == <<link, open, verdict>>

Init ==
  /\ link = "up"
  /\ open = {}
  /\ verdict = [c \in Calls |-> "none"]

\* A call is admitted, or refused because the link is down or the limit is reached.
Open(c) ==
  /\ link = "up" /\ c \notin open /\ verdict[c] = "none" /\ Cardinality(open) < Limit
  /\ open' = open \union {c}
  /\ UNCHANGED <<link, verdict>>

Refuse(c) ==
  /\ link = "down" \/ Cardinality(open) >= Limit
  /\ c \notin open /\ verdict[c] = "none"
  /\ verdict' = [verdict EXCEPT ![c] = "failed"]
  /\ UNCHANGED <<link, open>>

\* The peer answers this call, or the caller gives up (timeout, cancellation, unsendable).
Close(c, v) ==
  /\ link = "up" /\ c \in open
  /\ open' = open \ {c}
  /\ verdict' = [verdict EXCEPT ![c] = v]
  /\ UNCHANGED link

\* The link goes down: every open call is told so, at once.
GoDown ==
  /\ link = "up"
  /\ link' = "down"
  /\ open' = {}
  /\ verdict' = [c \in Calls |-> IF c \in open THEN "down" ELSE verdict[c]]

Next ==
  \/ \E c \in Calls : Open(c) \/ Refuse(c)
  \/ \E c \in Calls, v \in {"answered", "failed"} : Close(c, v)
  \/ GoDown

Spec == Init /\ [][Next]_vars

=============================================================================
