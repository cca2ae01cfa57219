---------------------------- MODULE HistoryReplay ----------------------------
(***************************************************************************)
(* The client's transcript of one session: replay and reset of the history *)
(* (src/src/server/history.rs), session/resume with replay (lifecycle.rs), *)
(* thread/rollback and thread/revert (extension_requests.rs), and the      *)
(* notifications of items and of a revert (events.rs).                     *)
(*                                                                         *)
(* The history is read page by page while Codex goes on changing it; what  *)
(* it has printed meanwhile waits for the delivery lock, and is dropped    *)
(* afterwards if a page or a reset covers it.  Codex rewrites its history  *)
(* at the adapter's request, which may outlast the adapter's patience.     *)
(***************************************************************************)
EXTENDS Integers, Sequences, SequencesExt

CONSTANTS
  Threads,        \* the session's thread and its descendants, in the order of replay
  Items, ThreadOf,
  PageSize,       \* items of an answer to thread/items/list
  MaxReplay,      \* max_replay_items
  MaxCalls, MaxPrinted  \* bounds: requests, and notifications

ASSUME HistoryAssumption ==
  /\ Threads \in Seq(ToSet(Threads)) \ {<<>>}
  /\ ThreadOf \in [Items -> ToSet(Threads)] /\ "none" \notin Items
  /\ {PageSize, MaxReplay, MaxCalls, MaxPrinted} \subseteq Nat /\ PageSize > 0

VARIABLES
  calls,       \* requests so far; the last may hold the session's gate
  step,        \* what that one is at
  kind,        \* what it asks for
  until,       \* the position its fence waits for
  delivery,    \* who holds the delivery lock
  replaying,   \* what its holder replays, and from where
  negotiated,  \* whether the client can reset its transcript
  cutoffs,     \* SessionData.snapshot_cutoffs
  historyCutoff,  \* SessionData.history_cutoff
  reconciled,  \* SessionData.reconciled_revert_notification
  wire,        \* history mutations the backend has yet to carry out, in order
  answered,    \* the answer to the last, and its position
  history,     \* the items of each thread, in order
  stage,       \* how far each is: 0 unknown, 1 started, 2 completed
  printed,     \* notifications it has printed
  owes,        \* whether it has yet to report a revert
  events,      \* notifications on their way
  shown,       \* the client's transcript
  resetting,   \* the client has been told to clear it and not that it is complete
  forgotten,   \* history: the position at which a resume last cleared the cutoffs
  highest,     \* history: the greatest cutoff that a reset has set
  intact,      \* history: nothing has failed since that would have changed it
  down         \* the worker has failed and ended the connection

callVars    == <<calls, kind>>
adapterVars == <<cutoffs, historyCutoff, reconciled>>
codexVars   == <<history, stage, printed, owes, events>>
clientVars  == <<shown, resetting, forgotten, highest, intact>>
vars == <<callVars, step, until, delivery, replaying, negotiated, adapterVars, wire, answered,
          codexVars, clientVars, down>>

None == "none"
Root == Head(Threads)
Kinds == {"replay", "rollback", "revert"}
NoAnswer == [what |-> None, at |-> 0]
NoReplay == [todo |-> <<>>, from |-> 0, left |-> 0, reset |-> FALSE]

TypeOK ==
  /\ calls \in 0 .. MaxCalls /\ kind \in Kinds \union {None}
  /\ step \in {"idle", "fence", "lock", "asked", "refence", "relock", "replay", "last"}
  /\ until \in 0 .. printed
  /\ delivery \in {None, "request", "worker"}
  /\ (delivery = None => replaying = NoReplay)
  /\ replaying \in [todo : Seq(ToSet(Threads)), from : Nat, left : 0 .. MaxReplay,
                    reset : BOOLEAN]
  /\ negotiated \in BOOLEAN
  /\ cutoffs \in [Items -> 0 .. printed] /\ historyCutoff \in 0 .. printed
  /\ reconciled \in BOOLEAN
  /\ wire \in Seq(Kinds)
  /\ answered \in [what : {None, "done", "refused"}, at : 0 .. printed]
  /\ history \in [ToSet(Threads) -> Seq(Items)]
  /\ stage \in [Items -> 0 .. 2]
  /\ printed \in 0 .. MaxPrinted /\ owes \in BOOLEAN
  /\ events \in Seq([at : Nat, item : Items \union {None}, stage : 0 .. 2])
  /\ \A k \in DOMAIN events : events[k].at \in 1 .. printed
  /\ shown \in [Items -> 0 .. 2]
  /\ {forgotten, highest} \subseteq 0 .. printed
  /\ {resetting, intact, down} \subseteq BOOLEAN

Init ==
  /\ calls = 0 /\ kind = None /\ step = "idle" /\ until = 0
  /\ delivery = None /\ replaying = NoReplay
  /\ negotiated \in BOOLEAN
  /\ cutoffs = [i \in Items |-> 0] /\ historyCutoff = 0 /\ reconciled = FALSE
  /\ wire = <<>> /\ answered = NoAnswer
  /\ history = [t \in ToSet(Threads) |-> <<>>] /\ stage = [i \in Items |-> 0]
  /\ printed = 0 /\ owes = FALSE /\ events = <<>>
  /\ shown = [i \in Items |-> 0] /\ resetting = FALSE
  /\ forgotten = 0 /\ highest = 0 /\ intact = TRUE
  /\ down = FALSE

----------------------------------------------------------------------------
(* Codex *)

Prints(item, to) ==
  /\ printed < MaxPrinted /\ printed' = printed + 1
  /\ events' = Append(events, [at |-> printed + 1, item |-> item, stage |-> to])

\* An item starts or completes.
Progress(i) ==
  /\ stage[i] < 2 /\ ~down
  /\ stage' = [stage EXCEPT ![i] = @ + 1]
  /\ history' = IF stage[i] = 0 THEN [history EXCEPT ![ThreadOf[i]] = Append(@, i)] ELSE history
  /\ Prints(i, stage[i] + 1)
  /\ UNCHANGED <<callVars, step, until, delivery, replaying, negotiated, adapterVars, wire,
                 answered, owes, clientVars, down>>

\* It comes to the next mutation; only the last is one whose answer may be waited for.
Answers(what, at) ==
  /\ wire # <<>> /\ wire' = Tail(wire)
  /\ answered' = IF step = "asked" /\ Len(wire) = 1 THEN [what |-> what, at |-> at]
                 ELSE NoAnswer

\* It removes the last item, which it may yet complete.
TakeBack ==
  /\ history[Root] # <<>> /\ ~owes /\ ~down
  /\ LET i == Last(history[Root]) IN
       /\ history' = [history EXCEPT ![Root] = Front(@)]
       /\ \/ stage[i] = 1 /\ Prints(i, 2)
          \/ UNCHANGED <<printed, events>>
       /\ stage' = [stage EXCEPT ![i] = 2]

\* A history mutation is carried out, when Codex comes to it.
Rewrite ==
  /\ TakeBack /\ Answers("done", printed')
  /\ owes' = (Head(wire) = "revert")
  /\ UNCHANGED <<callVars, step, until, delivery, replaying, negotiated, adapterVars,
                 clientVars, down>>

\* Somebody else reverts the thread.  Of a client that can reset its transcript, a revert
\* whose answer comes too late is no different.
RewriteUnasked ==
  /\ ~negotiated /\ TakeBack /\ owes' = TRUE
  /\ UNCHANGED <<callVars, step, until, delivery, replaying, negotiated, adapterVars, wire,
                 answered, clientVars, down>>

Refuse ==
  /\ Answers("refused", printed) /\ ~down
  /\ UNCHANGED <<callVars, step, until, delivery, replaying, negotiated, adapterVars,
                 codexVars, clientVars, down>>

\* thread/reverted
Report ==
  /\ owes /\ owes' = FALSE /\ Prints(None, 0) /\ ~down
  /\ UNCHANGED <<callVars, step, until, delivery, replaying, negotiated, adapterVars, wire,
                 answered, history, stage, clientVars, down>>

----------------------------------------------------------------------------
(* A request, up to the replay *)

Goes(from, to) == step = from /\ step' = to

Ends ==
  /\ step' = "idle" /\ kind' = None /\ until' = 0 /\ UNCHANGED calls
  /\ IF delivery = "request" THEN delivery' = None /\ replaying' = NoReplay
     ELSE UNCHANGED <<delivery, replaying>>

\* A history mutation needs a client that can reset its transcript.
Asks(k) ==
  /\ calls < MaxCalls /\ calls' = calls + 1 /\ ~down
  /\ k = "replay" \/ negotiated
  /\ Goes("idle", "fence") /\ kind' = k /\ until' = printed
  /\ UNCHANGED <<delivery, replaying, negotiated, adapterVars, wire, answered, codexVars,
                 clientVars, down>>

Fenced == (\A k \in DOMAIN events : events[k].at > until) /\ delivery # "worker"

\* synchronize_session; the last one only keeps the gate.
PassFence ==
  /\ Fenced
  /\ \/ /\ Goes("fence", "lock") \/ Goes("refence", "relock")
        /\ until' = 0 /\ UNCHANGED <<callVars, delivery, replaying>>
     \/ step = "last" /\ Ends
  /\ UNCHANGED <<negotiated, adapterVars, wire, answered, codexVars, clientVars, down>>

FenceTimesOut ==
  /\ step \in {"fence", "refence", "last"} /\ Ends
  /\ UNCHANGED <<negotiated, adapterVars, wire, answered, codexVars, clientVars, down>>

\* With the delivery lock: a resume's answer makes the replay start anew, with nothing of
\* an earlier one covered.
Lock ==
  /\ delivery = None /\ ~down
  /\ \/ /\ Goes("lock", "asked") /\ kind # "replay"
        /\ delivery' = "request" /\ wire' = Append(wire, kind)
        /\ UNCHANGED <<until, cutoffs, forgotten>>
     \/ /\ Goes("lock", "refence") /\ kind = "replay"
        /\ cutoffs' = [i \in Items |-> 0] /\ until' = printed
        /\ forgotten' = printed /\ UNCHANGED <<delivery, wire>>
  /\ UNCHANGED <<callVars, replaying, negotiated, historyCutoff, reconciled, answered,
                 codexVars, shown, resetting, highest, intact, down>>

\* No answer in time, or a refusal; the backend may still carry it out.
AskFails ==
  /\ step = "asked" /\ answered.what \in {None, "refused"} /\ Ends
  /\ answered' = NoAnswer
  /\ intact' = (intact /\ answered.what = "refused")
  /\ UNCHANGED <<negotiated, adapterVars, wire, codexVars, shown, resetting, forgotten,
                 highest, down>>

----------------------------------------------------------------------------
(* reset_history and replay *)

\* Mutant: descendants are left out.
RootOnly == <<Root>>
\* The session's thread, and the descendants thread/list names.
Replayed == Threads

Replays(reset) == [todo |-> Replayed, from |-> 0, left |-> MaxReplay, reset |-> reset]

\* reset_history, up to its replay: the client clears its transcript.
Resets(cutoff) ==
  /\ replaying' = Replays(TRUE)
  /\ cutoffs' = [i \in Items |-> 0] /\ historyCutoff' = cutoff
  /\ shown' = [i \in Items |-> 0] /\ resetting' = TRUE
  /\ highest' = IF cutoff > highest THEN cutoff ELSE highest

\* The mutation is done; a revert will be reported, which needs no second reset.
Reset ==
  /\ answered.what = "done" /\ Goes("asked", "replay") /\ answered' = NoAnswer
  /\ reconciled' = (reconciled \/ kind = "revert")
  /\ Resets(answered.at)
  /\ UNCHANGED <<callVars, until, delivery, negotiated, wire, codexVars, forgotten,
                 intact, down>>

Relock ==
  /\ delivery = None /\ Goes("relock", "replay") /\ ~down
  /\ delivery' = "request" /\ replaying' = Replays(FALSE)
  /\ UNCHANGED <<callVars, until, negotiated, adapterVars, wire, answered, codexVars,
                 clientVars, down>>

\* An answer to thread/items/list.
Page ==
  LET all == history[Head(replaying.todo)]
      end == IF replaying.from + PageSize < Len(all) THEN replaying.from + PageSize ELSE Len(all)
  IN SubSeq(all, replaying.from + 1, end)

LastPage == replaying.from + PageSize >= Len(history[Head(replaying.todo)])

\* Mutant: a page does not tell what it covers.
CoversNothing(items) == cutoffs
Covers(items) == [i \in Items |-> IF i \in items THEN printed ELSE cutoffs[i]]

\* Mutant: the limit is looked at a page too late.
FitsLate(items) == replaying.left >= 0
\* max_replay_items bounds what a replay sends.
Fits(items) == Len(items) <= replaying.left

\* A page is read, behind whatever was asked before, and sent to the client.
ReadPage ==
  /\ replaying.todo # <<>> /\ wire = <<>> /\ ~down
  /\ Fits(Page)
  /\ cutoffs' = Covers(ToSet(Page))
  /\ shown' = [i \in Items |-> IF i \in ToSet(Page) THEN stage[i] ELSE shown[i]]
  /\ replaying' = [todo |-> IF LastPage THEN Tail(replaying.todo) ELSE replaying.todo,
                   from |-> IF LastPage THEN 0 ELSE replaying.from + PageSize,
                   left |-> replaying.left - Len(Page),
                   reset |-> replaying.reset]
  /\ UNCHANGED <<callVars, step, until, delivery, negotiated, historyCutoff, reconciled,
                 wire, answered, codexVars, resetting, forgotten, highest, intact, down>>

\* Everything has been sent: the reset is complete.
ReplayDone ==
  /\ delivery # None /\ step # "asked" /\ replaying.todo = <<>>
  /\ resetting' = (resetting /\ ~replaying.reset)
  /\ intact' = (intact \/ (replaying.reset /\ delivery = "request"))
  /\ delivery' = None /\ replaying' = NoReplay
  /\ \/ /\ delivery = "request"
        /\ step' = "last" /\ until' = printed
     \/ delivery = "worker" /\ UNCHANGED <<step, until>>
  /\ UNCHANGED <<callVars, negotiated, adapterVars, wire, answered, codexVars, shown,
                 forgotten, highest, down>>

\* The limit is reached, or the backend does not answer.  A worker that fails ends the
\* connection.
ReplayFails ==
  /\ replaying.todo # <<>>
  /\ intact' = FALSE
  /\ \/ delivery = "request" /\ Ends /\ UNCHANGED down
     \/ /\ delivery = "worker" /\ down' = TRUE
        /\ UNCHANGED <<callVars, step, until, delivery, replaying>>
  /\ UNCHANGED <<negotiated, adapterVars, wire, answered, codexVars, shown, resetting,
                 forgotten, highest>>

----------------------------------------------------------------------------
(* The session's worker *)

Delivers ==
  /\ events # <<>> /\ delivery = None /\ ~down
  /\ events' = Tail(events)

\* Mutant: only the pages of a replay cover anything.
SnapshotCoveredByPage(e) == e.at <= cutoffs[e.item]
SnapshotCovered(e) == e.at <= historyCutoff \/ e.at <= cutoffs[e.item]

DeliverItem ==
  LET e == Head(events) IN
  /\ Delivers /\ e.item # None
  /\ shown' = IF SnapshotCovered(e) THEN shown ELSE [shown EXCEPT ![e.item] = e.stage]
  /\ UNCHANGED <<callVars, step, until, delivery, replaying, negotiated, adapterVars, wire,
                 answered, history, stage, printed, owes, resetting, forgotten, highest,
                 intact, down>>

\* thread/reverted: of a revert that is reconciled, or one nobody has seen the answer of.
DeliverReverted ==
  LET e == Head(events) IN
  /\ Delivers /\ e.item = None
  /\ reconciled' = FALSE
  /\ \/ reconciled /\ UNCHANGED <<delivery, replaying, cutoffs, historyCutoff, clientVars>>
     \/ /\ ~reconciled /\ negotiated
        /\ delivery' = "worker" /\ Resets(e.at) /\ UNCHANGED <<forgotten, intact>>
     \/ /\ ~reconciled /\ ~negotiated /\ intact' = FALSE
        /\ UNCHANGED <<delivery, replaying, cutoffs, historyCutoff, shown, resetting,
                       forgotten, highest>>
  /\ UNCHANGED <<callVars, step, until, negotiated, wire, answered, history, stage,
                 printed, owes, down>>

----------------------------------------------------------------------------
Next ==
  \/ \E i \in Items : Progress(i)
  \/ Rewrite \/ RewriteUnasked \/ Refuse \/ Report
  \/ \E k \in Kinds : Asks(k)
  \/ PassFence \/ FenceTimesOut \/ Lock \/ AskFails
  \/ Reset \/ Relock \/ ReadPage \/ ReplayDone \/ ReplayFails
  \/ DeliverItem \/ DeliverReverted

Spec == Init /\ [][Next]_vars

----------------------------------------------------------------------------
(* Properties *)

InFlight(i) == \E k \in DOMAIN events : events[k].item = i
Kept(i) == i \in ToSet(history[ThreadOf[i]])
\* What a client ought to see of an item.
Truth(i) == IF Kept(i) THEN stage[i] ELSE 0

\* When nothing is on its way, the client's transcript is Codex's history: no item is
\* missing or behind, and none that has been removed is left, however the pages of a
\* replay, live notifications and the answers of history mutations came between each
\* other.  Not promised behind a history mutation without an answer, a reset that failed, or
\* one that left the cutoff below an earlier one's.
Lowered == historyCutoff < highest
Quiet == step = "idle" /\ delivery = None /\ wire = <<>> /\ ~owes /\ events = <<>>
ViewSettles == Quiet /\ intact /\ ~Lowered => \A i \in Items : shown[i] = Truth(i)

\* Only a reset takes anything back from the client: a notification from before a page
\* does not undo what the page has shown.  A resume forgets what earlier pages covered, and
\* what was printed before may, until its own replay.
NeverBackward ==
  [][\A i \in Items :
       shown'[i] < shown[i]
       => \/ resetting' /\ \A j \in Items : shown'[j] = 0
          \/ Head(events).at <= forgotten]_vars

\* A client that is told its rebuilt transcript is complete has every item as Codex has it,
\* and none that is removed, unless a notification of that very item is still on its way;
\* also behind mutations whose answer nobody has seen.
CompleteIsWhole ==
  [][resetting /\ ~resetting' => \A i \in Items : shown[i] = Truth(i) \/ InFlight(i)]_vars
=============================================================================
