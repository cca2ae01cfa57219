----------------------------- MODULE Descendants -----------------------------
(***************************************************************************)
(* Which session a Codex thread belongs to (owner_for_thread,              *)
(* src/src/server/ownership.rs) and how session/close ends the threads     *)
(* that belong to its session (close_descendants, teardown.rs).            *)
(*                                                                         *)
(* Codex's agents start threads of their own, whose parents are known only *)
(* from thread/read.  A walk up from a thread finds the first one that is  *)
(* an open session and caches that answer for the threads passed.  The     *)
(* event pump walks for every event; the close walks for every loaded      *)
(* thread while these still spawn others.                                  *)
(***************************************************************************)
EXTENDS Integers, FiniteSets, Sequences, SequencesExt

CONSTANTS
  Threads,     \* in the order of thread/loaded/list
  Roots,       \* those without a parent
  Openable,    \* those a client asks a session for
  PageSize,    \* threads of an answer to thread/loaded/list
  MaxDepth,    \* the 32 steps of a walk
  MaxRounds,   \* the 32 rounds of a close
  MaxOpens,    \* bound: sessions opened
  MaxUntold    \* bound: threads whose metadata is refused to a close

Thread == ToSet(Threads)

ASSUME DescendantsAssumption ==
  /\ Threads \in Seq(Thread) /\ IsInjective(Threads)
  /\ {"none", "unborn"} \cap Thread = {}
  /\ Roots \subseteq Thread /\ Openable \subseteq Thread
  /\ {PageSize, MaxDepth, MaxRounds, MaxOpens, MaxUntold} \subseteq Nat
  /\ PageSize > 0 /\ MaxRounds > 0

VARIABLES
  parent,    \* Codex's threads: who spawned each
  active,    \* those with a turn
  loaded,    \* those the connection is subscribed to
  sessions,  \* ServerState.sessions: the session object of each thread, or 0
  opened,    \* objects made so far
  open,      \* those whose SessionData.open is set
  roots,     \* ServerState.descendant_roots
  walk,      \* the pump's walk, and the close's
  close,     \* the close: where it is, and its local variables, with threads of a page
             \* by their position in the listing
  quiet,     \* history: the sessions closed with success, and not opened since
  ever,      \* history: the threads a session was ever opened for
  untold     \* history: the threads whose metadata was ever refused to a close

codexVars == <<parent, active, loaded>>
stateVars == <<sessions, opened, open>>
pastVars == <<quiet, ever, untold>>
vars == <<codexVars, stateVars, roots, walk, close, pastVars>>

None == "none"
Unborn == "unborn"
Walkers == {"pump", "close"}

Idle == [at |-> "idle", thread |-> None, visited |-> {}, root |-> None, object |-> 0]
NoClose == [at |-> "idle", root |-> None, queue |-> {}, cursor |-> 0, children |-> <<>>,
            processed |-> {}, rounds |-> 0]

Init ==
  /\ parent = [t \in Thread |-> IF t \in Roots THEN None ELSE Unborn]
  /\ active = {} /\ loaded = {}
  /\ sessions = [t \in Thread |-> 0] /\ opened = 0 /\ open = {}
  /\ roots = [t \in Thread |-> None]
  /\ walk = [w \in Walkers |-> Idle] /\ close = NoClose
  /\ quiet = {} /\ ever = {} /\ untold = {}

Born(t) == parent[t] # Unborn

-----------------------------------------------------------------------------
(* Codex.  A closing session's own thread is idle: its turn has been       *)
(* cancelled and prompts are refused.                                      *)

Starts(t) ==
  /\ sessions[t] # 0 /\ t # close.root
  /\ active' = active \cup {t}
  /\ UNCHANGED <<parent, loaded, stateVars, roots, walk, close, pastVars>>

Spawns(t, child) ==
  /\ t \in active /\ ~Born(child)
  /\ parent' = [parent EXCEPT ![child] = t]
  /\ active' = active \cup {child} /\ loaded' = loaded \cup {child}
  /\ UNCHANGED <<stateVars, roots, walk, close, pastVars>>

TurnEnds(t) ==
  /\ t \in active
  /\ active' = active \ {t}
  /\ UNCHANGED <<parent, loaded, stateVars, roots, walk, close, pastVars>>

-----------------------------------------------------------------------------
(* Sessions are opened by any request that names a thread.                 *)

Opens(t) ==
  /\ t \in Openable /\ Born(t) /\ sessions[t] = 0 /\ opened < MaxOpens
  /\ opened' = opened + 1
  /\ sessions' = [sessions EXCEPT ![t] = opened'] /\ open' = open \cup {opened'}
  /\ loaded' = loaded \cup {t} /\ quiet' = quiet \ {t} /\ ever' = ever \cup {t}
  /\ UNCHANGED <<parent, active, roots, walk, close, untold>>

-----------------------------------------------------------------------------
(* owner_for_thread                                                        *)

\* Mutant: the threads passed are noted for all walks in one place.
WalksShared(w, t) ==
  walk' = [walk EXCEPT ![w] = [Idle EXCEPT !.at = "look", !.thread = t,
                                           !.visited = UNION {walk[v].visited : v \in Walkers}]]
Walks(w, t) == walk' = [walk EXCEPT ![w] = [Idle EXCEPT !.at = "look", !.thread = t]]

Answers(w, root) == walk' = [walk EXCEPT ![w] = [Idle EXCEPT !.at = "done", !.root = root]]

\* The open session that a thread is, or is known to belong to.
Candidate(t) ==
  CASE sessions[t] # 0 -> t
    [] sessions[t] = 0 /\ roots[t] # None /\ sessions[roots[t]] # 0 -> roots[t]
    [] OTHER -> None

Look(w) ==
  /\ walk[w].at = "look"
  /\ LET root == Candidate(walk[w].thread)
     IN /\ root # None
        /\ walk' = [walk EXCEPT ![w] = [walk[w] EXCEPT !.at = "confirm", !.root = root,
                                                       !.object = sessions[root]]]
  /\ UNCHANGED <<codexVars, stateVars, roots, close, pastVars>>

\* Nobody is known to own the thread, so thread/read is asked.  A cycle and a walk of too
\* many steps are errors.
Asks(w) ==
  /\ walk[w].at = "look" /\ Candidate(walk[w].thread) = None
  /\ walk[w].thread \notin walk[w].visited /\ Cardinality(walk[w].visited) < MaxDepth

\* It tells the parent.
Climbs(w) ==
  LET t == walk[w].thread
  IN /\ Asks(w)
     /\ \/ parent[t] = None /\ Answers(w, None)
        \/ parent[t] # None
           /\ walk' = [walk EXCEPT ![w] = [walk[w] EXCEPT !.thread = parent[t],
                                                          !.visited = @ \cup {t}]]
     /\ UNCHANGED <<codexVars, stateVars, roots, close, pastVars>>

\* It is refused with an error: a thread that is missing, expired or inaccessible has no
\* owner, and whoever asked goes on.
ReadRefused(w) ==
  /\ Asks(w) /\ Answers(w, None)
  /\ untold' = untold \cup (IF w = "close" THEN {walk[w].thread} ELSE {})
  /\ Cardinality(untold') <= MaxUntold
  /\ UNCHANGED <<codexVars, stateVars, roots, close, quiet, ever>>

\* The session may be closing down, or be another one by now.
Confirm(w) ==
  /\ walk[w].at = "confirm"
  /\ \/ walk[w].object \in open
        /\ walk' = [walk EXCEPT ![w].at = "claim"]
     \/ walk[w].object \notin open /\ Answers(w, None)
  /\ UNCHANGED <<codexVars, stateVars, roots, close, pastVars>>

Claim(w) ==
  LET root == walk[w].root
      kept == [t \in Thread |-> IF roots[t] # None /\ sessions[roots[t]] # 0
                                THEN roots[t] ELSE None]
  IN /\ walk[w].at = "claim"
     /\ \/ /\ sessions[root] = walk[w].object
           /\ roots' = [t \in Thread |-> IF t \in walk[w].visited THEN root ELSE kept[t]]
           /\ Answers(w, root)
        \/ /\ sessions[root] # walk[w].object
           /\ Answers(w, None) /\ UNCHANGED roots
     /\ UNCHANGED <<codexVars, stateVars, close, pastVars>>

\* An event of any thread makes the pump walk.
PumpWalks(t) ==
  /\ walk["pump"].at \in {"idle", "done"} /\ t \in loaded
  /\ Walks("pump", t)
  /\ UNCHANGED <<codexVars, stateVars, roots, close, pastVars>>

-----------------------------------------------------------------------------
(* close_descendants and the rest of session/close.                        *)

\* Positions that thread/loaded/list has still to answer with, and those of an answer.
Beyond(cursor) == {i \in DOMAIN Threads : i > cursor /\ Threads[i] \in loaded}
Page(cursor) ==
  {i \in Beyond(cursor) : Cardinality({j \in Beyond(cursor) : j < i}) < PageSize}

CloseBegins(t) ==
  /\ close.at = "idle" /\ sessions[t] # 0 /\ t \notin active
  /\ close' = [NoClose EXCEPT !.at = "list", !.root = t]
  /\ UNCHANGED <<codexVars, stateVars, roots, walk, pastVars>>

List ==
  /\ close.at = "list"
  /\ \E last \in Page(close.cursor) :
       /\ \A i \in Page(close.cursor) : i <= last
       /\ close' = [close EXCEPT !.at = "check", !.cursor = last, !.queue = Page(close.cursor)]
  /\ UNCHANGED <<codexVars, stateVars, roots, walk, pastVars>>

\* The next thread of the page.
IsNext(i) == i \in close.queue /\ \A j \in close.queue : i <= j

Known(t) == t = close.root \/ t \in close.processed

Check(i) ==
  /\ close.at = "check" /\ IsNext(i)
  /\ \/ /\ Known(Threads[i])
        /\ close' = [close EXCEPT !.queue = @ \ {i}] /\ UNCHANGED walk
     \/ /\ ~Known(Threads[i])
        /\ Walks("close", Threads[i]) /\ close' = [close EXCEPT !.at = "walk"]
  /\ UNCHANGED <<codexVars, stateVars, roots, pastVars>>

Checked(i) ==
  /\ close.at = "walk" /\ walk["close"].at = "done" /\ IsNext(i)
  /\ close' = [close EXCEPT !.at = "check", !.queue = @ \ {i},
                            !.children = IF walk["close"].root = close.root
                                         THEN Append(@, Threads[i]) ELSE @]
  /\ walk' = [walk EXCEPT !["close"] = Idle]
  /\ UNCHANGED <<codexVars, stateVars, roots, pastVars>>

NextPage ==
  /\ close.at = "check" /\ close.queue = {}
  /\ close' = [close EXCEPT !.at = "list"]
  /\ UNCHANGED <<codexVars, stateVars, roots, walk, pastVars>>

\* The last page.
Listed ==
  /\ close.at = "list" /\ Beyond(close.cursor) = {}
  /\ \/ /\ close.children = <<>>
        /\ roots' = [t \in Thread |-> IF roots[t] = close.root THEN None ELSE roots[t]]
        /\ close' = [close EXCEPT !.at = "unsubscribe"]
     \/ /\ close.children # <<>>
        /\ close' = [close EXCEPT !.at = "settle"] /\ UNCHANGED roots
  /\ UNCHANGED <<codexVars, stateVars, walk, pastVars>>

\* thread/read, turn/interrupt of what it shows, and the wait for its end: a
\* turn may have ended by itself.  Then the child's terminals are cleaned.
Settle ==
  /\ close.at = "settle" /\ Head(close.children) \notin active
  /\ close' = [close EXCEPT !.at = "drop"]
  /\ UNCHANGED <<codexVars, stateVars, roots, walk, pastVars>>

Drop ==
  /\ close.at = "drop"
  /\ LET child == Head(close.children)
         rest  == Tail(close.children)
     IN /\ loaded' = loaded \ {child}
        /\ close' = [close EXCEPT !.children = rest, !.processed = @ \cup {child},
                                  !.at = IF rest = <<>> THEN "round" ELSE "settle"]
  /\ UNCHANGED <<parent, active, stateVars, roots, walk, pastVars>>

\* Mutant: the threads of one listing are all there are.
OneRound ==
  /\ close.at = "round"
  /\ close' = [close EXCEPT !.at = "unsubscribe"]
  /\ UNCHANGED <<codexVars, stateVars, roots, walk, pastVars>>
\* Children may have been spawned meanwhile: it ends with a listing that has none.
NextRound ==
  /\ close.at = "round" /\ close.rounds + 1 < MaxRounds
  /\ close' = [close EXCEPT !.at = "list", !.cursor = 0, !.rounds = @ + 1]
  /\ UNCHANGED <<codexVars, stateVars, roots, walk, pastVars>>

\* The session's own thread.
Unsubscribe ==
  /\ close.at = "unsubscribe"
  /\ loaded' = loaded \ {close.root} /\ close' = [close EXCEPT !.at = "shut"]
  /\ quiet' = quiet \cup {close.root}
  /\ UNCHANGED <<parent, active, stateVars, roots, walk, ever, untold>>

Shut ==
  /\ close.at = "shut"
  /\ open' = open \ {sessions[close.root]} /\ close' = [close EXCEPT !.at = "remove"]
  /\ UNCHANGED <<codexVars, sessions, opened, roots, walk, pastVars>>

Unregister ==
  /\ close.at = "remove"
  /\ sessions' = [sessions EXCEPT ![close.root] = 0] /\ close' = NoClose
  /\ UNCHANGED <<codexVars, opened, open, roots, walk, pastVars>>

\* Another request fails, or one gets no answer, a child does not settle in time, or new ones keep appearing.
CloseFails ==
  /\ close.at \in {"list", "walk", "settle", "drop", "round", "unsubscribe"}
  /\ close' = NoClose /\ walk' = [walk EXCEPT !["close"] = Idle]
  /\ UNCHANGED <<codexVars, stateVars, roots, pastVars>>

-----------------------------------------------------------------------------
Codex == \E t \in Thread : \/ Starts(t) \/ TurnEnds(t)
                           \/ \E child \in Thread : Spawns(t, child)

Walking == \E w \in Walkers : Look(w) \/ Climbs(w) \/ ReadRefused(w) \/ Confirm(w) \/ Claim(w)

Closing ==
  \/ List \/ (\E i \in DOMAIN Threads : Check(i) \/ Checked(i)) \/ NextPage \/ Listed \/ Settle \/ Drop \/ NextRound
  \/ Unsubscribe \/ Shut \/ Unregister \/ CloseFails

Next ==
  \/ Codex \/ Walking \/ Closing
  \/ \E t \in Thread : Opens(t) \/ PumpWalks(t) \/ CloseBegins(t)

Spec == Init /\ [][Next]_vars

-----------------------------------------------------------------------------
Walk == [at : {"idle", "look", "confirm", "claim", "done"}, thread : Thread \cup {None},
         visited : SUBSET Thread, root : Thread \cup {None}, object : 0..opened]
Close == [at : {"idle", "list", "check", "walk", "settle", "drop", "round", "unsubscribe",
                "shut", "remove"},
          root : Thread \cup {None}, queue : SUBSET (DOMAIN Threads), cursor : 0..Len(Threads),
          children : Seq(Thread), processed : SUBSET Thread, rounds : 0..(MaxRounds - 1)]

\* Every variable has the type of the field or local variable it stands for, and a
\* close lists the threads at most MaxRounds times.
TypeOK ==
  /\ parent \in [Thread -> Thread \cup {None, Unborn}]
  /\ active \subseteq Thread /\ loaded \subseteq Thread /\ quiet \cup ever \cup untold \subseteq Thread
  /\ opened \in 0..MaxOpens /\ sessions \in [Thread -> 0..opened] /\ open \subseteq 1..opened
  /\ roots \in [Thread -> Thread \cup {None}]
  /\ walk \in [Walkers -> Walk] /\ close \in Close

\* root is among the threads that spawned t, or is t.
Descends(t, root) ==
  \A line \in SUBSET Thread :
    (t \in line /\ \A u \in line : parent[u] \in Thread => parent[u] \in line) => root \in line

\* Threads that descend from a session without another session between.
Belongs(t, root) ==
  /\ Descends(t, root) /\ t # root /\ sessions[t] = 0
  /\ \A other \in Thread \ {t, root} :
       sessions[other] # 0 => ~(Descends(t, other) /\ Descends(other, root))

\* The cache, and every walk that has found an owner, name a session the thread
\* really descends from: authority comes from Codex's metadata alone
\* (ownership.rs:11), whatever is opened, closed and spawned during a walk.
OwnerIsAncestor ==
  /\ \A t \in Thread : roots[t] # None => Descends(t, roots[t])
  /\ \A w \in Walkers : walk[w].at \in {"confirm", "claim"} =>
       \A t \in walk[w].visited : Descends(t, walk[w].root)

\* Root is the only session there has ever been from t upward, and no close has been
\* refused the metadata of a thread there.
Alone(t, root) ==
  t # root /\ Descends(t, root) /\ \A other \in (ever \cup untold) \ {root} : ~Descends(t, other)

\* Once a close has succeeded, no thread below the session works on or is
\* subscribed to, however many its descendants spawned while they were being
\* interrupted (teardown.rs:13, README.md:183), where (1) no session was opened
\* for another of the threads above it, and (2) Codex has not refused a close
\* the thread/read of one of the threads above it, or its own: a refused read
\* counts as "no owner" (ownership.rs:72), so the close passes the thread over
\* and succeeds all the same (teardown.rs:27).
ClosedClean ==
  \A root \in quiet : \A t \in active \cup loaded : ~Alone(t, root)

\* What README.md:183 says of any session, of one for an agent's thread too,
\* even where Codex has told a close of every thread it asked for.
ClosedWholly ==
  untold = {} => \A root \in quiet : \A t \in active \cup loaded : ~Belongs(t, root)
=============================================================================
