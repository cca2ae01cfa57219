--------------------------- MODULE OwnershipProofs ---------------------------
(***************************************************************************)
(* What Descendants and ExtensionRequests promise of who owns a thread and *)
(* who owns a stream, each proved for any constants: of the first for any  *)
(* tree of threads, any sessions and any limits; after it, of the second   *)
(* for any requests, sessions, streams and numbers of them.                *)
(***************************************************************************)
EXTENDS Descendants, ExtensionRequests, FiniteSetTheorems, TLAPS

USE DescendantsAssumption DEF None, Unborn

----------------------------------------------------------------------------
(* What Descends means *)

\* A set of threads that has the parent of each.
Upward(line) == \A u \in line : parent[u] \in Thread => parent[u] \in line

LEMMA DescendsSelf == ASSUME NEW t \in Thread PROVE Descends(t, t)
  BY DEF Descends

LEMMA DescendsParent ==
  ASSUME NEW t \in Thread, parent[t] \in Thread PROVE Descends(t, parent[t])
  BY DEF Descends

LEMMA DescendsOn ==
  ASSUME NEW t \in Thread, NEW u \in Thread, NEW v \in Thread, Descends(t, u), Descends(u, v)
  PROVE  Descends(t, v)
<1> SUFFICES ASSUME NEW line \in SUBSET Thread, t \in line, Upward(line) PROVE v \in line
  BY DEF Descends, Upward
<1>1. u \in line
  BY DEF Descends, Upward
<1>2. QED
  BY <1>1 DEF Descends, Upward

\* A thread that is spawned changes nothing for those there are.
LEMMA DescendsStays ==
  ASSUME NEW child \in Thread, parent \in [Thread -> Thread \cup {None, Unborn}], ~Born(child),
         NEW by \in Thread, parent' = [parent EXCEPT ![child] = by],
         NEW t \in Thread, NEW u \in Thread, Descends(t, u)
  PROVE  Descends(t, u)'
<1> SUFFICES ASSUME NEW line \in SUBSET Thread, t \in line, Upward(line)' PROVE u \in line
  BY DEF Descends, Upward
<1>1. Upward(line)
  BY DEF Upward, Born
<1>2. QED
  BY <1>1 DEF Descends, Upward

LEMMA DescendsSame ==
  ASSUME parent' = parent, NEW t \in Thread, NEW u \in Thread, Descends(t, u)
  PROVE  Descends(t, u)'
  BY DEF Descends

----------------------------------------------------------------------------
(* The inductive invariant *)

\* Only threads that Codex has made work, are listed, are opened or have children.
Living ==
  /\ \A t \in active \cup loaded : Born(t)
  /\ \A t \in Thread : sessions[t] # 0 => Born(t)
  /\ \A t \in Thread : parent[t] \in Thread => Born(parent[t])
  /\ \A i \in close.queue : Born(Threads[i])

\* The threads a walk has passed descend from where it is, and then from its answer.
Passed(w) ==
  /\ walk[w].at = "look" =>
       /\ walk[w].thread \in Thread /\ Born(walk[w].thread)
       /\ \A t \in walk[w].visited : Descends(t, walk[w].thread)
  /\ walk[w].at \in {"confirm", "claim"} =>
       /\ walk[w].root \in Thread
       /\ \A t \in walk[w].visited : Descends(t, walk[w].root)

Attributed == \A t \in Thread : roots[t] # None => Descends(t, roots[t])

\* A close is of a thread, and one that settles has something to settle.
Busy ==
  /\ close.at # "idle" => close.root \in Thread
  /\ close.at \in {"settle", "drop"} => close.children # <<>>

IInv == TypeOK /\ Living /\ (\A w \in Walkers : Passed(w)) /\ Attributed /\ Busy

LEMMA Initial == Init => IInv
  BY DEF Init, IInv, TypeOK, Walk, Close, Living, Passed, Attributed, Busy, Idle, NoClose, Born

----------------------------------------------------------------------------
(* Steps of Codex and of the client *)

LEMMA CodexKeeps == ASSUME IInv, Codex PROVE IInv'
<1>1. ASSUME NEW t \in Thread, Starts(t) \/ TurnEnds(t) PROVE IInv'
  <2>1. TypeOK' /\ Busy'
    BY <1>1 DEF Starts, TurnEnds, IInv, TypeOK, Walk, Close, Busy, stateVars, pastVars
  <2>2. Living'
    BY <1>1 DEF Starts, TurnEnds, IInv, TypeOK, Living, Born, stateVars
  <2>3. Attributed' /\ \A w \in Walkers : Passed(w)'
    BY <1>1 DEF Starts, TurnEnds, IInv, Attributed, Passed, Born, Descends
  <2>4. QED
    BY <2>1, <2>2, <2>3 DEF IInv
<1>2. ASSUME NEW t \in Thread, NEW child \in Thread, Spawns(t, child) PROVE IInv'
  <2>0. /\ parent \in [Thread -> Thread \cup {None, Unborn}] /\ ~Born(child)
        /\ parent' = [parent EXCEPT ![child] = t] /\ Born(t)
    BY <1>2 DEF Spawns, IInv, TypeOK, Living
  <2>1. TypeOK' /\ Busy'
    BY <1>2, <2>0, SMTT(60) DEF Spawns, IInv, TypeOK, Walk, Close, Busy, stateVars, pastVars
  <2>2. \A u \in Thread : Born(u) => Born(u)'
    BY <2>0 DEF Born
  <2>3. Living'
    BY <1>2, <2>0, <2>2 DEF Spawns, IInv, TypeOK, Close, Living, Born, stateVars
  <2>4. Attributed'
    BY <1>2, <2>0, DescendsStays DEF Spawns, IInv, TypeOK, Attributed
  <2>5. ASSUME NEW w \in Walkers PROVE Passed(w)'
    <3>1. Passed(w) /\ walk' = walk /\ walk[w] \in Walk
      BY <1>2 DEF Spawns, IInv, TypeOK
    <3>2. QED
      BY <2>0, <2>2, <3>1, DescendsStays DEF Passed, Walk
  <2>6. QED
    BY <2>1, <2>3, <2>4, <2>5 DEF IInv
<1>3. QED
  BY <1>1, <1>2 DEF Codex

LEMMA OpensKeeps == ASSUME IInv, NEW t \in Thread, Opens(t) PROVE IInv'
<1>1. opened' \in 0..MaxOpens /\ opened' = opened + 1 /\ opened \in Nat
  BY DEF Opens, IInv, TypeOK
<1>2. TypeOK'
  BY <1>1, SMTT(60) DEF Opens, IInv, TypeOK, Walk, Close
<1>3. Living'
  BY <1>1 DEF Opens, IInv, TypeOK, Living, Born
<1>4. Attributed' /\ Busy' /\ \A w \in Walkers : Passed(w)'
  BY DEF Opens, IInv, Attributed, Busy, Passed, Born, Descends
<1>5. QED
  BY <1>2, <1>3, <1>4 DEF IInv

----------------------------------------------------------------------------
(* Steps of a walk *)

\* A walk that begins has passed nothing.
LEMMA WalksBegins ==
  ASSUME IInv, NEW w \in Walkers, NEW t \in Thread, Born(t), Walks(w, t), parent' = parent,
         opened' = opened
  PROVE  walk' \in [Walkers -> Walk]' /\ \A v \in Walkers : Passed(v)'
<1> DEFINE new == [Idle EXCEPT !.at = "look", !.thread = t]
<1>0. Walk' = Walk /\ 0 \in 0..opened
  BY DEF Walk, IInv, TypeOK
<1>1. new \in Walk' /\ new.at = "look" /\ new.thread = t /\ new.visited = {}
  BY <1>0 DEF Walk, Idle
<1>2. walk' = [walk EXCEPT ![w] = new]
  BY DEF Walks
<1> HIDE DEF new
<1>3. walk \in [Walkers -> Walk] /\ Walk' = Walk
  BY DEF IInv, TypeOK, Walk
<1>4. ASSUME NEW v \in Walkers PROVE Passed(v)'
  BY <1>1, <1>2, <1>3, <1>4 DEF IInv, Passed, Born, Descends
<1>5. QED
  BY <1>1, <1>2, <1>3, <1>4

\* A walk ends, with or without an owner.
LEMMA AnswersKeeps ==
  ASSUME IInv, NEW w \in Walkers, NEW root \in Thread \cup {None}, Answers(w, root),
         parent' = parent, opened' = opened
  PROVE  walk' \in [Walkers -> Walk]' /\ \A v \in Walkers : Passed(v)'
<1> DEFINE new == [Idle EXCEPT !.at = "done", !.root = root]
<1>0. Walk' = Walk /\ 0 \in 0..opened
  BY DEF Walk, IInv, TypeOK
<1>1. new \in Walk' /\ new.at = "done"
  BY <1>0 DEF Walk, Idle
<1>2. walk' = [walk EXCEPT ![w] = new]
  BY DEF Answers
<1> HIDE DEF new
<1>3. walk \in [Walkers -> Walk] /\ Walk' = Walk
  BY DEF IInv, TypeOK, Walk
<1>4. ASSUME NEW v \in Walkers PROVE Passed(v)'
  BY <1>1, <1>2, <1>3 DEF IInv, Passed, Born, Descends
<1>5. QED
  BY <1>1, <1>2, <1>3, <1>4

\* What a walk leaves alone.
LEMMA WalkFrame ==
  ASSUME IInv, UNCHANGED <<codexVars, stateVars, close, quiet, ever>>, untold' \subseteq Thread,
         roots' \in [Thread -> Thread \cup {None}], Attributed',
         walk' \in [Walkers -> Walk]', \A v \in Walkers : Passed(v)'
  PROVE  IInv'
  BY DEF IInv, TypeOK, Walk, Close, Living, Busy, Born, codexVars, stateVars

LEMMA PastFrame == ASSUME IInv, UNCHANGED pastVars
                   PROVE  UNCHANGED <<quiet, ever>> /\ untold' \subseteq Thread
  BY DEF IInv, TypeOK, pastVars

LEMMA AttributedSame == ASSUME IInv, UNCHANGED <<codexVars, roots>> PROVE Attributed'
  BY DEF IInv, Attributed, Descends, codexVars

\* The open session found is one the thread descends from.
LEMMA CandidateIsAncestor ==
  ASSUME IInv, NEW t \in Thread, Candidate(t) # None
  PROVE  Candidate(t) \in Thread /\ Descends(t, Candidate(t))
<1>1. roots[t] \in Thread \cup {None}
  BY DEF IInv, TypeOK
<1>2. CASE sessions[t] # 0
  BY <1>2, DescendsSelf DEF Candidate
<1>3. CASE sessions[t] = 0 /\ roots[t] # None /\ sessions[roots[t]] # 0
  BY <1>1, <1>3 DEF Candidate, IInv, Attributed
<1>4. QED
  BY <1>2, <1>3 DEF Candidate

LEMMA WalkingKeeps == ASSUME IInv, Walking PROVE IInv'
<1> PICK w \in Walkers : Look(w) \/ Climbs(w) \/ ReadRefused(w) \/ Confirm(w) \/ Claim(w)
  BY DEF Walking
<1>0. /\ walk \in [Walkers -> Walk] /\ walk[w] \in Walk /\ Passed(w)
      /\ parent \in [Thread -> Thread \cup {None, Unborn}]
      /\ roots \in [Thread -> Thread \cup {None}] /\ sessions \in [Thread -> 0..opened]
  BY DEF IInv, TypeOK
<1>1. CASE Look(w)
  <2> DEFINE t == walk[w].thread  root == Candidate(t)
             new == [walk[w] EXCEPT !.at = "confirm", !.root = root, !.object = sessions[root]]
  <2>1. t \in Thread /\ root \in Thread /\ Descends(t, root) /\ walk[w].at = "look"
    BY <1>0, <1>1, CandidateIsAncestor DEF Look, Passed
  <2>2. walk' = [walk EXCEPT ![w] = new]
    BY <1>1 DEF Look
  <2>3. new \in Walk /\ new.at = "confirm" /\ new.root = root /\ new.visited = walk[w].visited
    BY <1>0, <2>1 DEF Walk
  <2>4. Walk' = Walk /\ UNCHANGED <<codexVars, stateVars, roots, close, pastVars>>
    BY <1>1 DEF Look, Walk, stateVars
  <2>5. \A u \in walk[w].visited : Descends(u, root)
    BY <1>0, <2>1, DescendsOn DEF Passed, Walk
  <2> HIDE DEF new, root, t
  <2>6. ASSUME NEW v \in Walkers PROVE Passed(v)'
    BY <1>0, <2>1, <2>2, <2>3, <2>4, <2>5 DEF IInv, Passed, Born, Descends, codexVars
  <2>7. QED
    BY <1>0, <2>2, <2>3, <2>4, <2>6, PastFrame, WalkFrame, AttributedSame
<1>2. CASE Climbs(w)
  <2> DEFINE t == walk[w].thread
             new == [walk[w] EXCEPT !.thread = parent[t], !.visited = walk[w].visited \cup {t}]
  <2>0. /\ t \in Thread /\ Born(t) /\ walk[w].at = "look"
        /\ UNCHANGED <<codexVars, stateVars, roots, close, pastVars>>
    BY <1>0, <1>2 DEF Climbs, Asks, Passed
  <2>1. CASE Answers(w, None)
    BY <1>0, <2>0, <2>1, AnswersKeeps, PastFrame, WalkFrame, AttributedSame DEF codexVars, stateVars
  <2>2. CASE parent[t] # None /\ walk' = [walk EXCEPT ![w] = new]
    <3>1. parent[t] \in Thread /\ Born(parent[t]) /\ Descends(t, parent[t])
      BY <1>0, <2>0, <2>2, DescendsParent DEF IInv, Living, Born
    <3>2. new \in Walk /\ new.at = "look" /\ new.thread = parent[t]
          /\ new.visited = walk[w].visited \cup {t}
      BY <1>0, <2>0, <3>1 DEF Walk
    <3>3. \A u \in new.visited : Descends(u, parent[t])
      BY <1>0, <2>0, <3>1, <3>2, DescendsOn DEF Passed, Walk
    <3>4. Walk' = Walk
      BY <2>0 DEF Walk, stateVars
    <3> HIDE DEF new, t
    <3>5. ASSUME NEW v \in Walkers PROVE Passed(v)'
      BY <1>0, <2>0, <2>2, <3>1, <3>2, <3>3, ZenonT(60) DEF IInv, Passed, Born, Descends, codexVars
    <3>6. QED
      BY <1>0, <2>0, <2>2, <3>2, <3>4, <3>5, PastFrame, WalkFrame, AttributedSame
  <2>3. QED
    BY <1>2, <2>1, <2>2 DEF Climbs
<1>3. CASE Confirm(w)
  <2>0. walk[w].at = "confirm" /\ UNCHANGED <<codexVars, stateVars, roots, close, pastVars>>
    BY <1>3 DEF Confirm
  <2>1. CASE walk' = [walk EXCEPT ![w].at = "claim"]
    <3> DEFINE new == [walk[w] EXCEPT !.at = "claim"]
    <3>1. /\ walk' = [walk EXCEPT ![w] = new] /\ Walk' = Walk
          /\ new \in Walk /\ new.at = "claim" /\ new.root = walk[w].root
          /\ new.visited = walk[w].visited
      BY <1>0, <2>0, <2>1 DEF Walk, stateVars
    <3> HIDE DEF new
    <3>2. ASSUME NEW v \in Walkers PROVE Passed(v)'
      BY <1>0, <2>0, <3>1, ZenonT(60) DEF IInv, Passed, Born, Descends, codexVars
    <3>3. QED
      BY <1>0, <2>0, <3>1, <3>2, PastFrame, WalkFrame, AttributedSame
  <2>2. CASE Answers(w, None)
    BY <1>0, <2>0, <2>2, AnswersKeeps, PastFrame, WalkFrame, AttributedSame DEF codexVars, stateVars
  <2>3. QED
    BY <1>3, <2>1, <2>2 DEF Confirm
<1>4. CASE Claim(w)
  <2> DEFINE root == walk[w].root
             kept == [t \in Thread |-> IF roots[t] # None /\ sessions[roots[t]] # 0
                                       THEN roots[t] ELSE None]
  <2>0. /\ walk[w].at = "claim" /\ UNCHANGED <<codexVars, stateVars, close, pastVars>>
        /\ root \in Thread /\ walk[w].visited \subseteq Thread
        /\ \A t \in walk[w].visited : Descends(t, root)
    BY <1>0, <1>4 DEF Claim, Passed, Walk
  <2>1. CASE /\ roots' = [t \in Thread |-> IF t \in walk[w].visited THEN root ELSE kept[t]]
             /\ Answers(w, root)
    <3>1. roots' \in [Thread -> Thread \cup {None}]
      BY <1>0, <2>0, <2>1
    <3>2. ASSUME NEW t \in Thread, roots'[t] # None PROVE Descends(t, roots'[t])
      BY <1>0, <2>0, <2>1, <3>2 DEF IInv, Attributed
    <3>3. Attributed'
      BY <2>0, <3>1, <3>2 DEF Attributed, Descends, codexVars
    <3>4. walk' \in [Walkers -> Walk]' /\ \A v \in Walkers : Passed(v)'
      BY <2>0, <2>1, AnswersKeeps DEF codexVars, stateVars
    <3>5. QED
      BY <2>0, <3>1, <3>3, <3>4, PastFrame, WalkFrame
  <2>2. CASE Answers(w, None) /\ UNCHANGED roots
    BY <1>0, <2>0, <2>2, AnswersKeeps, PastFrame, WalkFrame, AttributedSame DEF codexVars, stateVars
  <2>3. QED
    BY <1>4, <2>1, <2>2 DEF Claim
<1>5. CASE ReadRefused(w)
  <2>1. /\ Answers(w, None) /\ UNCHANGED <<codexVars, stateVars, roots, close, quiet, ever>>
        /\ walk[w].at = "look" /\ walk[w].thread \in Thread
    BY <1>0, <1>5 DEF ReadRefused, Asks, Passed
  <2>2. untold' \subseteq Thread
    BY <1>5, <2>1 DEF ReadRefused, IInv, TypeOK
  <2>3. QED
    BY <1>0, <2>1, <2>2, AnswersKeeps, WalkFrame, AttributedSame DEF codexVars, stateVars
<1>6. QED
  BY <1>1, <1>2, <1>3, <1>4, <1>5

LEMMA PumpKeeps == ASSUME IInv, NEW t \in Thread, PumpWalks(t) PROVE IInv'
<1>1. Born(t) /\ Walks("pump", t) /\ UNCHANGED <<codexVars, stateVars, roots, close, pastVars>>
  BY DEF PumpWalks, IInv, Living
<1>2. walk' \in [Walkers -> Walk]' /\ \A v \in Walkers : Passed(v)'
  BY <1>1, WalksBegins DEF codexVars, stateVars, Walkers
<1>3. QED
  BY <1>1, <1>2, PastFrame, WalkFrame, AttributedSame DEF IInv, TypeOK

----------------------------------------------------------------------------
(* Steps of a close *)

\* What a step of the close leaves alone, if it touches no walk but its own.
LEMMA CloseFrame ==
  ASSUME IInv, parent' = parent, opened' = opened, open' \subseteq open,
         sessions' \in [Thread -> 0..opened],
         \A t \in Thread : sessions'[t] # 0 => sessions[t] # 0,
         active' = active, loaded' \subseteq loaded, quiet' \subseteq Thread, ever' = ever, untold' = untold,
         roots' \in [Thread -> Thread \cup {None}],
         \A t \in Thread : roots'[t] \in {roots[t], None},
         walk' \in [Walkers -> Walk]', \A v \in Walkers : Passed(v)',
         close' \in Close, \A i \in close'.queue : Born(Threads[i]), Busy'
  PROVE  IInv'
<1>1. TypeOK'
  BY DEF IInv, TypeOK, Close
<1>2. Living' /\ Attributed'
  BY DEF IInv, TypeOK, Living, Attributed, Born, Descends
<1>3. QED
  BY <1>1, <1>2 DEF IInv

\* Its walk is untouched, or put away.
LEMMA WalkRests ==
  ASSUME IInv, parent' = parent, opened' = opened,
         walk' \in {walk, [walk EXCEPT !["close"] = Idle]}
  PROVE  walk' \in [Walkers -> Walk]' /\ \A v \in Walkers : Passed(v)'
<1>0. Walk' = Walk /\ 0 \in 0..opened /\ walk \in [Walkers -> Walk]
  BY DEF Walk, IInv, TypeOK
<1>1. Idle \in Walk /\ Idle.at = "idle"
  BY <1>0 DEF Walk, Idle
<1> HIDE DEF Idle
<1>2. walk' \in [Walkers -> Walk]
  BY <1>0, <1>1
<1>3. ASSUME NEW v \in Walkers PROVE Passed(v)'
  <2>1. walk'[v] \in {walk[v], Idle} /\ Passed(v)
    BY <1>0 DEF IInv
  <2>2. QED
    BY <1>1, <2>1 DEF Passed, Born, Descends
<1>4. QED
  BY <1>0, <1>2, <1>3

LEMMA NoCloseIsClose == NoClose \in Close /\ NoClose.queue = {} /\ NoClose.at = "idle"
  BY DEF NoClose, Close

\* Steps that go through the listing.
LEMMA ListingKeeps ==
  ASSUME IInv,
         \/ \E t \in Thread : CloseBegins(t)
         \/ List \/ NextPage \/ \E i \in DOMAIN Threads : Check(i) \/ Checked(i)
  PROVE  IInv'
<1>0. /\ close \in Close /\ roots \in [Thread -> Thread \cup {None}]
      /\ sessions \in [Thread -> 0..opened] /\ quiet \subseteq Thread
      /\ Threads \in Seq(Thread)
      /\ \A i \in close.queue : Born(Threads[i])
  BY DEF IInv, TypeOK, Living
<1>1. ASSUME NEW t \in Thread, CloseBegins(t) PROVE IInv'
  <2>1. close' \in Close /\ close'.queue = {} /\ close'.at = "list" /\ close'.root \in Thread
    <3>1. close' = [NoClose EXCEPT !.at = "list", !.root = t]
      BY <1>1 DEF CloseBegins
    <3> HIDE DEF NoClose
    <3>2. QED
      BY <3>1, NoCloseIsClose DEF Close
  <2>2. QED
    BY <1>0, <1>1, <2>1, CloseFrame, WalkRests DEF IInv, CloseBegins, codexVars, stateVars, pastVars, Busy
<1>2. CASE List
  <2>1. Page(close.cursor) \subseteq DOMAIN Threads
        /\ \A i \in Page(close.cursor) : Threads[i] \in loaded
    BY DEF Page, Beyond
  <2> HIDE DEF Page
  <2>2. /\ close' \in Close /\ close'.queue = Page(close.cursor) /\ close'.at = "check"
        /\ close'.root \in Thread
    <3>1. PICK last \in Page(close.cursor) :
            close' = [close EXCEPT !.at = "check", !.cursor = last, !.queue = Page(close.cursor)]
      BY <1>2 DEF List
    <3>2. last \in 0..Len(Threads)
      <4>1. DOMAIN Threads = 1..Len(Threads) /\ Len(Threads) \in Nat
        BY <1>0
      <4>2. QED
        BY <2>1, <4>1
    <3>3. close.root \in Thread
      BY <1>2 DEF List, IInv, Busy
    <3>4. QED
      BY <1>0, <2>1, <3>1, <3>2, <3>3 DEF Close
  <2>3. \A i \in close'.queue : Born(Threads[i])
    BY <2>1, <2>2 DEF IInv, Living
  <2>4. QED
    BY <1>0, <1>2, <2>2, <2>3, CloseFrame, WalkRests DEF IInv, List, codexVars, stateVars, pastVars, Busy
<1>3. CASE NextPage
  <2>1. /\ close' \in Close /\ close'.queue = close.queue /\ close'.at = "list"
        /\ close'.root = close.root /\ close.at # "idle"
    BY <1>0, <1>3 DEF NextPage, Close
  <2>2. QED
    BY <1>0, <1>3, <2>1, CloseFrame, WalkRests DEF IInv, NextPage, codexVars, stateVars, pastVars, Busy
<1>4. ASSUME NEW i \in DOMAIN Threads, Check(i) PROVE IInv'
  <2>1. /\ Threads[i] \in Thread /\ Born(Threads[i])
        /\ UNCHANGED <<codexVars, stateVars, roots, pastVars>>
    BY <1>0, <1>4 DEF Check, IsNext
  <2>2. CASE close' = [close EXCEPT !.queue = close.queue \ {i}] /\ UNCHANGED walk
    <3>1. close' \in Close /\ close'.queue \subseteq close.queue /\ close'.at = close.at
          /\ close'.children = close.children /\ close'.root = close.root
      BY <1>0, <2>2 DEF Close
    <3>2. QED
      BY <1>0, <2>1, <2>2, <3>1, CloseFrame, WalkRests DEF IInv, codexVars, stateVars, pastVars, Busy
  <2>3. CASE Walks("close", Threads[i]) /\ close' = [close EXCEPT !.at = "walk"]
    <3>1. /\ close' \in Close /\ close'.queue = close.queue /\ close'.at = "walk"
          /\ close'.root = close.root /\ close.at # "idle"
      BY <1>0, <1>4, <2>3 DEF Close, Check
    <3>2. walk' \in [Walkers -> Walk]' /\ \A v \in Walkers : Passed(v)'
      BY <2>1, <2>3, WalksBegins DEF codexVars, stateVars, Walkers
    <3>3. QED
      BY <1>0, <2>1, <3>1, <3>2, CloseFrame DEF IInv, codexVars, stateVars, pastVars, Busy
  <2>4. QED
    BY <1>4, <2>2, <2>3 DEF Check
<1>5. ASSUME NEW i \in DOMAIN Threads, Checked(i) PROVE IInv'
  <2>1. Threads[i] \in Thread
    BY <1>0
  <2>2. /\ close' \in Close /\ close'.queue \subseteq close.queue /\ close'.at = "check"
        /\ close'.root = close.root /\ close.at = "walk"
    <3>1. PICK children \in Seq(Thread) :
            close' = [close EXCEPT !.at = "check", !.queue = close.queue \ {i},
                                   !.children = children]
      <4>1. close.children \in Seq(Thread) /\ Append(close.children, Threads[i]) \in Seq(Thread)
        BY <1>0, <2>1 DEF Close
      <4>2. QED
        BY <1>5, <4>1 DEF Checked
    <3>2. close.at = "walk"
      BY <1>5 DEF Checked
    <3>3. QED
      BY <1>0, <3>1, <3>2 DEF Close
  <2>3. QED
    BY <1>0, <1>5, <2>2, CloseFrame, WalkRests DEF IInv, Checked, codexVars, stateVars, pastVars, Busy
<1>6. QED
  BY <1>1, <1>2, <1>3, <1>4, <1>5

\* Steps that settle and drop, and the end.
LEMMA EndingKeeps ==
  ASSUME IInv,
         Listed \/ Settle \/ Drop \/ NextRound \/ Unsubscribe \/ Shut \/ Unregister \/ CloseFails
  PROVE  IInv'
<1>0. /\ close \in Close /\ roots \in [Thread -> Thread \cup {None}]
      /\ sessions \in [Thread -> 0..opened] /\ quiet \subseteq Thread
      /\ \A i \in close.queue : Born(Threads[i])
  BY DEF IInv, TypeOK, Living
<1>1. CASE Listed
  <2>1. /\ close' \in Close /\ close'.queue = close.queue
        /\ close'.root = close.root /\ close.at # "idle"
        /\ (close'.at \in {"settle", "drop"} => close'.children # <<>>)
    BY <1>0, <1>1 DEF Listed, Close
  <2>2. QED
    BY <1>0, <1>1, <2>1, CloseFrame, WalkRests DEF IInv, Listed, codexVars, stateVars, pastVars, Busy
<1>2. CASE Settle
  <2>1. /\ close' \in Close /\ close'.queue = close.queue /\ close'.children # <<>>
        /\ close'.root = close.root /\ close.at # "idle"
    BY <1>0, <1>2 DEF Settle, Close, IInv, Busy
  <2>2. QED
    BY <1>0, <1>2, <2>1, CloseFrame, WalkRests DEF IInv, Settle, codexVars, stateVars, pastVars, Busy
<1>3. CASE Drop
  <2>1. /\ Head(close.children) \in Thread /\ Tail(close.children) \in Seq(Thread)
    BY <1>0, <1>3 DEF Drop, Close, IInv, Busy
  <2>2. /\ close' \in Close /\ close'.queue = close.queue
        /\ close'.root = close.root /\ close.at # "idle"
        /\ (close'.at \in {"settle", "drop"} => close'.children # <<>>)
    BY <1>0, <1>3, <2>1 DEF Drop, Close
  <2>3. QED
    BY <1>0, <1>3, <2>2, CloseFrame, WalkRests DEF IInv, Drop, codexVars, stateVars, pastVars, Busy
<1>4. CASE NextRound
  <2>1. /\ close' \in Close /\ close'.queue = close.queue /\ close'.at = "list"
        /\ close'.root = close.root /\ close.at # "idle"
    <3>1. close.rounds + 1 \in 0..(MaxRounds - 1) /\ 0 \in 0..Len(Threads)
      BY <1>0, <1>4 DEF NextRound, Close
    <3>2. QED
      BY <1>0, <1>4, <3>1 DEF NextRound, Close
  <2>2. QED
    BY <1>0, <1>4, <2>1, CloseFrame, WalkRests DEF IInv, NextRound, codexVars, stateVars, pastVars, Busy
<1>5. CASE Unsubscribe
  <2>1. /\ close' \in Close /\ close'.queue = close.queue /\ close'.at = "shut"
        /\ close'.root = close.root /\ close.at # "idle"
    BY <1>0, <1>5 DEF Unsubscribe, Close
  <2>2. QED
    BY <1>0, <1>5, <2>1, CloseFrame, WalkRests DEF IInv, Unsubscribe, codexVars, stateVars, pastVars, Busy
<1>6. CASE Shut
  <2>1. /\ close' \in Close /\ close'.queue = close.queue /\ close'.at = "remove"
        /\ close'.root = close.root /\ close.at # "idle"
    BY <1>0, <1>6 DEF Shut, Close
  <2>2. QED
    BY <1>0, <1>6, <2>1, CloseFrame, WalkRests DEF IInv, Shut, codexVars, stateVars, pastVars, Busy
<1>7. CASE Unregister
  <2>0. opened \in Nat /\ close.root \in Thread
    BY <1>7 DEF Unregister, IInv, TypeOK, Busy
  <2>1. sessions' = [sessions EXCEPT ![close.root] = 0]
    BY <1>7 DEF Unregister
  <2>2. sessions' \in [Thread -> 0..opened] /\ \A t \in Thread : sessions'[t] # 0 => sessions[t] # 0
    BY <1>0, <2>0, <2>1
  <2>3. QED
    BY <1>0, <1>7, NoCloseIsClose, <2>2, CloseFrame, WalkRests DEF IInv, Unregister, codexVars, pastVars, Busy
<1>8. CASE CloseFails
  <2>2. QED
    BY <1>0, <1>8, NoCloseIsClose, CloseFrame, WalkRests DEF IInv, CloseFails, codexVars, stateVars, pastVars, Busy
<1>9. QED
  BY <1>1, <1>2, <1>3, <1>4, <1>5, <1>6, <1>7, <1>8

LEMMA StutterKeeps == IInv /\ UNCHANGED vars => IInv'
  BY ZenonT(60) DEF IInv, vars, codexVars, stateVars, pastVars, TypeOK, Walk, Close, Living, Passed, Attributed, Busy,
     Born, Descends

----------------------------------------------------------------------------
(* The theorems *)

\* The inductive invariant: a walk holds threads that descend from where it is.
THEOREM InvariantHolds == Spec => []IInv
<1>1. Init => IInv
  BY Initial
<1>2. IInv /\ [Next]_vars => IInv'
  BY CodexKeeps, OpensKeeps, PumpKeeps, WalkingKeeps, ListingKeeps, EndingKeeps, StutterKeeps
     DEF Next, Closing
<1>3. QED
  BY <1>1, <1>2, PTL DEF Spec

\* Every variable keeps its type; a close lists the threads MaxRounds times at most.
THEOREM TypeCorrect == Spec => []TypeOK
<1>1. IInv => TypeOK
  BY DEF IInv
<1>2. QED
  BY <1>1, InvariantHolds, PTL

\* The cache of roots, and every walk that has found an owner, name a thread's
\* ancestor (ownership.rs 11-96), in any tree and with any sessions opened and closed.
THEOREM OwnersAreAncestors == Spec => []OwnerIsAncestor
<1>1. IInv => OwnerIsAncestor
  BY DEF IInv, Attributed, Passed, OwnerIsAncestor
<1>2. QED
  BY <1>1, InvariantHolds, PTL

----------------------------------------------------------------------------
(* What a close leaves behind *)

\* An object in the table is one of its thread alone, and open until its close shuts it.
Registered ==
  /\ \A t \in Thread : sessions[t] # 0 => t \in ever
  /\ \A t \in ever \cup untold : Born(t)
  /\ \A t, u \in Thread : sessions[t] = sessions[u] /\ sessions[t] # 0 => t = u
  /\ \A t \in Thread :
       sessions[t] # 0 => sessions[t] \in open \/ (t = close.root /\ close.at = "remove")

\* The thread of a session that closes or has closed is idle; a thread without a
\* session is subscribed to while it works, and not any more when a close has dropped it.
Still ==
  /\ close.at # "idle" => sessions[close.root] # 0 /\ close.root \notin active
  /\ \A root \in quiet :
       /\ root \notin active /\ root \in ever
       /\ sessions[root] = 0 \/ (root = close.root /\ close.at \in {"shut", "remove"})
  /\ \A t \in active : t \in loaded \cup ever
  /\ \A t \in close.processed : Born(t) /\ (t \in loaded => t \in ever)
  /\ \A i \in DOMAIN close.children : Born(close.children[i])
  /\ close.at = "drop" => Head(close.children) \notin active \/ Head(close.children) \in ever

\* Where the close is in the listing.
Placed ==
  /\ close.at \notin {"check", "walk"} => close.queue = {}
  /\ close.at = "round" => close.children = <<>>

\* The close's walk from a thread that is its session's alone will say so.
Foretold ==
  close.at = "walk" =>
    \A i \in close.queue :
      IsNext(i) /\ Alone(Threads[i], close.root) =>
        LET at == walk["close"].at
        IN /\ at # "idle"
           /\ at = "look" => /\ Descends(Threads[i], walk["close"].thread)
                             /\ Descends(walk["close"].thread, close.root)
           /\ at \in {"confirm", "claim"} => /\ walk["close"].root = close.root
                                             /\ walk["close"].object = sessions[close.root]
           /\ at = "done" => walk["close"].root = close.root

\* Position i is still to be looked at.
Ahead(i) == i \in close.queue \/ i > close.cursor

\* While a listing has found nothing, above every thread that is the session's alone
\* there is one that it will still come to.
Awaited ==
  close.at \in {"list", "check", "walk"} /\ close.children = <<>> =>
    \A t \in loaded :
      Alone(t, close.root) =>
        \E i \in DOMAIN Threads :
          /\ Ahead(i) /\ Threads[i] \in loaded
          /\ Alone(Threads[i], close.root) /\ Descends(t, Threads[i])

\* When it has found nothing to the end there is nothing, nor later.
Cleared ==
  /\ close.at \in {"unsubscribe", "shut", "remove"} =>
       \A t \in loaded : ~Alone(t, close.root)
  /\ \A root \in quiet : \A t \in loaded : ~Alone(t, root)

CInv == IInv /\ Registered /\ Still /\ Placed /\ Foretold /\ Awaited /\ Cleared

LEMMA ClosingInitial == Init => CInv
<1> SUFFICES ASSUME Init PROVE CInv
  OBVIOUS
<1>1. close = NoClose /\ close.at = "idle" /\ close.queue = {} /\ close.processed = {}
      /\ close.children = <<>>
  BY DEF Init, NoClose
<1>2. Registered /\ Still
  BY <1>1 DEF Init, Registered, Still, Born
<1>3. Placed /\ Foretold /\ Awaited /\ Cleared
  BY <1>1 DEF Init, Placed, Foretold, Awaited, Cleared
<1>4. QED
  BY <1>2, <1>3, Initial DEF CInv

\* A thread below another one has a parent that is too.
LEMMA DescendsUp ==
  ASSUME NEW t \in Thread, NEW u \in Thread, Descends(t, u), t # u
  PROVE  parent[t] \in Thread /\ Descends(parent[t], u)
<1>1. ASSUME NEW line \in SUBSET Thread, Upward(line), u \notin line,
             parent[t] \in Thread => parent[t] \in line
      PROVE  FALSE
  <2>1. Upward(line \cup {t}) /\ u \notin line \cup {t} /\ line \cup {t} \in SUBSET Thread
    BY <1>1 DEF Upward
  <2>2. QED
    BY <2>1 DEF Descends, Upward
<1>2. parent[t] \in Thread
  <2>1. Upward({}) /\ {} \in SUBSET Thread
    BY DEF Upward
  <2>2. QED
    BY <1>1, <2>1
<1>3. QED
  BY <1>1, <1>2 DEF Descends, Upward

\* A spawned thread is below its parent and what that is below, and nothing else moves.
LEMMA DescendsBack ==
  ASSUME NEW child \in Thread, parent \in [Thread -> Thread \cup {None, Unborn}], ~Born(child),
         \A t \in Thread : parent[t] \in Thread => Born(parent[t]),
         NEW by \in Thread, Born(by), parent' = [parent EXCEPT ![child] = by],
         NEW t \in Thread, Born(t), NEW u \in Thread
  PROVE  /\ Descends(t, u)' => Descends(t, u)
         /\ Descends(child, u)' => u = child \/ Descends(by, u)
<1>1. ASSUME NEW line \in SUBSET Thread, Upward(line)
      PROVE  Upward(line \ {child})' /\ line \ {child} \in SUBSET Thread
  BY <1>1 DEF Upward, Born
<1>2. ASSUME NEW line \in SUBSET Thread, Upward(line), by \in line
      PROVE  Upward(line \cup {child})' /\ line \cup {child} \in SUBSET Thread
  BY <1>2 DEF Upward, Born
<1>3. ASSUME Descends(t, u)', NEW line \in SUBSET Thread, t \in line, Upward(line)
      PROVE  u \in line
  <2>1. t \in line \ {child}
    BY <1>3 DEF Born
  <2>2. Upward(line \ {child})' /\ line \ {child} \in SUBSET Thread
    BY <1>1, <1>3
  <2>3. u \in line \ {child}
    BY <1>3, <2>1, <2>2, ZenonT(60) DEF Descends, Upward
  <2>4. QED
    BY <2>3
<1>4. ASSUME Descends(child, u)', u # child, NEW line \in SUBSET Thread, by \in line, Upward(line)
      PROVE  u \in line
  <2>1. Upward(line \cup {child})' /\ line \cup {child} \in SUBSET Thread
    BY <1>2, <1>4
  <2>2. u \in line \cup {child}
    BY <1>4, <2>1 DEF Descends, Upward
  <2>3. QED
    BY <1>4, <2>2
<1>5. QED
  BY <1>3, <1>4 DEF Descends, Upward

\* What a step does not touch stays as it is.
LEMMA SameLines ==
  ASSUME parent' = parent, ever' = ever, untold' = untold, NEW t, NEW u
  PROVE  (Descends(t, u)' <=> Descends(t, u)) /\ (Alone(t, u)' <=> Alone(t, u))
  BY DEF Descends, Alone

LEMMA AloneNotEver ==
  ASSUME NEW t \in Thread, NEW root, Alone(t, root) PROVE t \notin ever /\ t # root
  BY DescendsSelf DEF Alone

\* Above a thread that is a session's alone, below the session, so is every other.
LEMMA AloneAbove ==
  ASSUME TypeOK, NEW t \in Thread, NEW u \in Thread, NEW root \in Thread, Alone(t, root),
         Descends(t, u), Descends(u, root)
  PROVE  /\ u # root => Alone(u, root)
         /\ u \in ever \cup untold => u = root
<1>1. ever \cup untold \subseteq Thread
  BY DEF TypeOK
<1>2. \A other \in (ever \cup untold) \ {root} : ~Descends(u, other)
  BY <1>1, DescendsOn DEF Alone
<1>3. QED
  BY <1>2, DescendsSelf DEF Alone

\* The parts of the invariant under steps that leave most of what they speak of alone.
LEMMA RegisteredSame ==
  ASSUME Registered, UNCHANGED <<parent, ever, untold, sessions, open>>,
         close.at = "remove" => close' = close
  PROVE  Registered'
  BY DEF Registered, Born

LEMMA FindsSame ==
  ASSUME Foretold, UNCHANGED <<parent, ever, untold, sessions, close>>, walk'["close"] = walk["close"]
  PROVE  Foretold'
<1> DEFINE near == walk["close"]
<1>1. walk'["close"] = near
  OBVIOUS
<1>2. ASSUME close.at = "walk", NEW i \in close.queue, IsNext(i)', Alone(Threads[i], close.root)'
      PROVE  IsNext(i) /\ Alone(Threads[i], close.root)
  BY <1>2 DEF IsNext, Alone, Descends
<1>3. QED
  BY <1>1, <1>2 DEF Foretold, Descends

LEMMA AwaitedSame ==
  ASSUME Awaited, UNCHANGED <<parent, ever, untold, loaded, close>>
  PROVE  Awaited'
  BY DEF Awaited, Alone, Descends, Ahead

LEMMA ClearedSame ==
  ASSUME Cleared, UNCHANGED <<parent, ever, untold, quiet>>, loaded' \subseteq loaded,
         close'.at \in {"unsubscribe", "shut", "remove"} =>
           close.at \in {"unsubscribe", "shut", "remove"} /\ close'.root = close.root
  PROVE  Cleared'
  BY DEF Cleared, Alone, Descends

LEMMA RestSame ==
  ASSUME CInv, UNCHANGED <<codexVars, stateVars, close, pastVars>>
  PROVE  Registered' /\ Still' /\ Placed' /\ Awaited' /\ Cleared'
<1> USE DEF CInv, codexVars, stateVars, pastVars
<1>1. Registered' /\ Awaited' /\ Cleared'
  BY RegisteredSame, AwaitedSame, ClearedSame
<1>2. Still' /\ Placed'
  BY DEF Still, Placed, Born
<1>3. QED
  BY <1>1, <1>2

LEMMA TurnsClear ==
  ASSUME CInv, NEW t \in Thread, Starts(t) \/ TurnEnds(t)
  PROVE  Registered' /\ Still' /\ Placed' /\ Foretold' /\ Awaited' /\ Cleared'
<1>1. /\ UNCHANGED <<parent, loaded, stateVars, roots, walk, close, pastVars>>
      /\ active' \subseteq active \cup {t}
      /\ t \in active' => t \in active \/ (sessions[t] # 0 /\ t # close.root)
  BY DEF Starts, TurnEnds
<1>2. Registered' /\ Foretold' /\ Awaited' /\ Cleared'
  BY <1>1, RegisteredSame, FindsSame, AwaitedSame, ClearedSame DEF CInv, stateVars, pastVars
<1>3. Placed'
  BY <1>1 DEF CInv, Placed
<1>4. Still'
  BY <1>1 DEF CInv, Still, Registered, Born, stateVars, pastVars
<1>5. QED
  BY <1>2, <1>3, <1>4

LEMMA SpawnsClear ==
  ASSUME CInv, NEW t \in Thread, NEW child \in Thread, Spawns(t, child)
  PROVE  Registered' /\ Still' /\ Placed' /\ Foretold' /\ Awaited' /\ Cleared'
<1>1. /\ parent \in [Thread -> Thread \cup {None, Unborn}] /\ ever \cup untold \subseteq Thread
      /\ \A u \in Thread : parent[u] \in Thread => Born(parent[u])
      /\ active \subseteq Thread /\ loaded \subseteq Thread /\ quiet \subseteq Thread
      /\ close \in Close /\ Threads \in Seq(Thread)
      /\ \A u \in active \cup loaded : Born(u)
      /\ \A i \in close.queue : Born(Threads[i])
  BY DEF CInv, IInv, TypeOK, Living
<1>2. /\ t \in active /\ ~Born(child) /\ Born(t) /\ parent' = [parent EXCEPT ![child] = t]
      /\ active' = active \cup {child} /\ loaded' = loaded \cup {child}
      /\ UNCHANGED <<sessions, opened, open, roots, walk, close, quiet, ever, untold>>
  BY <1>1 DEF Spawns, stateVars, pastVars
<1>3. Registered /\ Still /\ Placed /\ Foretold /\ Awaited /\ Cleared
  BY DEF CInv
<1>4. \A u \in Thread : Born(u) => Born(u)' /\ u # child
  BY <1>1, <1>2 DEF Born
<1>5. \A u, v \in Thread : Born(u) => (Descends(u, v)' <=> Descends(u, v))
  BY <1>1, <1>2, DescendsStays, DescendsBack
<1>6. \A v \in Thread : Descends(child, v)' => v = child \/ Descends(t, v)
  BY <1>1, <1>2, DescendsBack
<1>7. \A u, v \in Thread : Born(u) => (Alone(u, v)' <=> Alone(u, v))
  BY <1>1, <1>2, <1>5 DEF Alone
<1>8. \A v \in Thread : Descends(t, v) => Descends(child, v)'
  <2>1. Descends(child, t)'
    BY <1>1, <1>2 DEF Descends
  <2>2. \A v \in Thread : Descends(t, v)' => Descends(child, v)'
    BY <2>1, <1>2 DEF Descends
  <2>3. QED
    BY <2>2, <1>2, <1>5
\* The new thread can be a session's alone only if its parent is.
<1>9. ASSUME NEW root \in Thread, Born(root), root \notin active, Alone(child, root)'
      PROVE  Alone(t, root) /\ t \in loaded
  <2>1. root # child /\ root # t /\ Descends(t, root)
    BY <1>2, <1>4, <1>6, <1>9 DEF Alone
  <2>2. \A other \in (ever \cup untold) \ {root} : ~Descends(t, other)
    BY <1>1, <1>2, <1>8, <1>9 DEF Alone
  <2>3. Alone(t, root)
    BY <2>1, <2>2 DEF Alone
  <2>4. QED
    BY <1>2, <1>3, <2>3, AloneNotEver DEF Still
<1>10. Registered'
  BY <1>1, <1>2, <1>3, <1>4 DEF Registered
<1>11. Still'
  <2>1. /\ close.processed \subseteq Thread /\ close.children \in Seq(Thread)
        /\ close.at = "drop" => close.children # <<>>
    BY <1>1 DEF Close, CInv, IInv, Busy
  <2>2. \A i \in DOMAIN close.children : close.children[i] \in Thread
    BY <2>1
  <2>3. close.at = "drop" => Head(close.children) # child
    <3>1. close.at = "drop" => 1 \in DOMAIN close.children /\ Head(close.children) = close.children[1]
      BY <2>1
    <3>2. QED
      BY <1>2, <1>3, <3>1 DEF Still
  <2>4. close.at # "idle" => close.root # child
    BY <1>1, <1>2, <1>3, <1>4 DEF CInv, IInv, Busy, Registered, Still
  <2>5. \A root \in quiet : root # child
    BY <1>1, <1>2, <1>3, <1>4 DEF Registered, Still
  <2>6. child \notin close.processed
    BY <1>2, <1>3 DEF Still
  <2>7. \A u \in close.processed : Born(u)'
    BY <1>3, <1>4, <2>1 DEF Still
  <2>8. \A i \in DOMAIN close.children : Born(close.children[i])'
    BY <1>2, <1>3, <1>4, <2>2 DEF Still
  <2>9. QED
    BY <1>2, <1>3, <2>3, <2>4, <2>5, <2>6, <2>7, <2>8 DEF Still
<1>12. Placed'
  BY <1>2, <1>3 DEF Placed
<1>13. close.at # "idle" => close.root \in Thread /\ Born(close.root) /\ close.root \notin active
  BY <1>3 DEF CInv, IInv, Busy, Living, Still
<1>14. Foretold'
  <2> SUFFICES ASSUME close.at = "walk", NEW i \in close.queue, IsNext(i)',
                      Alone(Threads[i], close.root)'
               PROVE  LET at == walk["close"].at
                      IN /\ at # "idle"
                         /\ at = "look" => /\ Descends(Threads[i], walk["close"].thread)'
                                           /\ Descends(walk["close"].thread, close.root)'
                         /\ at \in {"confirm", "claim"} =>
                              /\ walk["close"].root = close.root
                              /\ walk["close"].object = sessions[close.root]
                         /\ at = "done" => walk["close"].root = close.root
    BY <1>2 DEF Foretold
  <2>1. IsNext(i) /\ Threads[i] \in Thread /\ Born(Threads[i])
    BY <1>1, <1>2 DEF IsNext, Close
  <2>0. close.root \in Thread
    BY <1>13
  <2>2. Alone(Threads[i], close.root)
    <3>1. PICK root \in Thread : root = close.root /\ root = close'.root
      BY <1>2, <2>0
    <3>2. Alone(Threads[i], root)'
      BY <3>1
    <3>3. QED
      BY <1>7, <2>1, <3>1, <3>2
  <2>3. walk["close"].at = "look" => walk["close"].thread \in Thread /\ Born(walk["close"].thread)
    BY DEF CInv, IInv, Passed, Walkers
  <2>4. QED
    <3>a. PICK u : u = walk["close"].thread
      OBVIOUS
    <3>b. PICK root \in Thread : root = close.root
      BY <2>0
    <3>1. /\ root = close.root /\ u = walk["close"].thread
          /\ root = close'.root /\ u = (walk["close"].thread)'
      BY <1>2, <3>a, <3>b
    <3>2. walk["close"].at = "look" => Descends(Threads[i], u) /\ Descends(u, root)
      BY <1>3, <2>1, <2>2, <3>1 DEF Foretold
    <3>3. walk["close"].at = "look" => Descends(Threads[i], u)' /\ Descends(u, root)'
      BY <1>5, <2>1, <2>3, <3>1, <3>2
    <3>4. QED
      BY <1>3, <2>1, <2>2, <3>1, <3>3 DEF Foretold
<1>15. Awaited'
  <2> SUFFICES ASSUME close.at \in {"list", "check", "walk"}, close.children = <<>>,
                      NEW u \in loaded', Alone(u, close.root)'
               PROVE  \E i \in DOMAIN Threads :
                        /\ Ahead(i) /\ Threads[i] \in loaded'
                        /\ Alone(Threads[i], close.root)' /\ Descends(u, Threads[i])'
    BY <1>2 DEF Awaited, Ahead
  <2>1. PICK v \in loaded : /\ Alone(v, close.root) /\ (u = child => v = t)
                            /\ u # child => v = u
    BY <1>2, <1>7, <1>9, <1>13, <1>1
  <2>2. PICK i \in DOMAIN Threads :
          /\ Ahead(i) /\ Threads[i] \in loaded /\ Alone(Threads[i], close.root)
          /\ Descends(v, Threads[i])
    BY <1>3, <2>1 DEF Awaited
  <2>3. Threads[i] \in Thread /\ v \in Thread /\ Born(v) /\ Born(Threads[i])
    BY <1>1, <2>2
  <2>4. Descends(u, Threads[i])'
    BY <1>2, <1>5, <1>8, <2>1, <2>2, <2>3
  <2>5. Alone(Threads[i], close.root)'
    <3>1. PICK root \in Thread : root = close.root /\ root = close'.root
      BY <1>2, <1>13
    <3>2. Alone(Threads[i], root)'
      BY <1>7, <2>2, <2>3, <3>1
    <3>3. QED
      BY <3>1, <3>2
  <2>6. QED
    BY <1>2, <2>2, <2>4, <2>5
<1>16. Cleared'
  <2>1. ASSUME NEW root \in Thread, Born(root), root \notin active,
               \A u \in loaded : ~Alone(u, root)
        PROVE  \A u \in loaded' : ~Alone(u, root)'
    BY <1>1, <1>2, <1>7, <1>9, <2>1
  <2>2. \A root \in quiet : root \in Thread /\ Born(root) /\ root \notin active
    BY <1>1, <1>3 DEF Still, Registered
  <2>3. QED
    BY <1>2, <1>3, <1>13, <2>1, <2>2 DEF Cleared
<1>17. QED
  BY <1>10, <1>11, <1>12, <1>14, <1>15, <1>16

LEMMA OpensClear ==
  ASSUME CInv, NEW t \in Thread, Opens(t)
  PROVE  Registered' /\ Still' /\ Placed' /\ Foretold' /\ Awaited' /\ Cleared'
<1>1. /\ opened \in Nat /\ sessions \in [Thread -> 0..opened] /\ open \subseteq 1..opened
      /\ ever \cup untold \subseteq Thread /\ loaded \subseteq Thread /\ quiet \subseteq Thread
      /\ close \in Close /\ Threads \in Seq(Thread)
      /\ Registered /\ Still /\ Placed /\ Foretold /\ Awaited /\ Cleared /\ TypeOK
  BY DEF CInv, IInv, TypeOK
<1>2. /\ Born(t) /\ sessions[t] = 0 /\ sessions' = [sessions EXCEPT ![t] = opened + 1]
      /\ open' = open \cup {opened + 1} /\ loaded' = loaded \cup {t} /\ quiet' = quiet \ {t}
      /\ ever' = ever \cup {t} /\ UNCHANGED <<parent, active, roots, walk, close, untold>>
  BY DEF Opens
<1>3. \A u, v : Descends(u, v)' <=> Descends(u, v)
  BY <1>2 DEF Descends
<1>4. \A u, v : Alone(u, v)' <=> Alone(u, v) /\ (v # t => ~Descends(u, t))
  BY <1>2, <1>3 DEF Alone
<1>5. close.at # "idle" => close.root \in Thread /\ close.root # t
  BY <1>1, <1>2 DEF CInv, IInv, Busy, Still
<1>6. Registered'
  <2>1. \A u \in Thread : sessions'[u] = IF u = t THEN opened + 1 ELSE sessions[u]
    BY <1>1, <1>2
  <2>2. \A u \in Thread : sessions[u] # opened + 1 /\ opened + 1 # 0
    BY <1>1
  <2>3. QED
    BY <1>1, <1>2, <2>1, <2>2 DEF Registered, Born
<1>7. Still' /\ Placed'
  BY <1>1, <1>2, <1>5 DEF Still, Placed, Born
<1>8. Foretold'
  <2>1. ASSUME close.at = "walk", NEW i \in close.queue, IsNext(i)', Alone(Threads[i], close.root)'
        PROVE  IsNext(i) /\ Alone(Threads[i], close.root) /\ sessions'[close.root] = sessions[close.root]
    <3>1. PICK root \in Thread : root = close.root /\ root = close'.root /\ root # t
      BY <1>2, <1>5, <2>1
    <3>2. Alone(Threads[i], root)'
      BY <2>1, <3>1
    <3>3. IsNext(i)
      BY <1>2, <2>1 DEF IsNext
    <3>4. QED
      BY <1>1, <1>2, <1>4, <3>1, <3>2, <3>3
  <2>2. QED
    BY <1>1, <1>2, <1>3, <2>1 DEF Foretold
<1>9. Awaited'
  <2> SUFFICES ASSUME close.at \in {"list", "check", "walk"}, close.children = <<>>,
                      NEW u \in loaded', Alone(u, close.root)'
               PROVE  \E i \in DOMAIN Threads :
                        /\ Ahead(i) /\ Threads[i] \in loaded'
                        /\ Alone(Threads[i], close.root)' /\ Descends(u, Threads[i])'
    BY <1>2 DEF Awaited, Ahead
  <2>1. PICK root \in Thread : root = close.root /\ root = close'.root /\ root # t
    BY <1>2, <1>5
  <2>2. Alone(u, root) /\ ~Descends(u, t) /\ u \in loaded /\ u \in Thread
    <3>1. Alone(u, root)' /\ u \in Thread
      BY <1>1, <1>2, <2>1
    <3>2. Alone(u, root) /\ ~Descends(u, t)
      BY <1>4, <2>1, <3>1
    <3>3. QED
      BY <1>2, <3>1, <3>2, DescendsSelf
  <2>3. PICK i \in DOMAIN Threads :
          /\ Ahead(i) /\ Threads[i] \in loaded /\ Alone(Threads[i], root)
          /\ Descends(u, Threads[i])
    BY <1>1, <2>1, <2>2 DEF Awaited
  <2>4. Threads[i] \in Thread
    BY <1>1
  <2>5. ~Descends(Threads[i], t)
    BY <2>2, <2>3, <2>4, DescendsOn
  <2>6. Alone(Threads[i], root)'
    BY <1>4, <2>3, <2>5
  <2>7. Descends(u, Threads[i])'
    BY <1>3, <2>3
  <2>8. QED
    BY <1>2, <2>1, <2>3, <2>6, <2>7
<1>10. Cleared'
  <2>1. ASSUME NEW root \in Thread, root # t, \A u \in loaded : ~Alone(u, root)
        PROVE  \A u \in loaded' : ~Alone(u, root)'
    BY <1>2, <1>4, <2>1, DescendsSelf
  <2>2. QED
    BY <1>1, <1>2, <1>5, <2>1 DEF Cleared
<1>11. QED
  BY <1>6, <1>7, <1>8, <1>9, <1>10

\* A close that is refused the metadata of a thread takes it for nobody's: none of the
\* threads it speaks for from then on is below that one.
LEMMA RefusalClears ==
  ASSUME CInv, ReadRefused("close")
  PROVE  Registered' /\ Still' /\ Placed' /\ Foretold' /\ Awaited' /\ Cleared'
<1> DEFINE gone == walk["close"].thread
<1>1. /\ UNCHANGED <<codexVars, stateVars, roots, close, quiet, ever>>
      /\ untold' = untold \cup {gone} /\ walk["close"].at = "look" /\ Candidate(gone) = None
  BY DEF ReadRefused, Asks
<1>2. gone \in Thread /\ Born(gone) /\ TypeOK /\ Threads \in Seq(Thread)
  BY <1>1 DEF CInv, IInv, Passed, Walkers
<1> HIDE DEF gone
<1>3. \A u, v : Descends(u, v)' <=> Descends(u, v)
  BY <1>1 DEF Descends, codexVars
<1>4. \A u, v : Alone(u, v)' <=> Alone(u, v) /\ (v # gone => ~Descends(u, gone))
  BY <1>1, <1>3 DEF Alone
<1>5. sessions[gone] = 0
  BY <1>1, <1>2 DEF Candidate
<1>6. Registered' /\ Still' /\ Placed'
  BY <1>1, <1>2 DEF CInv, Registered, Still, Placed, Born, codexVars, stateVars
<1>7. close.at # "idle" => close.root # gone /\ close.root \in Thread
  BY <1>5 DEF CInv, Still, IInv, Busy
<1>8. Foretold'
  <2> SUFFICES ASSUME close'.at = "walk", NEW i \in close'.queue, IsNext(i)',
                      Alone(Threads[i], close.root)'
               PROVE  FALSE
    BY DEF Foretold
  <2>1. PICK root \in Thread : root = close.root /\ root = close'.root /\ root # gone
    BY <1>1, <1>7
  <2>2. Alone(Threads[i], root)'
    BY <2>1
  <2>3. Alone(Threads[i], root) /\ ~Descends(Threads[i], gone)
    BY <1>4, <2>1, <2>2
  <2>4. IsNext(i) /\ i \in close.queue
    BY <1>1 DEF IsNext
  <2>5. Descends(Threads[i], walk["close"].thread)
    BY <1>1, <2>1, <2>3, <2>4 DEF CInv, Foretold
  <2>6. QED
    BY <2>3, <2>5 DEF gone
<1>9. Awaited'
  <2> SUFFICES ASSUME close'.at \in {"list", "check", "walk"}, close'.children = <<>>,
                      NEW u \in loaded', Alone(u, close.root)'
               PROVE  \E i \in DOMAIN Threads :
                        /\ Ahead(i)' /\ Threads[i] \in loaded'
                        /\ Alone(Threads[i], close.root)' /\ Descends(u, Threads[i])'
    BY DEF Awaited
  <2>0. PICK root \in Thread : root = close.root /\ root = close'.root /\ root # gone
    BY <1>1, <1>7
  <2>1. u \in loaded /\ u \in Thread /\ Alone(u, root) /\ ~Descends(u, gone)
    <3>1. Alone(u, root)' /\ u \in Thread /\ u \in loaded
      BY <1>1, <1>2, <2>0 DEF TypeOK, codexVars
    <3>2. QED
      BY <1>4, <2>0, <3>1
  <2>2. PICK i \in DOMAIN Threads :
          /\ Ahead(i) /\ Threads[i] \in loaded /\ Alone(Threads[i], root)
          /\ Descends(u, Threads[i])
    BY <1>1, <2>0, <2>1 DEF CInv, Awaited
  <2>3. PICK v \in Thread : v = Threads[i]
    BY <1>2
  <2>4. ~Descends(v, gone)
    BY <1>2, <2>1, <2>2, <2>3, DescendsOn
  <2>5. Alone(v, root)' /\ Descends(u, v)'
    BY <1>3, <1>4, <2>0, <2>2, <2>3, <2>4
  <2>6. QED
    BY <1>1, <2>0, <2>2, <2>3, <2>5 DEF Ahead, codexVars
<1>10. Cleared'
  BY <1>1, <1>4 DEF CInv, Cleared, codexVars
<1>11. QED
  BY <1>6, <1>8, <1>9, <1>10

\* The walk of the close, from a thread that is its session's alone, goes up to the session.
LEMMA WalkingClears ==
  ASSUME CInv, Walking
  PROVE  Registered' /\ Still' /\ Placed' /\ Foretold' /\ Awaited' /\ Cleared'
<1> PICK w \in Walkers : Look(w) \/ Climbs(w) \/ ReadRefused(w) \/ Confirm(w) \/ Claim(w)
  BY DEF Walking
<1>1. /\ UNCHANGED <<codexVars, stateVars, close, quiet, ever>>
      /\ \A v \in Walkers : v # w => walk'[v] = walk[v]
      /\ (untold' = untold \/ (ReadRefused(w) /\ w = "close"))
  BY DEF Look, Climbs, ReadRefused, Confirm, Claim, Answers, CInv, IInv, TypeOK, pastVars
<1>0. CASE ReadRefused(w) /\ w = "close"
  BY <1>0, RefusalClears
<1> SUFFICES ASSUME ~(ReadRefused(w) /\ w = "close")
             PROVE  Registered' /\ Still' /\ Placed' /\ Foretold' /\ Awaited' /\ Cleared'
  BY <1>0
<1>2. Registered' /\ Still' /\ Placed' /\ Awaited' /\ Cleared'
  BY <1>1, RestSame DEF pastVars
<1>3. CASE w # "close"
  BY <1>1, <1>2, <1>3, FindsSame DEF Walkers, CInv, codexVars, stateVars, pastVars
<1>4. CASE w = "close"
  <2>0. /\ TypeOK /\ Registered /\ Still /\ Foretold /\ close \in Close /\ Threads \in Seq(Thread)
        /\ walk \in [Walkers -> Walk] /\ "close" \in Walkers
        /\ roots \in [Thread -> Thread \cup {None}]
    BY DEF CInv, IInv, TypeOK, Walkers
  <2> SUFFICES ASSUME close.at = "walk", NEW i \in close.queue, IsNext(i),
                      Alone(Threads[i], close.root)
               PROVE  LET at == walk'["close"].at
                      IN /\ at # "idle"
                         /\ at = "look" => /\ Descends(Threads[i], walk'["close"].thread)
                                           /\ Descends(walk'["close"].thread, close.root)
                         /\ at \in {"confirm", "claim"} =>
                              /\ walk'["close"].root = close.root
                              /\ walk'["close"].object = sessions[close.root]
                         /\ at = "done" => walk'["close"].root = close.root
    <3>1. ASSUME close'.at = "walk", NEW i \in close'.queue, IsNext(i)',
                 Alone(Threads[i], close.root)'
          PROVE  IsNext(i) /\ Alone(Threads[i], close.root)
      BY <1>1, <3>1 DEF IsNext, Alone, Descends, codexVars
    <3>2. \A u, v : Descends(u, v)' <=> Descends(u, v)
      BY <1>1 DEF Descends, codexVars
    <3>3. QED
      BY <1>1, <1>2, <3>1, <3>2 DEF Foretold, stateVars
  <2>1. PICK root, t, near :
          /\ root = close.root /\ t = Threads[i] /\ near = walk["close"]
          /\ root \in Thread /\ t \in Thread /\ near \in Walk /\ Alone(t, root)
          /\ near.at = "look" => Descends(t, near.thread) /\ Descends(near.thread, root)
          /\ near.at \in {"confirm", "claim"} => near.root = root /\ near.object = sessions[root]
          /\ near.at = "look" => near.thread \in Thread
          /\ sessions[root] # 0 /\ sessions[root] \in open
    <3>1. close.root \in Thread
      BY DEF CInv, IInv, Busy
    <3>2. Threads[i] \in Thread
      BY <2>0 DEF Close
    <3>3. sessions[close.root] # 0 /\ sessions[close.root] \in open
      BY <2>0, <3>1 DEF Registered, Still
    <3>4. walk["close"].at = "look" => walk["close"].thread \in Thread
      BY <2>0 DEF CInv, IInv, Passed
    <3>5. QED
      BY <2>0, <3>1, <3>2, <3>3, <3>4 DEF Foretold
  <2>2. CASE Look("close")
    <3>1. near.at = "look" /\ Candidate(near.thread) # None
      BY <2>1, <2>2 DEF Look
    <3>2. walk'["close"] = [near EXCEPT !.at = "confirm", !.root = Candidate(near.thread),
                                        !.object = sessions[Candidate(near.thread)]]
      BY <2>0, <2>1, <2>2 DEF Look
    <3>3. PICK owner \in Thread : owner = Candidate(near.thread) /\ Descends(near.thread, owner)
      BY <2>1, <3>1, CandidateIsAncestor DEF CInv
    <3>4. sessions[owner] # 0
      BY <3>1, <3>3 DEF Candidate
    <3>5. owner = root
      BY <2>0, <2>1, <3>1, <3>3, <3>4, DescendsOn DEF Registered, Alone
    <3>6. QED
      BY <2>1, <3>2, <3>3, <3>5 DEF Walk
  <2>3. CASE Climbs("close")
    <3>1. near.at = "look" /\ Candidate(near.thread) = None
      BY <2>1, <2>3 DEF Climbs, Asks
    <3>2. near.thread # root
      BY <2>1, <3>1 DEF Candidate
    <3>3. /\ parent[near.thread] \in Thread /\ Descends(parent[near.thread], root)
          /\ Descends(near.thread, parent[near.thread])
      BY <2>1, <3>1, <3>2, DescendsUp, DescendsParent
    <3>4. walk'["close"] = [near EXCEPT !.thread = parent[near.thread],
                                        !.visited = near.visited \cup {near.thread}]
      BY <2>0, <2>1, <2>3, <3>3 DEF Climbs
    <3>5. Descends(t, parent[near.thread])
      BY <2>1, <3>1, <3>3, DescendsOn
    <3>6. QED
      BY <2>1, <3>1, <3>3, <3>4, <3>5 DEF Walk
  <2>4. CASE Confirm("close")
    <3>1. near.at = "confirm" /\ near.object \in open
      BY <2>1, <2>4 DEF Confirm
    <3>2. walk'["close"] = [near EXCEPT !.at = "claim"]
      BY <2>0, <2>1, <2>4, <3>1 DEF Confirm
    <3>3. QED
      BY <2>1, <3>1, <3>2 DEF Walk
  <2>5. CASE Claim("close")
    <3>1. near.at = "claim" /\ sessions[near.root] = near.object
      BY <2>1, <2>5 DEF Claim
    <3>2. Answers("close", root)
      BY <2>1, <2>5, <3>1 DEF Claim
    <3>3. walk'["close"].at = "done" /\ walk'["close"].root = root
      BY <2>0, <3>2 DEF Answers, Idle
    <3>4. QED
      BY <2>1, <3>3
  <2>6. QED
    BY <1>4, <2>2, <2>3, <2>4, <2>5
<1>5. QED
  BY <1>2, <1>3, <1>4

LEMMA PumpClears ==
  ASSUME CInv, NEW t \in Thread, PumpWalks(t)
  PROVE  Registered' /\ Still' /\ Placed' /\ Foretold' /\ Awaited' /\ Cleared'
<1>1. UNCHANGED <<codexVars, stateVars, close, pastVars>> /\ walk'["close"] = walk["close"]
  BY DEF PumpWalks, Walks, CInv, IInv, TypeOK, Walkers
<1>2. QED
  BY <1>1, RestSame, FindsSame DEF CInv, codexVars, stateVars, pastVars

\* Every thread has its place in the listing, and an answer ends before what it leaves out.
LEMMA PlaceOf == \A t \in Thread : \E i \in DOMAIN Threads : Threads[i] = t
  BY DEF Thread, ToSet

LEMMA PageEnd ==
  ASSUME NEW cursor \in Nat, NEW last \in Page(cursor), \A i \in Page(cursor) : i <= last,
         NEW i \in Beyond(cursor)
  PROVE  i \in Page(cursor) \/ i > last
<1> DEFINE Before(k) == {j \in Beyond(cursor) : j < k}
<1>1. Threads \in Seq(Thread) /\ Beyond(cursor) \subseteq 1..Len(Threads) /\ Len(Threads) \in Nat
  BY DEF Beyond
<1>2. last \in Beyond(cursor) /\ Cardinality(Before(last)) < PageSize
  BY DEF Page
<1>3. CASE i <= last
  <2>1. Before(i) \subseteq Before(last) /\ Before(last) \subseteq 1..Len(Threads)
    BY <1>1, <1>2, <1>3
  <2>2. IsFiniteSet(Before(last))
    <3>1. PICK n \in Nat : n = Len(Threads)
      BY <1>1
    <3>2. IsFiniteSet(1..n)
      <4>1. 1 \in Int /\ n \in Int
        BY <3>1
      <4>2. QED
        BY ONLY <4>1, FS_Interval
    <3>3. QED
      BY <2>1, <3>1, <3>2, FS_Subset
  <2>3. /\ Cardinality(Before(i)) <= Cardinality(Before(last))
        /\ Cardinality(Before(i)) \in Nat /\ Cardinality(Before(last)) \in Nat
    BY <2>1, <2>2, FS_Subset, FS_CardinalityType
  <2>4. Cardinality(Before(i)) < PageSize
    BY <1>2, <2>3
  <2>5. QED
    BY <2>4 DEF Page
<1>4. CASE ~(i <= last)
  BY <1>1, <1>2, <1>4
<1>5. QED
  BY <1>3, <1>4

\* A listing that begins has everything before it.
LEMMA AllAwaited ==
  ASSUME CInv, UNCHANGED <<parent, ever, untold, loaded>>, close'.cursor = 0
  PROVE  Awaited'
<1> SUFFICES ASSUME NEW t \in loaded', Alone(t, close.root)'
             PROVE  \E i \in DOMAIN Threads :
                      /\ Ahead(i)' /\ Threads[i] \in loaded'
                      /\ Alone(Threads[i], close.root)' /\ Descends(t, Threads[i])'
  BY DEF Awaited
<1>1. t \in Thread
  BY DEF CInv, IInv, TypeOK
<1>2. PICK i \in DOMAIN Threads : Threads[i] = t
  BY <1>1, PlaceOf
<1>3. i > 0 /\ Ahead(i)'
  BY <1>2 DEF Ahead
<1>4. Descends(t, t)'
  BY <1>1 DEF Descends
<1>5. QED
  BY <1>2, <1>3, <1>4

\* What a close may still come to is left when it passes a thread that is not its alone.
LEMMA PassesOver ==
  ASSUME CInv, NEW i \in DOMAIN Threads, UNCHANGED <<parent, ever, untold, loaded>>,
         close'.root = close.root, close'.cursor = close.cursor,
         close'.queue = close.queue \ {i}, close'.children = close.children,
         close.at \in {"check", "walk"},
         ~(Threads[i] \in loaded /\ Alone(Threads[i], close.root))
  PROVE  Awaited'
<1> SUFFICES ASSUME close.children = <<>>, NEW t \in loaded, Alone(t, close.root)'
             PROVE  \E j \in DOMAIN Threads :
                      /\ Ahead(j)' /\ Threads[j] \in loaded
                      /\ Alone(Threads[j], close.root)' /\ Descends(t, Threads[j])'
  BY DEF Awaited
<1>1. PICK root : root = close.root /\ root = close'.root
  OBVIOUS
<1>2. \A u, v : (Alone(u, v)' <=> Alone(u, v)) /\ (Descends(u, v)' <=> Descends(u, v))
  BY SameLines
<1>3. Alone(t, root)
  BY <1>1, <1>2
<1>4. PICK j \in DOMAIN Threads :
        /\ Ahead(j) /\ Threads[j] \in loaded /\ Alone(Threads[j], root) /\ Descends(t, Threads[j])
  BY <1>1, <1>3 DEF CInv, Awaited
<1>5. j # i
  BY <1>1, <1>4
<1>6. Ahead(j)'
  BY <1>4, <1>5 DEF Ahead
<1>7. QED
  BY <1>1, <1>2, <1>4, <1>6

LEMMA BeginningClears ==
  ASSUME CInv, NEW t \in Thread, CloseBegins(t)
  PROVE  Registered' /\ Still' /\ Placed' /\ Foretold' /\ Awaited' /\ Cleared'
<1>1. /\ close.at = "idle" /\ sessions[t] # 0 /\ t \notin active
      /\ close' = [NoClose EXCEPT !.at = "list", !.root = t]
      /\ UNCHANGED <<codexVars, stateVars, roots, walk, pastVars>>
  BY DEF CloseBegins
<1>2. /\ close'.at = "list" /\ close'.root = t /\ close'.queue = {} /\ close'.cursor = 0
      /\ close'.children = <<>> /\ close'.processed = {}
  BY <1>1 DEF NoClose
<1>3. Registered' /\ Cleared'
  BY <1>1, <1>2, RegisteredSame, ClearedSame DEF CInv, codexVars, stateVars, pastVars
<1>4. Awaited'
  BY <1>1, <1>2, AllAwaited DEF codexVars, pastVars
<1>5. Placed' /\ Foretold'
  BY <1>2 DEF Placed, Foretold
<1>6. Still'
  BY <1>1, <1>2 DEF CInv, Still, codexVars, stateVars, pastVars
<1>7. QED
  BY <1>3, <1>4, <1>5, <1>6

\* An answer moves the cursor behind what it names.
LEMMA ListClears ==
  ASSUME CInv, List
  PROVE  Registered' /\ Still' /\ Placed' /\ Foretold' /\ Awaited' /\ Cleared'
<1>1. PICK last \in Page(close.cursor) :
        /\ \A i \in Page(close.cursor) : i <= last
        /\ close' = [close EXCEPT !.at = "check", !.cursor = last, !.queue = Page(close.cursor)]
  BY DEF List
<1>2. close.at = "list" /\ UNCHANGED <<codexVars, stateVars, roots, walk, pastVars>>
  BY DEF List
<1>3. close \in Close /\ loaded \subseteq Thread /\ close.cursor \in Nat
  BY DEF CInv, IInv, TypeOK, Close
<1>4. /\ close'.at = "check" /\ close'.root = close.root /\ close'.queue = Page(close.cursor)
      /\ close'.cursor = last /\ close'.children = close.children
      /\ close'.processed = close.processed
  BY <1>1, <1>3 DEF Close
<1>5. Registered' /\ Cleared'
  BY <1>2, <1>4, RegisteredSame, ClearedSame DEF CInv, codexVars, stateVars, pastVars
<1>6. Placed' /\ Foretold'
  BY <1>4 DEF Placed, Foretold
<1>7. Still'
  BY <1>2, <1>4 DEF CInv, Still, Born, codexVars, stateVars, pastVars
<1>8. Awaited'
  <2> SUFFICES ASSUME close.children = <<>>, NEW t \in loaded, Alone(t, close.root)'
               PROVE  \E j \in DOMAIN Threads :
                        /\ Ahead(j)' /\ Threads[j] \in loaded
                        /\ Alone(Threads[j], close.root)' /\ Descends(t, Threads[j])'
    BY <1>2, <1>4 DEF Awaited, codexVars
  <2>1. PICK root : root = close.root /\ root = close'.root
    BY <1>4
  <2>2. \A u, v : (Alone(u, v)' <=> Alone(u, v)) /\ (Descends(u, v)' <=> Descends(u, v))
    BY <1>2, SameLines DEF codexVars, pastVars
  <2>3. Alone(t, root)
    BY <2>1, <2>2
  <2>4. PICK j \in DOMAIN Threads :
          /\ Ahead(j) /\ Threads[j] \in loaded /\ Alone(Threads[j], root)
          /\ Descends(t, Threads[j])
    BY <1>2, <2>1, <2>3 DEF CInv, Awaited
  <2>5. j \in Beyond(close.cursor)
    BY <1>2, <2>4 DEF Ahead, Beyond, CInv, Placed
  <2>6. j \in Page(close.cursor) \/ j > last
    BY <1>1, <1>3, <2>5, PageEnd
  <2>7. Ahead(j)'
    BY <1>4, <2>6 DEF Ahead
  <2>8. QED
    BY <2>1, <2>2, <2>4, <2>7
<1>9. QED
  BY <1>5, <1>6, <1>7, <1>8

LEMMA CheckClears ==
  ASSUME CInv, NEW i \in DOMAIN Threads, Check(i)
  PROVE  Registered' /\ Still' /\ Placed' /\ Foretold' /\ Awaited' /\ Cleared'
<1>1. /\ close.at = "check" /\ IsNext(i)
      /\ UNCHANGED <<codexVars, stateVars, roots, pastVars>>
  BY DEF Check
<1>2. /\ close \in Close /\ loaded \subseteq Thread /\ Threads[i] \in Thread
      /\ close.queue \subseteq DOMAIN Threads /\ walk \in [Walkers -> Walk]
      /\ Threads \in Seq(Thread) /\ close.root \in Thread
  BY <1>1 DEF CInv, IInv, TypeOK, Close, Busy
<1>3. CASE Known(Threads[i]) /\ close' = [close EXCEPT !.queue = close.queue \ {i}]
  <2>1. /\ close'.at = "check" /\ close'.root = close.root /\ close'.cursor = close.cursor
        /\ close'.queue = close.queue \ {i} /\ close'.children = close.children
        /\ close'.processed = close.processed
    BY <1>1, <1>2, <1>3 DEF Close
  <2>2. Registered' /\ Cleared'
    BY <1>1, <2>1, RegisteredSame, ClearedSame DEF CInv, codexVars, stateVars, pastVars
  <2>3. Placed' /\ Foretold'
    BY <2>1 DEF Placed, Foretold
  <2>4. Still'
    BY <1>1, <2>1 DEF CInv, Still, Born, codexVars, stateVars, pastVars
  <2>5. ~(Threads[i] \in loaded /\ Alone(Threads[i], close.root))
    BY <1>2, <1>3, AloneNotEver DEF Known, CInv, Still
  <2>6. Awaited'
    BY <1>1, <2>1, <2>5, PassesOver DEF codexVars, pastVars
  <2>7. QED
    BY <2>2, <2>3, <2>4, <2>6
<1>4. CASE Walks("close", Threads[i]) /\ close' = [close EXCEPT !.at = "walk"]
  <2>1. /\ close'.at = "walk" /\ close'.root = close.root /\ close'.cursor = close.cursor
        /\ close'.queue = close.queue /\ close'.children = close.children
        /\ close'.processed = close.processed
    BY <1>2, <1>4 DEF Close
  <2>2. Registered' /\ Cleared'
    BY <1>1, <2>1, RegisteredSame, ClearedSame DEF CInv, codexVars, stateVars, pastVars
  <2>3. Placed' /\ Still'
    BY <1>1, <2>1 DEF CInv, Placed, Still, Born, codexVars, stateVars, pastVars
  <2>4. Awaited'
    BY <1>1, <2>1 DEF CInv, Awaited, Alone, Descends, Ahead, codexVars, pastVars
  <2>5. walk'["close"].at = "look" /\ walk'["close"].thread = Threads[i]
    BY <1>2, <1>4 DEF Walks, Idle, Walkers
  <2>6. Foretold'
    <3>1. ASSUME NEW j \in close'.queue, IsNext(j)' PROVE j = i
      BY <1>1, <1>2, <2>1, <3>1 DEF IsNext
    <3>2. Descends(Threads[i], Threads[i])'
      BY DEF Descends
    <3>3. Alone(Threads[i], close.root)' => Descends(Threads[i], close.root)'
      BY DEF Alone
    <3>4. QED
      BY <2>5, <3>1, <3>2, <3>3 DEF Foretold
  <2>7. QED
    BY <2>2, <2>3, <2>4, <2>6
<1>5. QED
  BY <1>3, <1>4 DEF Check

\* A walk that finds another owner was of a thread that is not the session's alone.
LEMMA CheckedClears ==
  ASSUME CInv, NEW i \in DOMAIN Threads, Checked(i)
  PROVE  Registered' /\ Still' /\ Placed' /\ Foretold' /\ Awaited' /\ Cleared'
<1>1. /\ close.at = "walk" /\ walk["close"].at = "done" /\ IsNext(i)
      /\ UNCHANGED <<codexVars, stateVars, roots, pastVars>>
  BY DEF Checked
<1>2. /\ close \in Close /\ loaded \subseteq Thread /\ Threads[i] \in Thread
      /\ close.children \in Seq(Thread) /\ Born(Threads[i]) /\ i \in close.queue
  BY <1>1 DEF CInv, IInv, TypeOK, Close, Living, IsNext
<1>3. PICK more : more = IF walk["close"].root = close.root
                         THEN Append(close.children, Threads[i]) ELSE close.children
  OBVIOUS
<1>4. /\ close'.at = "check" /\ close'.root = close.root /\ close'.cursor = close.cursor
      /\ close'.queue = close.queue \ {i} /\ close'.children = more
      /\ close'.processed = close.processed
  BY <1>2, <1>3 DEF Checked, Close
<1>5. Registered' /\ Cleared'
  BY <1>1, <1>4, RegisteredSame, ClearedSame DEF CInv, codexVars, stateVars, pastVars
<1>6. Placed' /\ Foretold'
  BY <1>4 DEF Placed, Foretold
<1>7. Still'
  <2>1. \A j \in DOMAIN more : Born(more[j])
    BY <1>2, <1>3 DEF CInv, Still
  <2>2. QED
    BY <1>1, <1>4, <2>1 DEF CInv, Still, Born, codexVars, stateVars, pastVars
<1>8. Awaited'
  <2>1. CASE walk["close"].root = close.root
    <3>1. close'.children # <<>>
      BY <1>2, <1>3, <1>4, <2>1
    <3>2. QED
      BY <3>1 DEF Awaited
  <2>2. CASE walk["close"].root # close.root
    <3>1. ~Alone(Threads[i], close.root)
      BY <1>1, <1>2, <2>2 DEF CInv, Foretold
    <3>2. QED
      BY <1>1, <1>3, <1>4, <2>2, <3>1, PassesOver DEF codexVars, pastVars
  <2>3. QED
    BY <2>1, <2>2
<1>9. QED
  BY <1>5, <1>6, <1>7, <1>8

LEMMA NextPageClears ==
  ASSUME CInv, NextPage
  PROVE  Registered' /\ Still' /\ Placed' /\ Foretold' /\ Awaited' /\ Cleared'
<1>1. /\ close.at = "check" /\ close.queue = {} /\ close \in Close
      /\ UNCHANGED <<codexVars, stateVars, roots, walk, pastVars>>
  BY DEF NextPage, CInv, IInv, TypeOK
<1>2. /\ close'.at = "list" /\ close'.root = close.root /\ close'.cursor = close.cursor
      /\ close'.queue = close.queue /\ close'.children = close.children
      /\ close'.processed = close.processed
  BY <1>1 DEF NextPage, Close
<1>3. Registered' /\ Cleared'
  BY <1>1, <1>2, RegisteredSame, ClearedSame DEF CInv, codexVars, stateVars, pastVars
<1>4. Placed' /\ Foretold' /\ Still'
  BY <1>1, <1>2 DEF CInv, Placed, Foretold, Still, Born, codexVars, stateVars, pastVars
<1>5. Awaited'
  BY <1>1, <1>2 DEF CInv, Awaited, Alone, Descends, Ahead, codexVars, pastVars
<1>6. QED
  BY <1>3, <1>4, <1>5

\* The listing that found nothing to its end.
LEMMA ListedClears ==
  ASSUME CInv, Listed
  PROVE  Registered' /\ Still' /\ Placed' /\ Foretold' /\ Awaited' /\ Cleared'
<1>1. /\ close.at = "list" /\ Beyond(close.cursor) = {} /\ close \in Close
      /\ UNCHANGED <<codexVars, stateVars, walk, pastVars>>
  BY DEF Listed, CInv, IInv, TypeOK
<1>2. /\ close'.at \in {"unsubscribe", "settle"}
      /\ close'.at = "unsubscribe" => close.children = <<>>
      /\ close'.root = close.root /\ close'.queue = close.queue
      /\ close'.children = close.children /\ close'.processed = close.processed
  BY <1>1 DEF Listed, Close
<1>3. Registered'
  BY <1>1, <1>2, RegisteredSame DEF CInv, codexVars, stateVars, pastVars
<1>4. Placed' /\ Foretold' /\ Awaited'
  BY <1>1, <1>2 DEF CInv, Placed, Foretold, Awaited
<1>5. Still'
  BY <1>1, <1>2 DEF CInv, Still, Born, codexVars, stateVars, pastVars
<1>6. Cleared'
  <2>1. close'.at = "unsubscribe" => \A t \in loaded : ~Alone(t, close.root)
    BY <1>1, <1>2 DEF CInv, Awaited, Ahead, Beyond, Placed
  <2>2. \A u, v : Alone(u, v)' <=> Alone(u, v)
    BY <1>1, SameLines DEF codexVars, pastVars
  <2>3. \A root \in quiet : \A t \in loaded : ~Alone(t, root)
    BY DEF CInv, Cleared
  <2>4. PICK root : root = close.root /\ root = close'.root
    BY <1>2
  <2>5. QED
    BY <1>1, <1>2, <2>1, <2>2, <2>3, <2>4 DEF Cleared, codexVars, pastVars
<1>7. QED
  BY <1>3, <1>4, <1>5, <1>6

\* A child that is settled is dropped, and noted.
LEMMA SettlingClears ==
  ASSUME CInv, Settle \/ Drop
  PROVE  Registered' /\ Still' /\ Placed' /\ Foretold' /\ Awaited' /\ Cleared'
<1>1. /\ close \in Close /\ close.root \in Thread /\ close.children # <<>>
      /\ close.children \in Seq(Thread) /\ close.at \in {"settle", "drop"}
      /\ close.queue = {}
      /\ \A i \in DOMAIN close.children : Born(close.children[i])
      /\ UNCHANGED <<parent, active, stateVars, roots, walk, pastVars>>
  BY DEF Settle, Drop, CInv, IInv, TypeOK, Busy, Placed, Still, Close, codexVars
<1>2. PICK child \in Thread : child = Head(close.children) /\ Born(child)
  BY <1>1
<1>3. CASE Settle
  <2>1. /\ close'.at = "drop" /\ close'.root = close.root /\ close'.queue = close.queue
        /\ close'.children = close.children /\ close'.processed = close.processed
        /\ close.at = "settle" /\ child \notin active /\ loaded' = loaded
    BY <1>1, <1>2, <1>3 DEF Settle, Close, codexVars
  <2>2. Registered' /\ Cleared'
    BY <1>1, <2>1, RegisteredSame, ClearedSame DEF CInv, stateVars, pastVars
  <2>3. Placed' /\ Foretold' /\ Awaited'
    BY <1>1, <2>1 DEF Placed, Foretold, Awaited
  <2>4. Still'
    BY <1>1, <1>2, <2>1 DEF CInv, Still, Born, stateVars, pastVars
  <2>5. QED
    BY <2>2, <2>3, <2>4
<1>4. CASE Drop
  <2>0. Tail(close.children) \in Seq(Thread)
    BY <1>1
  <2>1. PICK rest \in Seq(Thread) : rest = Tail(close.children)
    BY <2>0
  <2>2. /\ close'.at = IF rest = <<>> THEN "round" ELSE "settle"
        /\ close'.root = close.root /\ close'.queue = close.queue
        /\ close'.children = rest /\ close'.processed = close.processed \cup {child}
        /\ close.at = "drop" /\ loaded' = loaded \ {child}
    BY <1>1, <1>2, <1>4, <2>1 DEF Drop, Close
  <2>3. Registered' /\ Cleared'
    BY <1>1, <2>2, RegisteredSame, ClearedSame DEF CInv, stateVars, pastVars
  <2>4. Placed' /\ Foretold' /\ Awaited'
    BY <1>1, <2>2 DEF Placed, Foretold, Awaited
  <2>5. \A j \in DOMAIN rest : Born(rest[j])
    <3>1. \A j \in DOMAIN rest : j + 1 \in DOMAIN close.children /\ rest[j] = close.children[j + 1]
      BY <1>1, <2>1
    <3>2. QED
      BY <1>1, <3>1
  <2>6. child \in active => child \in ever
    BY <1>2, <2>2 DEF CInv, Still
  <2>7. Still'
    <3>1. \A t \in active' : t \in loaded' \cup ever'
      BY <1>1, <2>2, <2>6 DEF CInv, Still, pastVars
    <3>2. \A t \in close'.processed : Born(t)' /\ (t \in loaded' => t \in ever')
      BY <1>1, <1>2, <2>2 DEF CInv, Still, pastVars, Born
    <3>3. \A j \in DOMAIN close'.children : Born(close.children[j])'
      BY <1>1, <2>2, <2>5 DEF Born
    <3>4. QED
      BY <1>1, <2>2, <3>1, <3>2, <3>3 DEF CInv, Still, stateVars, pastVars
  <2>8. QED
    BY <2>3, <2>4, <2>7
<1>5. QED
  BY <1>3, <1>4

LEMMA NextRoundClears ==
  ASSUME CInv, NextRound
  PROVE  Registered' /\ Still' /\ Placed' /\ Foretold' /\ Awaited' /\ Cleared'
<1>1. /\ close.at = "round" /\ close \in Close
      /\ UNCHANGED <<codexVars, stateVars, roots, walk, pastVars>>
  BY DEF NextRound, CInv, IInv, TypeOK
<1>2. /\ close'.at = "list" /\ close'.root = close.root /\ close'.queue = close.queue
      /\ close'.cursor = 0 /\ close'.children = close.children
      /\ close'.processed = close.processed
  BY <1>1 DEF NextRound, Close
<1>3. Registered' /\ Cleared'
  BY <1>1, <1>2, RegisteredSame, ClearedSame DEF CInv, codexVars, stateVars, pastVars
<1>4. Awaited'
  BY <1>1, <1>2, AllAwaited DEF codexVars, pastVars
<1>5. Placed' /\ Foretold' /\ Still'
  BY <1>1, <1>2 DEF CInv, Placed, Foretold, Still, Born, codexVars, stateVars, pastVars
<1>6. QED
  BY <1>3, <1>4, <1>5

\* The session's own thread, its object, its entry.
LEMMA LeavingClears ==
  ASSUME CInv, Unsubscribe \/ Shut \/ Unregister
  PROVE  Registered' /\ Still' /\ Placed' /\ Foretold' /\ Awaited' /\ Cleared'
<1>1. PICK root \in Thread : root = close.root
  BY DEF Unsubscribe, Shut, Unregister, CInv, IInv, Busy
<1>2. /\ close \in Close /\ opened \in Nat /\ sessions \in [Thread -> 0..opened]
      /\ quiet \subseteq Thread /\ ever \cup untold \subseteq Thread
      /\ Registered /\ Still /\ Placed /\ Cleared
      /\ UNCHANGED <<parent, active, opened, roots, walk, ever, untold>>
  BY DEF Unsubscribe, Shut, Unregister, CInv, IInv, TypeOK, codexVars, stateVars, pastVars
<1>3. \A u, v : Alone(u, v)' <=> Alone(u, v)
  BY <1>2, SameLines
<1>4. CASE Unsubscribe
  <2>1. /\ close.at = "unsubscribe" /\ close'.at = "shut" /\ close'.root = root
        /\ close'.queue = close.queue /\ close'.children = close.children
        /\ close'.processed = close.processed
        /\ loaded' = loaded \ {root} /\ quiet' = quiet \cup {root} /\ UNCHANGED stateVars
    BY <1>1, <1>2, <1>4 DEF Unsubscribe, Close
  <2>2. Registered'
    BY <1>2, <2>1, RegisteredSame DEF stateVars
  <2>3. Placed' /\ Foretold' /\ Awaited'
    BY <1>2, <2>1 DEF Placed, Foretold, Awaited
  <2>4. Cleared'
    BY <1>1, <1>3, <2>1 DEF CInv, Cleared
  <2>5. root \in ever /\ root \notin active /\ sessions[root] # 0
    BY <1>1, <1>2, <2>1 DEF Still, Registered
  <2>6. Still'
    BY <1>1, <1>2, <2>1, <2>5 DEF Still, Born, stateVars
  <2>7. QED
    BY <2>2, <2>3, <2>4, <2>6
<1>5. CASE Shut
  <2>1. /\ close.at = "shut" /\ close'.at = "remove" /\ close'.root = root
        /\ close'.queue = close.queue /\ close'.children = close.children
        /\ close'.processed = close.processed
        /\ open' = open \ {sessions[root]} /\ sessions' = sessions
        /\ UNCHANGED <<loaded, quiet>>
    BY <1>1, <1>2, <1>5 DEF Shut, Close, codexVars, pastVars
  <2>2. Registered'
    BY <1>1, <1>2, <2>1 DEF Registered, Born
  <2>3. Placed' /\ Foretold' /\ Awaited'
    BY <1>2, <2>1 DEF Placed, Foretold, Awaited
  <2>4. Cleared'
    BY <1>1, <1>2, <1>3, <2>1 DEF Cleared
  <2>5. Still'
    BY <1>1, <1>2, <2>1 DEF Still, Born
  <2>6. QED
    BY <2>2, <2>3, <2>4, <2>5
<1>6. CASE Unregister
  <2>1. /\ close.at = "remove" /\ close' = NoClose /\ sessions' = [sessions EXCEPT ![root] = 0]
        /\ UNCHANGED <<loaded, open, quiet>>
    BY <1>1, <1>6 DEF Unregister, codexVars, pastVars
  <2>2. /\ close'.at = "idle" /\ close'.queue = {} /\ close'.children = <<>>
        /\ close'.processed = {}
    BY <2>1 DEF NoClose
  <2>3. \A t \in Thread : sessions'[t] = IF t = root THEN 0 ELSE sessions[t]
    BY <1>2, <2>1
  <2>4. Registered'
    BY <1>1, <1>2, <2>1, <2>3 DEF Registered, Born
  <2>5. Placed' /\ Foretold' /\ Awaited'
    BY <2>2 DEF Placed, Foretold, Awaited
  <2>6. Cleared'
    BY <1>2, <1>3, <2>1, <2>2 DEF Cleared
  <2>7. Still'
    BY <1>1, <1>2, <2>1, <2>2, <2>3 DEF Still
  <2>8. QED
    BY <2>4, <2>5, <2>6, <2>7
<1>7. QED
  BY <1>4, <1>5, <1>6

LEMMA FailingClears ==
  ASSUME CInv, CloseFails
  PROVE  Registered' /\ Still' /\ Placed' /\ Foretold' /\ Awaited' /\ Cleared'
<1>1. /\ close.at \notin {"idle", "shut", "remove"} /\ close' = NoClose
      /\ UNCHANGED <<codexVars, stateVars, roots, pastVars>>
  BY DEF CloseFails
<1>2. /\ close'.at = "idle" /\ close'.queue = {} /\ close'.children = <<>>
      /\ close'.processed = {}
  BY <1>1 DEF NoClose
<1>3. Registered' /\ Cleared'
  BY <1>1, <1>2, RegisteredSame, ClearedSame DEF CInv, codexVars, stateVars, pastVars
<1>4. Placed' /\ Foretold' /\ Awaited' /\ Still'
  BY <1>1, <1>2 DEF CInv, Placed, Foretold, Awaited, Still, codexVars, stateVars, pastVars
<1>5. QED
  BY <1>3, <1>4

LEMMA StutterClears ==
  ASSUME CInv, UNCHANGED vars
  PROVE  Registered' /\ Still' /\ Placed' /\ Foretold' /\ Awaited' /\ Cleared'
  BY RestSame, FindsSame DEF vars, CInv, codexVars, stateVars, pastVars

\* The inductive invariant of a close: a listing that finds nothing has looked at a
\* thread above every one that is the session's alone, and the walk from such a
\* thread cannot miss the session.
THEOREM ClosingInvariant == Spec => []CInv
<1>1. CInv /\ [Next]_vars => CInv'
  <2> SUFFICES ASSUME CInv, [Next]_vars PROVE CInv'
    OBVIOUS
  <2>1. IInv'
    BY CodexKeeps, OpensKeeps, PumpKeeps, WalkingKeeps, ListingKeeps, EndingKeeps, StutterKeeps
       DEF Next, Closing, CInv
  <2>2. CASE Codex
    BY <2>2, TurnsClear, SpawnsClear, <2>1 DEF Codex, CInv
  <2>3. CASE Walking
    BY <2>3, WalkingClears, <2>1 DEF CInv
  <2>4. CASE Closing
    BY <2>4, <2>1, ListClears, CheckClears, CheckedClears, NextPageClears, ListedClears,
       SettlingClears, NextRoundClears, LeavingClears, FailingClears DEF Closing, CInv
  <2>5. CASE \E t \in Thread : Opens(t) \/ PumpWalks(t) \/ CloseBegins(t)
    BY <2>5, <2>1, OpensClear, PumpClears, BeginningClears DEF CInv
  <2>6. CASE UNCHANGED vars
    BY <2>6, <2>1, StutterClears DEF CInv
  <2>7. QED
    BY <2>2, <2>3, <2>4, <2>5, <2>6 DEF Next
<1>2. QED
  BY ClosingInitial, <1>1, PTL DEF Spec

\* A close that has succeeded leaves nothing of its session at work or subscribed to
\* (teardown.rs 13-103), in any tree of threads, whatever is spawned, opened and
\* walked while it goes through the listing, if no other session was opened above.
THEOREM ClosesClean == Spec => []ClosedClean
<1>1. CInv => ClosedClean
  <2> SUFFICES ASSUME CInv, NEW root \in quiet, NEW t \in active \cup loaded, Alone(t, root)
               PROVE  FALSE
    BY DEF ClosedClean
  <2>1. t \in Thread
    BY DEF CInv, IInv, TypeOK
  <2>2. t \notin ever
    BY <2>1, AloneNotEver
  <2>3. t \in loaded
    BY <2>2 DEF CInv, Still
  <2>4. QED
    BY <2>3 DEF CInv, Cleared
<1>2. QED
  BY <1>1, ClosingInvariant, PTL

----------------------------------------------------------------------------
(* Requests of extensions *)

HIDE DescendantsAssumption DEF None, Unborn
USE ExtensionAssumption DEF Nothing

----------------------------------------------------------------------------
(* The inductive invariant of the requests *)

\* Requests that go through the gate of a session.
InSession(c) == ThreadMethod(Request(c)) \/ Standard(Request(c))

\* Those that hold it.
Bound(c) ==
  \/ call[c].at \in {"claim", "streams", "end", "attach", "reattach"}
  \/ call[c].at \in {"ready", "sent"} /\ InSession(c)

\* Those that stop a session's streams.
Shuts(c) == Teardown(Request(c)) \/ Resumes(c)

\* Those that have begun to, and may close the session's object.
Silences(c) == Shuts(c) /\ call[c].at \in {"streams", "sent", "end"}

Settled(c) == call[c].at \notin {"new", "arrived", "refused"}

\* What authorization leaves of a request.
Lawful(c) ==
  /\ HostMethod(Request(c)) => AllowHost
  /\ ThreadMethod(Request(c)) =>
       \/ Request(c).thread \in {Request(c).session, Nothing}
       \/ Request(c).thread \in Children /\ Owner[Request(c).thread] = Request(c).session

\* A request is where its class takes it.
Knowledge(c) ==
  /\ call[c].at = "new" => stopping[c] = {}
  /\ call[c].at # "new" => Request(c) \in Requests
  /\ call[c].at \in {"look", "gate", "added", "claim", "streams", "end", "attach", "reattach"} =>
       InSession(c)
  /\ call[c].at = "claim" => Request(c).class = "start"
  /\ call[c].at \in {"added", "attach", "reattach"} => Resumes(c)
  /\ call[c].at = "streams" \/ stopping[c] # {} => Shuts(c)
  /\ call[c].at = "end" => Teardown(Request(c)) /\ stopping[c] = {}
  /\ call[c].at = "ready" => ~Shuts(c)
  /\ call[c].at = "sent" /\ stopping[c] = {} => ~Standard(Request(c))
  /\ InSession(c) /\ Settled(c) => Request(c).session \in SessionIds
  /\ Settled(c) => Lawful(c)

\* Gates are held by those that need them; a request about a thread was admitted, and no
\* close has got in since.
Gated(c) ==
  Bound(c) => /\ call[c].object \in Object /\ gate[call[c].object] = c
              /\ ThreadMethod(Request(c)) =>
                   /\ call[c].object \in live
                   /\ call[c].object \in closing => Teardown(Request(c))

\* An object that a request has found keeps its name.
Found(c) ==
  call[c].at \in {"gate", "added"} \/ Bound(c) =>
    call[c].object \in 1..made /\ names[call[c].object] = Request(c).session

\* The table names objects by their names, and an open object that it does not name has strayed.
TableSound ==
  /\ \A o \in 1..made : names[o] \in SessionIds
  /\ \A t \in SessionIds : objects[t] # 0 => names[objects[t]] = t
  /\ \A o \in live : objects[names[o]] = o \/ o \in strays

\* A claim has an open object of its session that no one closes without stopping the stream.
Witness(o, s) ==
  /\ o \in live /\ names[o] = claims[s]
  /\ \A c \in Calls : Silences(c) /\ call[c].object = o => s \in stopping[c]

StreamsOpen == \A s \in Streams : claims[s] # Nothing => \E o \in live : Witness(o, s)

\* What is on its way to the backend: one message of a call, which waits for its verdict
\* or has given it up.
Messages == {wire[i] : i \in 1..Len(wire)}

Genuine(m) ==
  LET c == m.by
  IN /\ call[c].at \in {"sent", "failed"}
     /\ call[c].at = "sent" => reply[c] = Nothing
     /\ m.kind = Kind(c) /\ m.stream = StreamOf(c)

WireSound ==
  /\ \A i, j \in 1..Len(wire) : wire[i].by = wire[j].by => i = j
  /\ \A m \in Messages : Genuine(m)

\* A claim stands for a start that is ready or on its way, for the stream that runs, or for
\* the verdict that will end it: one of those, and what starts or runs is the session's own.
Starting(c, s) ==
  /\ Request(c).class = "start" /\ Request(c).stream = s
  /\ call[c].at = "ready" \/ \E m \in Messages : m.by = c

Ending(c, s) ==
  /\ call[c].at = "sent" /\ reply[c] # Nothing
  /\ Unclaims(Kind(c), reply[c]) /\ StreamOf(c) = s

ClaimsHeld ==
  \A s \in Streams :
    /\ running[s] # Nothing => claims[s] = running[s]
    /\ \A c \in Calls :
         /\ Starting(c, s) => claims[s] = Request(c).session
         /\ Starting(c, s) \/ Ending(c, s) => claims[s] # Nothing /\ running[s] = Nothing
         /\ \A d \in Calls : (Starting(c, s) \/ Ending(c, s)) /\ (Starting(d, s) \/ Ending(d, s))
                             => c = d

CallInv(c) == Knowledge(c) /\ Gated(c) /\ Found(c)

RequestsInv ==
  /\ RequestsTypeOK
  /\ \A c \in Calls : CallInv(c)
  /\ TableSound /\ StreamsOpen /\ WireSound /\ ClaimsHeld

LEMMA RequestsInitial == RequestsInit => RequestsInv
<1> SUFFICES ASSUME RequestsInit PROVE RequestsInv
  OBVIOUS
<1>1. RequestsTypeOK
  BY DEF RequestsInit, RequestsTypeOK, Call, NoRequest
<1>2. ASSUME NEW c \in Calls PROVE CallInv(c)
  BY DEF RequestsInit, CallInv, Knowledge, Gated, Found, Request, Bound, Settled, NoRequest
<1>3. TableSound /\ StreamsOpen
  BY DEF RequestsInit, TableSound, StreamsOpen
<1>4. WireSound /\ ClaimsHeld
  BY DEF RequestsInit, WireSound, Messages, ClaimsHeld, Starting, Ending
<1>5. QED
  BY <1>1, <1>2, <1>3, <1>4 DEF RequestsInv

----------------------------------------------------------------------------
(* What a step of one call leaves to the others *)

Places == {"new", "arrived", "look", "gate", "added", "claim", "ready", "sent", "streams",
           "end", "attach", "reattach", "done", "refused", "failed"}

\* One call moves, to a place.
Moves(c, place) ==
  /\ call' \in [Calls -> Call]
  /\ call'[c].at = place /\ call'[c].request = call[c].request
  /\ call'[c].object = call[c].object
  /\ \A d \in Calls \ {c} : call'[d] = call[d]

LEMMA GoesMoves ==
  ASSUME RequestsTypeOK, NEW c \in Calls, NEW place \in Places, Goes(c, place)
  PROVE  Moves(c, place)
<1>1. call \in [Calls -> Call] /\ call[c] \in Call /\ place \in Places
  BY DEF RequestsTypeOK
<1>2. [call[c] EXCEPT !.at = place] \in Call
  BY <1>1 DEF Call, Places
<1>3. call' = [call EXCEPT ![c] = [call[c] EXCEPT !.at = place]]
  BY DEF Goes
<1>4. call'[c] = [call[c] EXCEPT !.at = place] /\ \A d \in Calls \ {c} : call'[d] = call[d]
  BY <1>1, <1>3
<1>5. call' \in [Calls -> Call]
  BY <1>1, <1>2, <1>3
<1>6. QED
  BY <1>1, <1>4, <1>5 DEF Moves, Call

\* What is known of a request does not depend on where it is.
LEMMA SameRequest ==
  ASSUME NEW c, call'[c].request = call[c].request
  PROVE  /\ Request(c)' = Request(c) /\ (InSession(c)' <=> InSession(c))
         /\ (Shuts(c)' <=> Shuts(c)) /\ (Resumes(c)' <=> Resumes(c)) /\ (Lawful(c)' <=> Lawful(c))
  BY DEF Request, InSession, Shuts, Teardown, Resumes, Lawful, ThreadMethod, HostMethod, Standard

\* A step of a call, or of none, leaves other calls their place, and the objects whose gates
\* they hold.
Spares(c) ==
  /\ \A d \in Calls \ {c} : call'[d] = call[d] /\ stopping'[d] = stopping[d]
  /\ \A o \in Object : gate[o] \notin {Nothing, c} =>
       gate'[o] = gate[o] /\ (o \in live => o \in live') /\ (o \in closing' => o \in closing)
  /\ made' \in Nat /\ made' >= made /\ \A o \in 1..made : names'[o] = names[o]

LEMMA OthersKeep ==
  ASSUME RequestsInv, NEW c, NEW d \in Calls \ {c}, Spares(c)
  PROVE  CallInv(d)'
<1>1. call'[d] = call[d] /\ stopping'[d] = stopping[d]
  BY DEF Spares
<1>2. /\ Request(d)' = Request(d) /\ (InSession(d)' <=> InSession(d)) /\ (Shuts(d)' <=> Shuts(d))
      /\ (Resumes(d)' <=> Resumes(d)) /\ (Lawful(d)' <=> Lawful(d)) /\ (Bound(d)' <=> Bound(d))
  BY <1>1, SameRequest DEF Bound
<1>3. Knowledge(d)'
  BY <1>1, <1>2 DEF RequestsInv, CallInv, Knowledge, Settled
<1>4. Gated(d)'
  <2>1. Bound(d) => gate[call[d].object] \notin {Nothing, c} /\ call[d].object \in Object
    BY DEF RequestsInv, CallInv, Gated
  <2>2. QED
    BY <1>1, <1>2, <2>1 DEF RequestsInv, CallInv, Gated, Spares
<1>5. Found(d)'
  <2>1. made \in Nat
    BY DEF RequestsInv, RequestsTypeOK
  <2>2. QED
    BY <1>1, <1>2, <2>1 DEF RequestsInv, CallInv, Found, Spares
<1>6. QED
  BY <1>3, <1>4, <1>5 DEF CallInv

\* A call that has ended, or has found nothing to go on with, is known all the same.
LEMMA EndedKnown ==
  ASSUME RequestsInv, NEW c \in Calls, NEW place \in {"done", "failed", "refused"}, Moves(c, place),
         call[c].at # "new", place = "refused" \/ Settled(c), stopping'[c] = stopping[c]
  PROVE  CallInv(c)'
<1>1. /\ Request(c)' = Request(c) /\ (InSession(c)' <=> InSession(c)) /\ (Shuts(c)' <=> Shuts(c))
      /\ (Lawful(c)' <=> Lawful(c)) /\ call'[c].at = place
  BY SameRequest DEF Moves
<1>2. ~Bound(c)' /\ (Settled(c)' <=> place # "refused")
  BY <1>1 DEF Bound, Settled
<1>3. Knowledge(c)'
  BY <1>1, <1>2 DEF RequestsInv, CallInv, Knowledge
<1>4. Gated(c)' /\ Found(c)'
  BY <1>1, <1>2 DEF Gated, Found
<1>5. QED
  BY <1>3, <1>4 DEF CallInv

\* Gates are taken by those that find them free, and left by those that hold them.
LEMMA GatesSpared ==
  ASSUME RequestsInv, NEW c \in Calls,
         \/ UNCHANGED gate \/ Leave(c)
         \/ TakeGate(c) /\ call[c].object \in Object
  PROVE  /\ gate' \in [Object -> Calls \union {Nothing}]
         /\ \A o \in Object : gate[o] \notin {Nothing, c} => gate'[o] = gate[o]
<1>1. gate \in [Object -> Calls \union {Nothing}]
  BY DEF RequestsInv, RequestsTypeOK
<1>2. CASE UNCHANGED gate
  BY <1>1, <1>2
<1>3. CASE Leave(c)
  BY <1>1, <1>3 DEF Leave
<1>4. CASE TakeGate(c) /\ call[c].object \in Object
  BY <1>1, <1>4 DEF TakeGate
<1>5. QED
  BY <1>2, <1>3, <1>4

\* A claim keeps its witness, unless that is closed by a call that has nothing left to stop.
KeepsWitnesses(c, s) ==
  /\ \A o \in live \ live' : c \in Calls /\ Silences(c) /\ stopping[c] = {} /\ o = call[c].object
  /\ c \in Calls /\ Silences(c)' /\ names[call'[c].object] = claims[s] =>
       \/ s \in stopping'[c]
       \/ Silences(c) /\ call[c].object = call'[c].object /\ s \notin stopping[c]

LEMMA WitnessKept ==
  ASSUME RequestsInv, NEW c, Spares(c), NEW s \in Streams, claims[s] # Nothing, claims'[s] = claims[s],
         KeepsWitnesses(c, s)
  PROVE  \E o \in live' : Witness(o, s)'
<1>1. PICK o \in live : Witness(o, s)
  BY DEF RequestsInv, StreamsOpen
<1>2. o \in 1..made /\ names'[o] = names[o]
  BY DEF RequestsInv, RequestsTypeOK, Spares
<1>3. o \in live'
  BY <1>1 DEF KeepsWitnesses, Witness
<1>4. ASSUME NEW d \in Calls, Silences(d)', call'[d].object = o PROVE s \in stopping'[d]
  <2>1. CASE d # c
    <3>1. call'[d] = call[d] /\ stopping'[d] = stopping[d]
      BY <2>1 DEF Spares
    <3>2. Silences(d)
      BY <1>4, <3>1, SameRequest DEF Silences
    <3>3. QED
      BY <1>1, <1>4, <3>1, <3>2 DEF Witness
  <2>2. CASE d = c
    BY <1>1, <1>4, <2>2 DEF KeepsWitnesses, Witness
  <2>3. QED
    BY <2>1, <2>2
<1>5. QED
  BY <1>1, <1>2, <1>3, <1>4 DEF Witness

\* The elements of a queue have the type of its elements.
LEMMA MessagesTyped ==
  ASSUME RequestsTypeOK, NEW m \in Messages
  PROVE  m \in [kind : Classes, stream : Streams \union {Nothing}, by : Calls]
<1> DEFINE Message == [kind : Classes, stream : Streams \union {Nothing}, by : Calls]
<1>1. wire \in Seq(Message)
  BY DEF RequestsTypeOK
<1>2. PICK i \in 1..Len(wire) : m = wire[i]
  BY DEF Messages
<1> HIDE DEF Message
<1>3. wire[i] \in Message
  BY <1>1, <1>2
<1>4. QED
  BY <1>2, <1>3 DEF Message

\* What a call asks for does not depend on where it is.
LEMMA SameStream ==
  ASSUME NEW d \in Calls, Request(d)' = Request(d), stopping'[d] = stopping[d]
  PROVE  StreamOf(d)' = StreamOf(d) /\ Kind(d)' = Kind(d)
  BY DEF StreamOf, Kind

\* Messages of other calls stay what they are.
LEMMA OthersGenuine ==
  ASSUME NEW m \in Messages, m.by \in Calls, Genuine(m),
         call'[m.by] = call[m.by], stopping'[m.by] = stopping[m.by], reply'[m.by] = reply[m.by]
  PROVE  Genuine(m)'
<1>1. Request(m.by)' = Request(m.by)
  BY DEF Request
<1>2. StreamOf(m.by)' = StreamOf(m.by) /\ Kind(m.by)' = Kind(m.by)
  BY <1>1, SameStream
<1>3. QED
  BY <1>1, <1>2 DEF Genuine

\* A call that has nothing on its way leaves messages alone.
LEMMA WireKept ==
  ASSUME RequestsInv, NEW c, c \in Calls => call[c].at \notin {"sent", "failed"},
         UNCHANGED <<wire, reply>>,
         \A d \in Calls \ {c} : call'[d] = call[d] /\ stopping'[d] = stopping[d]
  PROVE  WireSound' /\ Messages' = Messages /\ \A m \in Messages : m.by # c
<1>1. Messages' = Messages
  BY DEF Messages
<1>2. \A m \in Messages : m.by \in Calls /\ m.by # c /\ Genuine(m)
  BY MessagesTyped DEF RequestsInv, WireSound, Genuine
<1>3. \A m \in Messages : Genuine(m)'
  BY <1>2, OthersGenuine
<1>4. QED
  BY <1>1, <1>2, <1>3 DEF RequestsInv, WireSound

\* The claims of calls that do not move.
LEMMA OthersClaim ==
  ASSUME NEW d \in Calls, NEW s \in Streams, call'[d] = call[d], stopping'[d] = stopping[d],
         reply'[d] = reply[d],
         (\E m \in Messages' : m.by = d) <=> (\E m \in Messages : m.by = d)
  PROVE  (Starting(d, s)' <=> Starting(d, s)) /\ (Ending(d, s)' <=> Ending(d, s))
         /\ Request(d)' = Request(d)
<1>1. Request(d)' = Request(d)
  BY DEF Request
<1>2. StreamOf(d)' = StreamOf(d) /\ Kind(d)' = Kind(d)
  BY <1>1, SameStream
<1>3. Starting(d, s)' <=> Starting(d, s)
  BY <1>1 DEF Starting
<1>4. Ending(d, s)' <=> Ending(d, s)
  BY <1>2 DEF Ending, Unclaims
<1>5. QED
  BY <1>1, <1>3, <1>4

\* A call that has nothing on its way, and takes no claim, leaves messages and claims alone.
LEMMA StreamsKept ==
  ASSUME RequestsInv, NEW c, Spares(c), UNCHANGED <<claims, backendVars>>,
         c \in Calls => /\ call[c].at \notin {"ready", "sent", "failed"} /\ call'[c].at # "sent"
                        /\ ~(call'[c].at = "ready" /\ Request(c)'.class = "start")
  PROVE  WireSound' /\ ClaimsHeld'
<1>0. UNCHANGED <<wire, reply, running>>
  BY DEF backendVars
<1>1. WireSound' /\ Messages' = Messages /\ \A m \in Messages : m.by # c
  BY <1>0, WireKept DEF Spares
<1>2. ASSUME NEW s \in Streams, c \in Calls PROVE ~Starting(c, s)' /\ ~Ending(c, s)'
  BY <1>1, <1>2 DEF Starting, Ending
<1>3. ASSUME NEW s \in Streams, NEW d \in Calls \ {c}
      PROVE  (Starting(d, s)' <=> Starting(d, s)) /\ (Ending(d, s)' <=> Ending(d, s))
             /\ Request(d)' = Request(d)
  BY <1>0, <1>1, OthersClaim DEF Spares
<1>4. ClaimsHeld'
  BY <1>0, <1>2, <1>3 DEF RequestsInv, ClaimsHeld
<1>5. QED
  BY <1>1, <1>4

\* What is left to show of a step that says nothing to the backend and takes no claim.
LEMMA StepKeeps ==
  ASSUME RequestsInv, NEW c, Spares(c), UNCHANGED <<claims, backendVars>>,
         RequestsTypeOK', TableSound', \A s \in Streams : KeepsWitnesses(c, s),
         c \in Calls => /\ CallInv(c)'
                        /\ call[c].at \notin {"ready", "sent", "failed"} /\ call'[c].at # "sent"
                        /\ ~(call'[c].at = "ready" /\ Request(c)'.class = "start")
  PROVE  RequestsInv'
<1>1. \A d \in Calls : CallInv(d)'
  BY OthersKeep
<1>2. StreamsOpen'
  BY WitnessKept DEF StreamsOpen
<1>3. WireSound' /\ ClaimsHeld'
  BY StreamsKept
<1>4. QED
  BY <1>1, <1>2, <1>3 DEF RequestsInv

\* One that leaves the sessions alone too, and does not begin to shut one.
LEMMA QuietKeeps ==
  ASSUME RequestsInv, NEW c \in Calls, NEW place \in Places, call'[c].at = place,
         \A d \in Calls \ {c} : call'[d] = call[d],
         UNCHANGED <<sessionVars, claims, stopping, backendVars>>, call' \in [Calls -> Call],
         UNCHANGED gate \/ Leave(c) \/ (TakeGate(c) /\ call[c].object \in Object),
         CallInv(c)', call[c].at \notin {"ready", "sent", "failed"},
         place \notin {"sent", "streams", "end"}, ~(place = "ready" /\ Request(c)'.class = "start")
  PROVE  RequestsInv'
<1>1. /\ UNCHANGED <<objects, made, names, live, closing, strays>> /\ UNCHANGED <<wire, reply, running>>
      /\ made \in Nat
  BY DEF sessionVars, backendVars, RequestsInv, RequestsTypeOK
<1>2. /\ gate' \in [Object -> Calls \union {Nothing}]
      /\ \A o \in Object : gate[o] \notin {Nothing, c} => gate'[o] = gate[o]
  BY GatesSpared
<1>3. RequestsTypeOK'
  BY <1>1, <1>2 DEF RequestsInv, RequestsTypeOK
<1>4. Spares(c)
  BY <1>1, <1>2 DEF Spares
<1>5. TableSound'
  BY <1>1 DEF RequestsInv, TableSound
<1>6. \A s \in Streams : KeepsWitnesses(c, s)
  BY <1>1 DEF KeepsWitnesses, Silences
<1>7. QED
  BY <1>3, <1>4, <1>5, <1>6, StepKeeps

----------------------------------------------------------------------------
(* A request on its way to its session *)

LEMMA ArrivesKeeps == ASSUME RequestsInv, NEW c \in Calls, NEW r \in Requests, Arrives(c, r) PROVE RequestsInv'
<1>1. /\ call'[c] = [at |-> "arrived", request |-> r, object |-> 0] /\ call[c].at = "new"
      /\ \A d \in Calls \ {c} : call'[d] = call[d]
      /\ UNCHANGED <<sessionVars, gate, claims, stopping, backendVars>>
      /\ call' \in [Calls -> Call]
  BY DEF Arrives, At, RequestsInv, RequestsTypeOK, Call
<1>2. Request(c)' = r /\ ~Bound(c)' /\ call'[c].at = "arrived" /\ stopping'[c] = {}
  BY <1>1 DEF Request, Bound, RequestsInv, CallInv, Knowledge
<1>3. CallInv(c)'
  BY <1>2 DEF CallInv, Knowledge, Gated, Found, Settled
<1>4. QED
  BY <1>1, <1>2, <1>3, QuietKeeps DEF Places

\* Authorization is for the request itself, also where it looks at what stands for it.
LEMMA AuthorizedLawful ==
  ASSUME NEW c \in Calls, Request(c) \in Requests, RequestsTypeOK,
         Founded(Request(c)), Authorized(Stands(Request(c)))
  PROVE  Lawful(c) /\ (ThreadMethod(Request(c)) => Request(c).session \in SessionIds)
<1> DEFINE r == Request(c)
<1>1. /\ WellFormed(r) /\ r.class \in Classes /\ r.session \in SessionIds \union {Nothing}
      /\ r.thread \in SessionIds \union Children \union {Nothing}
      /\ r = [class |-> r.class, session |-> r.session, thread |-> r.thread, stream |-> r.stream]
  OBVIOUS
<1>2. /\ Stands(r).class = r.class /\ Stands(r).session = r.session
      /\ r.class \notin {"stop", "read"} => Stands(r) = r
      /\ r.class = "read" => \/ Stands(r) = r
                             \/ r.thread \in Children /\ Stands(r).thread = r.session
      /\ r.class = "stop" => Stands(r).thread = claims[r.stream]
  BY <1>1 DEF Stands
<1>3. ThreadMethod(r) => /\ Stands(r).thread = r.session /\ r.session # Nothing
  BY <1>2 DEF Authorized, Agree, ThreadMethod
<1>4. HostMethod(r) => AllowHost
  BY <1>2 DEF Authorized, HostMethod
<1>5. ThreadMethod(r) => \/ r.thread \in {r.session, Nothing}
                         \/ r.thread \in Children /\ Owner[r.thread] = r.session
  BY <1>1, <1>2, <1>3 DEF Founded, WellFormed
<1>6. QED
  BY <1>1, <1>3, <1>4, <1>5 DEF Lawful

LEMMA ScopeKeeps == ASSUME RequestsInv, NEW c \in Calls, Scope(c) PROVE RequestsInv'
<1>1. /\ call[c].at = "arrived" /\ Request(c) \in Requests
      /\ UNCHANGED <<sessionVars, gate, claims, stopping, backendVars>>
  BY DEF Scope, At, RequestsInv, CallInv, Knowledge
<1>2. PICK place \in {"look", "ready", "refused"} :
        /\ Moves(c, place)
        /\ \/ Standard(Request(c)) /\ place = "look"
           \/ /\ ~Standard(Request(c)) /\ Founded(Request(c)) /\ Authorized(Stands(Request(c)))
              /\ place = IF ThreadMethod(Request(c)) THEN "look" ELSE "ready"
           \/ place = "refused"
  <2>1. \A place \in {"look", "ready", "refused"} : Goes(c, place) => Moves(c, place)
    BY GoesMoves DEF RequestsInv, Places
  <2>2. QED
    BY <2>1 DEF Scope
<1>3. /\ Request(c)' = Request(c) /\ (InSession(c)' <=> InSession(c)) /\ (Shuts(c)' <=> Shuts(c))
      /\ (Lawful(c)' <=> Lawful(c)) /\ call'[c].at = place
      /\ \A d \in Calls \ {c} : call'[d] = call[d]
  BY <1>2, SameRequest DEF Moves
<1>4. place # "refused" => Lawful(c) /\ (InSession(c) => Request(c).session \in SessionIds)
  <2>1. CASE Standard(Request(c))
    <3>1. WellFormed(Request(c)) /\ Request(c).session \in SessionIds \union {Nothing}
      BY <1>1
    <3>2. QED
      BY <2>1, <3>1 DEF WellFormed, Standard, Lawful, ThreadMethod, HostMethod
  <2>2. CASE ~Standard(Request(c))
    BY <1>1, <1>2, <2>2, AuthorizedLawful DEF InSession, RequestsInv
  <2>3. QED
    BY <2>1, <2>2
<1>5. Knowledge(c)'
  <2>1. place = "look" => InSession(c)
    BY <1>2 DEF InSession
  <2>2. place = "ready" => ~Shuts(c)
    BY <1>2 DEF Shuts, Teardown, Resumes, Standard, ThreadMethod
  <2>3. QED
    BY <1>1, <1>2, <1>3, <1>4, <2>1, <2>2 DEF RequestsInv, CallInv, Knowledge, Settled
<1>6. ~Bound(c)'
  BY <1>2, <1>3 DEF Bound, InSession
<1>7. CallInv(c)'
  BY <1>3, <1>5, <1>6 DEF CallInv, Gated, Found
<1>8. ~(place = "ready" /\ Request(c).class = "start")
  BY <1>2 DEF ThreadMethod, Standard
<1>9. QED
  BY <1>1, <1>2, <1>3, <1>7, <1>8, QuietKeeps DEF Moves, Places

\* A call that ends with the sessions as they are.
LEMMA EndKeeps ==
  ASSUME RequestsInv, NEW c \in Calls, NEW place \in {"refused", "failed", "done"}, Moves(c, place),
         call[c].at \in {"look", "gate", "added", "claim", "streams", "reattach"},
         UNCHANGED <<sessionVars, stopping, claims, backendVars>>,
         UNCHANGED gate \/ Leave(c)
  PROVE  RequestsInv'
<1>1. CallInv(c)'
  BY EndedKnown DEF Settled
<1>2. QED
  BY <1>1, QuietKeeps DEF Moves, Places

\* A session that is added is in the table, and nothing else is touched by it.
LEMMA AddsTable ==
  ASSUME RequestsInv, NEW t \in SessionIds, objects[t] = 0, Adds(t)
  PROVE  /\ made \in 0..MaxObjects /\ made' = made + 1 /\ made' \in Object /\ names'[made'] = t
         /\ objects' \in [SessionIds -> 0..made'] /\ names' \in [Object -> SessionIds \union {Nothing}]
         /\ live' \subseteq 1..made' /\ closing' \subseteq 1..made' /\ strays' \subseteq 1..made'
         /\ \A o \in 1..made : names'[o] = names[o]
         /\ live \subseteq live' /\ UNCHANGED <<closing, strays>>
         /\ TableSound'
<1>1. /\ made \in 0..MaxObjects /\ made' = made + 1 /\ made' \in Object
      /\ objects \in [SessionIds -> 0..made] /\ live \subseteq 1..made
      /\ names \in [Object -> SessionIds \union {Nothing}]
      /\ live' = live \union {made'} /\ objects' = [objects EXCEPT ![t] = made']
      /\ names' = [names EXCEPT ![made'] = t] /\ UNCHANGED <<closing, strays>>
  BY DEF Adds, RequestsInv, RequestsTypeOK, Object
<1>2. /\ objects' \in [SessionIds -> 0..made'] /\ live' \subseteq 1..made' /\ closing' \subseteq 1..made'
      /\ strays' \subseteq 1..made'
  BY <1>1 DEF RequestsInv, RequestsTypeOK
<1>3. /\ 1..made \subseteq Object /\ 1..made' = 1..made \union {made'} /\ made' \notin 1..made
  BY <1>1 DEF Object
<1>4. names'[made'] = t /\ \A o \in 1..made : names'[o] = names[o]
  BY <1>1, <1>3
<1>5. objects'[t] = made' /\ \A u \in SessionIds \ {t} : objects'[u] = objects[u]
  BY <1>1
<1>6. TableSound'
  <2>1. \A o \in 1..made' : names'[o] \in SessionIds
    BY <1>3, <1>4 DEF RequestsInv, TableSound
  <2>2. ASSUME NEW u \in SessionIds, objects'[u] # 0 PROVE names'[objects'[u]] = u
    <3>1. CASE u = t
      BY <1>4, <1>5, <3>1
    <3>2. CASE u # t
      <4>1. objects'[u] = objects[u] /\ objects[u] \in 1..made
        BY <1>1, <1>5, <2>2, <3>2
      <4>2. QED
        BY <1>4, <2>2, <4>1 DEF RequestsInv, TableSound
    <3>3. QED
      BY <3>1, <3>2
  <2>3. ASSUME NEW o \in live' PROVE objects'[names'[o]] = o \/ o \in strays'
    <3>1. CASE o = made'
      BY <1>4, <1>5, <3>1
    <3>2. CASE o \in live
      <4>1. o \in 1..made /\ names'[o] = names[o] /\ names[o] \in SessionIds /\ o # 0
        BY <1>1, <1>4, <3>2 DEF RequestsInv, TableSound
      <4>2. objects[names[o]] = o \/ o \in strays
        BY <3>2 DEF RequestsInv, TableSound
      <4>3. QED
        BY <1>1, <1>5, <4>1, <4>2
    <3>3. QED
      BY <1>1, <3>1, <3>2
  <2>4. QED
    BY <2>1, <2>2, <2>3 DEF TableSound
<1>7. names' \in [Object -> SessionIds \union {Nothing}]
  BY <1>1
<1>8. QED
  BY <1>1, <1>2, <1>4, <1>6, <1>7

LEMMA FindSessionKeeps == ASSUME RequestsInv, NEW c \in Calls, FindSession(c) PROVE RequestsInv'
<1> DEFINE t == Request(c).session
<1>1. /\ call[c].at = "look" /\ t \in SessionIds /\ InSession(c)
      /\ UNCHANGED <<gate, claims, stopping, backendVars>>
      /\ made \in 0..MaxObjects /\ objects[t] \in 0..made
  BY DEF FindSession, At, RequestsInv, RequestsTypeOK, CallInv, Knowledge, Settled
<1>2. CASE Goes(c, "refused") /\ UNCHANGED sessionVars
  <2>1. Moves(c, "refused")
    BY <1>2, GoesMoves DEF RequestsInv, Places
  <2>2. QED
    BY <1>1, <1>2, <2>1, EndKeeps
<1>3. ASSUME NEW place \in {"gate", "added"}, NEW o \in Object, Finds(c, place, o)
      PROVE  /\ call' \in [Calls -> Call] /\ call'[c].at = place /\ call'[c].object = o
             /\ \A d \in Calls \ {c} : call'[d] = call[d]
             /\ Request(c)' = Request(c) /\ (InSession(c)' <=> InSession(c))
             /\ (Shuts(c)' <=> Shuts(c)) /\ (Resumes(c)' <=> Resumes(c)) /\ (Lawful(c)' <=> Lawful(c))
  <2>1. [at |-> place, request |-> Request(c), object |-> o] \in Call
    BY DEF RequestsInv, RequestsTypeOK, Call, Request, Object
  <2>2. /\ call' \in [Calls -> Call] /\ call'[c].at = place /\ call'[c].object = o
        /\ call'[c].request = call[c].request /\ \A d \in Calls \ {c} : call'[d] = call[d]
    BY <1>3, <2>1 DEF Finds, RequestsInv, RequestsTypeOK, Request
  <2>3. QED
    BY <2>2, SameRequest
<1>4. CASE objects[t] # 0 /\ Finds(c, "gate", objects[t]) /\ UNCHANGED sessionVars
  <2>1. objects[t] \in 1..made /\ objects[t] \in Object /\ names[objects[t]] = t
    BY <1>1, <1>4 DEF RequestsInv, TableSound, Object
  <2>2. Knowledge(c)'
    BY <1>1, <1>3, <1>4, <2>1 DEF RequestsInv, CallInv, Knowledge, Settled
  <2>3. Gated(c)' /\ Found(c)'
    BY <1>1, <1>3, <1>4, <2>1 DEF Gated, Found, Bound, sessionVars
  <2>4. CallInv(c)'
    BY <2>2, <2>3 DEF CallInv
  <2>5. QED
    BY <1>1, <1>3, <1>4, <2>1, <2>4, QuietKeeps DEF Places
<1>5. CASE objects[t] = 0 /\ Resumes(c) /\ Adds(t) /\ Finds(c, "added", made')
  <2>1. /\ made' = made + 1 /\ made' \in Object /\ names'[made'] = t
        /\ objects' \in [SessionIds -> 0..made'] /\ names' \in [Object -> SessionIds \union {Nothing}]
        /\ live' \subseteq 1..made' /\ closing' \subseteq 1..made' /\ strays' \subseteq 1..made'
        /\ \A o \in 1..made : names'[o] = names[o]
        /\ live \subseteq live' /\ UNCHANGED <<closing, strays>> /\ TableSound'
    BY <1>1, <1>5, AddsTable
  <2>2. Knowledge(c)'
    BY <1>1, <1>3, <1>5, <2>1 DEF RequestsInv, CallInv, Knowledge, Settled
  <2>3. Gated(c)' /\ Found(c)'
    BY <1>1, <1>3, <1>5, <2>1 DEF Gated, Found, Bound, Object
  <2>4. CallInv(c)'
    BY <2>2, <2>3 DEF CallInv
  <2>5. made' \in 0..MaxObjects
    BY <2>1 DEF Object
  <2>6. RequestsTypeOK'
    BY <1>1, <1>3, <1>5, <2>1, <2>5 DEF RequestsInv, RequestsTypeOK, backendVars
  <2>7. Spares(c)
    <3>1. made' \in Nat /\ made' >= made
      BY <1>1, <2>1
    <3>2. \A d \in Calls \ {c} : call'[d] = call[d] /\ stopping'[d] = stopping[d]
      BY <1>1, <1>3, <1>5, <2>1
    <3>3. QED
      BY <1>1, <2>1, <3>1, <3>2 DEF Spares
  <2>8. call'[c].at = "added"
    BY <1>3, <1>5, <2>1
  <2>9. \A s \in Streams : KeepsWitnesses(c, s)
    BY <2>1, <2>8 DEF KeepsWitnesses, Silences
  <2>10. QED
    BY <1>1, <2>1, <2>4, <2>6, <2>7, <2>8, <2>9, StepKeeps
<1>6. QED
  BY <1>2, <1>4, <1>5 DEF FindSession

\* What a call has when it gets through a gate.
LEMMA AtGate ==
  ASSUME RequestsInv, NEW c \in Calls, call[c].at \in {"gate", "added"}
  PROVE  /\ InSession(c) /\ Request(c).session \in SessionIds /\ Lawful(c) /\ Request(c) \in Requests
         /\ call[c].object \in 1..made /\ call[c].object \in Object
         /\ names[call[c].object] = Request(c).session
         /\ \A place \in Places : Goes(c, place) => Moves(c, place)
<1>1. made \in 0..MaxObjects
  BY DEF RequestsInv, RequestsTypeOK
<1>2. Knowledge(c) /\ Found(c) /\ Settled(c)
  BY DEF RequestsInv, CallInv, Settled
<1>3. \A place \in Places : Goes(c, place) => Moves(c, place)
  BY GoesMoves DEF RequestsInv
<1>4. QED
  BY <1>1, <1>2, <1>3 DEF Knowledge, Found, Object

\* A call that takes its gate to stop its session's streams, and may mark it as closing.
LEMMA ShutsKeeps ==
  ASSUME RequestsInv, NEW c \in Calls, call[c].at = "gate", Shuts(c), TakeGate(c), ListStreams(c),
         ThreadMethod(Request(c)) => call[c].object \in live /\ Teardown(Request(c)),
         closing' \in {closing, closing \union {call[c].object}},
         UNCHANGED <<objects, made, names, live, strays, claims, backendVars>>
  PROVE  RequestsInv'
<1> DEFINE o == call[c].object
           t == Request(c).session
<1>1. /\ InSession(c) /\ t \in SessionIds /\ Lawful(c) /\ Request(c) \in Requests
      /\ o \in 1..made /\ o \in Object /\ names[o] = t /\ Moves(c, "streams")
  BY AtGate DEF ListStreams, Places
<1>2. /\ gate[o] = Nothing /\ gate' = [gate EXCEPT ![o] = c]
      /\ gate \in [Object -> Calls \union {Nothing}] /\ stopping \in [Calls -> SUBSET Streams]
      /\ closing \subseteq 1..made /\ made \in Nat
  BY DEF TakeGate, RequestsInv, RequestsTypeOK
<1>3. /\ gate' \in [Object -> Calls \union {Nothing}] /\ gate'[o] = c
      /\ \A x \in Object : gate[x] \notin {Nothing, c} => gate'[x] = gate[x] /\ x # o
  BY <1>1, <1>2
<1>4. /\ stopping' \in [Calls -> SUBSET Streams] /\ stopping'[c] = {s \in Streams : claims[s] = t}
      /\ \A d \in Calls \ {c} : stopping'[d] = stopping[d]
  BY <1>2 DEF ListStreams
<1>5. /\ Request(c)' = Request(c) /\ (InSession(c)' <=> InSession(c)) /\ (Shuts(c)' <=> Shuts(c))
      /\ (Lawful(c)' <=> Lawful(c)) /\ call'[c].at = "streams" /\ call'[c].object = o
      /\ call' \in [Calls -> Call] /\ \A d \in Calls \ {c} : call'[d] = call[d]
  BY <1>1, SameRequest DEF Moves
<1>6. RequestsTypeOK'
  <2>1. closing' \subseteq 1..made'
    BY <1>1, <1>2
  <2>2. QED
    BY <1>3, <1>4, <1>5, <2>1 DEF RequestsInv, RequestsTypeOK, backendVars
<1>7. CallInv(c)'
  <2>1. Knowledge(c)'
    BY <1>1, <1>5 DEF Knowledge, Settled
  <2>2. Gated(c)' /\ Found(c)'
    BY <1>1, <1>3, <1>5 DEF Gated, Found
  <2>3. QED
    BY <2>1, <2>2 DEF CallInv
<1>8. Spares(c)
  BY <1>2, <1>3, <1>4, <1>5 DEF Spares
<1>9. TableSound'
  BY DEF RequestsInv, TableSound
<1>10. \A s \in Streams : KeepsWitnesses(c, s)
  BY <1>1, <1>4, <1>5 DEF KeepsWitnesses
<1>11. QED
  BY <1>5, <1>6, <1>7, <1>8, <1>9, <1>10, StepKeeps

\* At the gate: those that close shut the others out, a request is admitted if none has.
LEMMA EnterKeeps == ASSUME RequestsInv, NEW c \in Calls, Enter(c) PROVE RequestsInv'
<1> DEFINE o == call[c].object
           r == Request(c)
<1>1. /\ call[c].at = "gate" /\ ~Resumes(c)
      /\ UNCHANGED <<objects, made, names, live, strays, claims, backendVars>>
  BY DEF Enter, At
<1>2. /\ InSession(c) /\ r.session \in SessionIds /\ Lawful(c) /\ r \in Requests
      /\ o \in 1..made /\ o \in Object /\ names[o] = r.session
      /\ \A place \in Places : Goes(c, place) => Moves(c, place)
  BY <1>1, AtGate
<1>3. ThreadMethod(r) => r.class # "close"
  BY DEF ThreadMethod
<1>4. CASE /\ r.class = "close" \/ Admits(o)
           /\ TakeGate(c) /\ Teardown(r) /\ closing' = closing \union {o} /\ ListStreams(c)
  BY <1>1, <1>3, <1>4, ShutsKeeps DEF Shuts, Admits
<1>5. CASE /\ r.class = "close" \/ Admits(o)
           /\ TakeGate(c) /\ ~Teardown(r)
           /\ Goes(c, IF r.class = "start" THEN "claim" ELSE "ready")
           /\ UNCHANGED <<closing, stopping>>
  <2>1. PICK place \in {"claim", "ready"} :
          Moves(c, place) /\ (place = IF r.class = "start" THEN "claim" ELSE "ready")
    BY <1>2, <1>5 DEF Places
  <2>2. Admits(o) /\ ~Shuts(c)
    BY <1>1, <1>5 DEF Teardown, Shuts
  <2>3. /\ Request(c)' = r /\ (InSession(c)' <=> InSession(c)) /\ (Shuts(c)' <=> Shuts(c))
        /\ (Lawful(c)' <=> Lawful(c)) /\ call'[c].at = place /\ call'[c].object = o
    BY <2>1, SameRequest DEF Moves
  <2>4. gate'[o] = c
    BY <1>2, <1>5 DEF TakeGate, RequestsInv, RequestsTypeOK
  <2>5. Knowledge(c)'
    BY <1>1, <1>2, <1>5, <2>1, <2>2, <2>3 DEF RequestsInv, CallInv, Knowledge, Settled
  <2>6. Gated(c)' /\ Found(c)'
    BY <1>1, <1>2, <1>5, <2>2, <2>3, <2>4 DEF Gated, Found, Admits
  <2>7. CallInv(c)'
    BY <2>5, <2>6 DEF CallInv
  <2>8. ~(place = "ready" /\ r.class = "start")
    BY <2>1
  <2>9. QED
    BY <1>1, <1>2, <1>5, <2>1, <2>3, <2>7, <2>8, QuietKeeps DEF Moves, sessionVars, Places
<1>6. CASE Goes(c, "refused") /\ UNCHANGED <<gate, closing, stopping>>
  <2>1. Moves(c, "refused")
    BY <1>2, <1>6 DEF Places
  <2>2. QED
    BY <1>1, <1>6, <2>1, EndKeeps DEF sessionVars
<1>7. QED
  BY <1>4, <1>5, <1>6 DEF Enter

LEMMA EnterResumeKeeps == ASSUME RequestsInv, NEW c \in Calls, EnterResume(c) PROVE RequestsInv'
<1>1. Resumes(c) /\ UNCHANGED <<sessionVars, claims, backendVars>> /\ ~ThreadMethod(Request(c))
  BY DEF EnterResume, Resumes, ThreadMethod
<1>2. CASE At(c, "gate") /\ TakeGate(c) /\ ListStreams(c)
  BY <1>1, <1>2, ShutsKeeps DEF Shuts, At, sessionVars
<1>3. CASE At(c, "added") /\ TakeGate(c) /\ Goes(c, "attach") /\ UNCHANGED stopping
  <2>1. /\ InSession(c) /\ Request(c).session \in SessionIds /\ Lawful(c) /\ Request(c) \in Requests
        /\ call[c].object \in 1..made /\ call[c].object \in Object
        /\ names[call[c].object] = Request(c).session /\ Moves(c, "attach")
    BY <1>3, AtGate DEF At, Places
  <2>2. /\ Request(c)' = Request(c) /\ (InSession(c)' <=> InSession(c)) /\ (Shuts(c)' <=> Shuts(c))
        /\ (Resumes(c)' <=> Resumes(c)) /\ (Lawful(c)' <=> Lawful(c)) /\ call'[c].at = "attach"
        /\ call'[c].object = call[c].object
    BY <2>1, SameRequest DEF Moves
  <2>3. gate'[call[c].object] = c
    BY <1>3, <2>1 DEF TakeGate, RequestsInv, RequestsTypeOK
  <2>4. Knowledge(c)'
    BY <1>1, <1>3, <2>1, <2>2 DEF RequestsInv, CallInv, Knowledge, Settled
  <2>5. Gated(c)' /\ Found(c)'
    BY <1>1, <2>1, <2>2, <2>3 DEF Gated, Found, sessionVars
  <2>6. CallInv(c)'
    BY <2>4, <2>5 DEF CallInv
  <2>7. QED
    BY <1>1, <1>3, <2>1, <2>2, <2>6, QuietKeeps DEF Moves, At, Places
<1>4. CASE call[c].at \in {"gate", "added"} /\ Goes(c, "refused") /\ UNCHANGED <<gate, stopping>>
  <2>1. Moves(c, "refused")
    BY <1>4, GoesMoves DEF RequestsInv, Places
  <2>2. QED
    BY <1>1, <1>4, <2>1, EndKeeps
<1>5. QED
  BY <1>2, <1>3, <1>4 DEF EnterResume

----------------------------------------------------------------------------
(* Claims *)

LEMMA ClaimKeeps == ASSUME RequestsInv, NEW c \in Calls, ClaimStream(c) PROVE RequestsInv'
<1> DEFINE t == Request(c).session
           x == Request(c).stream
           o == call[c].object
<1>1. call[c].at = "claim" /\ UNCHANGED <<sessionVars, stopping, backendVars>>
  BY DEF ClaimStream, At
<1>2. /\ Request(c) \in Requests /\ InSession(c) /\ Request(c).class = "start" /\ Lawful(c)
      /\ t \in SessionIds /\ Bound(c) /\ ~Shuts(c) /\ stopping[c] = {}
      /\ Gated(c) /\ Found(c) /\ ThreadMethod(Request(c)) /\ ~Standard(Request(c))
  BY <1>1 DEF RequestsInv, CallInv, Knowledge, Settled, Bound, Shuts, Teardown, Resumes,
              ThreadMethod, Standard
<1>3. x \in Streams
  BY <1>2 DEF WellFormed
<1>4. CASE claims[x] # Nothing
  <2>1. Moves(c, "refused") /\ Leave(c) /\ UNCHANGED claims
    BY <1>4, GoesMoves DEF ClaimStream, RequestsInv, Places
  <2>2. QED
    BY <1>1, <2>1, EndKeeps
<1>5. CASE claims[x] = Nothing
  <2>1. Moves(c, "ready") /\ claims' = [claims EXCEPT ![x] = t] /\ UNCHANGED gate
    BY <1>5, GoesMoves DEF ClaimStream, RequestsInv, Places
  <2>2. /\ Request(c)' = Request(c) /\ (InSession(c)' <=> InSession(c)) /\ (Shuts(c)' <=> Shuts(c))
        /\ (Lawful(c)' <=> Lawful(c)) /\ call'[c].at = "ready" /\ call'[c].object = o
        /\ \A d \in Calls \ {c} : call'[d] = call[d]
    BY <2>1, SameRequest DEF Moves
  <2>3. claims'[x] = t /\ \A s \in Streams \ {x} : claims'[s] = claims[s]
    BY <1>3, <2>1 DEF RequestsInv, RequestsTypeOK
  <2>4. RequestsTypeOK'
    BY <1>1, <1>2, <1>3, <2>1 DEF RequestsInv, RequestsTypeOK, Moves, sessionVars, backendVars
  <2>5. UNCHANGED <<made, names, live, closing, objects, strays>> /\ made \in Nat
    BY <1>1 DEF sessionVars, RequestsInv, RequestsTypeOK
  <2>6. Spares(c)
    BY <1>1, <2>1, <2>2, <2>5 DEF Spares
  <2>7. CallInv(c)'
    <3>1. Knowledge(c)'
      BY <1>1, <1>2, <2>2 DEF Knowledge, Settled
    <3>2. Gated(c)' /\ Found(c)'
      BY <1>2, <2>1, <2>2, <2>5 DEF Gated, Found
    <3>3. QED
      BY <3>1, <3>2 DEF CallInv
  <2>8. \A d \in Calls : CallInv(d)'
    BY <2>6, <2>7, OthersKeep
  <2>9. TableSound'
    BY <2>5 DEF RequestsInv, TableSound
  <2>10. StreamsOpen'
    <3>1. PICK w \in live, y \in Streams : w = o /\ y = x
      BY <1>2, <1>3 DEF Gated
    <3>2. names[w] = t /\ gate[w] = c /\ w = call'[c].object
      BY <1>2, <2>2, <3>1 DEF Gated, Found
    <3>3. ASSUME NEW d \in Calls, Silences(d)', call'[d].object = w PROVE FALSE
      <4>1. d # c
        BY <1>2, <2>2, <3>3 DEF Silences
      <4>2. call'[d] = call[d] /\ Silences(d)
        BY <2>2, <3>3, <4>1, SameRequest DEF Silences
      <4>3. Bound(d)
        BY <4>2 DEF Silences, Bound, Shuts, InSession, ThreadMethod, Teardown, Resumes, Standard
      <4>4. gate[w] = d
        BY <3>3, <4>2, <4>3 DEF RequestsInv, CallInv, Gated
      <4>5. QED
        BY <3>2, <4>1, <4>4
    <3>4. Witness(w, y)' /\ w \in live'
      BY <2>3, <2>5, <3>1, <3>2, <3>3 DEF Witness
    <3>5. ASSUME NEW s \in Streams \ {y}, claims[s] # Nothing
          PROVE  \E v \in live' : Witness(v, s)'
      <4>1. KeepsWitnesses(c, s)
        BY <2>2, <2>5 DEF KeepsWitnesses, Silences
      <4>2. QED
        BY <2>3, <2>6, <3>1, <3>5, <4>1, WitnessKept
    <3>6. ASSUME NEW s \in Streams, claims'[s] # Nothing PROVE \E v \in live' : Witness(v, s)'
      BY <2>3, <3>1, <3>4, <3>5, <3>6
    <3>7. QED
      BY <3>6 DEF StreamsOpen
  <2>11. WireSound' /\ Messages' = Messages /\ \A m \in Messages : m.by # c
    BY <1>1, <2>2, WireKept DEF backendVars
  <2>12. ClaimsHeld'
    <3>1. ASSUME NEW s \in Streams
          PROVE  ~Ending(c, s)' /\ (Starting(c, s)' <=> s = x)
      BY <1>2, <2>2, <2>11 DEF Starting, Ending
    <3>2. ASSUME NEW s \in Streams, NEW d \in Calls \ {c}
          PROVE  (Starting(d, s)' <=> Starting(d, s)) /\ (Ending(d, s)' <=> Ending(d, s))
                 /\ Request(d)' = Request(d)
      BY <1>1, <2>2, <2>11, OthersClaim DEF backendVars
    <3>3. running' = running
      BY <1>1 DEF backendVars
    <3>4. QED
      BY <1>2, <1>3, <1>5, <2>2, <2>3, <3>1, <3>2, <3>3 DEF RequestsInv, ClaimsHeld
  <2>13. QED
    BY <2>4, <2>8, <2>9, <2>10, <2>11, <2>12 DEF RequestsInv
<1>6. QED
  BY <1>4, <1>5

----------------------------------------------------------------------------
(* Messages to the backend *)

\* The queue with one more message, of a call that has none in it.
LEMMA MessageSent ==
  ASSUME RequestsTypeOK, WireSound, NEW m, \A n \in Messages : n.by # m.by,
         wire' = Append(wire, m)
  PROVE  /\ Messages' = Messages \union {m}
         /\ \A i, j \in 1..Len(wire') : wire'[i].by = wire'[j].by => i = j
<1> DEFINE k == Len(wire) + 1
<1>1. Len(wire) \in Nat /\ Len(wire') = k
  BY DEF RequestsTypeOK
<1>2. wire'[k] = m /\ \A i \in 1..Len(wire) : wire'[i] = wire[i]
  BY DEF RequestsTypeOK
<1>3. 1..Len(wire') = 1..Len(wire) \union {k}
  BY <1>1
<1>4. Messages' = Messages \union {m}
  BY <1>1, <1>2, <1>3 DEF Messages
<1>5. \A i \in 1..Len(wire) : wire[i].by # m.by
  BY DEF Messages
<1>6. ASSUME NEW i \in 1..Len(wire'), NEW j \in 1..Len(wire'), wire'[i].by = wire'[j].by PROVE i = j
  BY <1>2, <1>3, <1>5, <1>6 DEF WireSound
<1>7. QED
  BY <1>4, <1>6

\* The queue without its first message, the only one of its call.
LEMMA MessageTaken ==
  ASSUME RequestsTypeOK, WireSound, wire # <<>>, wire' = Tail(wire)
  PROVE  /\ Head(wire) \in Messages
         /\ Messages' \subseteq Messages /\ \A n \in Messages' : n.by # Head(wire).by
         /\ \A n \in Messages : n = Head(wire) \/ n \in Messages'
         /\ \A i, j \in 1..Len(wire') : wire'[i].by = wire'[j].by => i = j
<1>1. /\ Len(wire) \in Nat /\ Len(wire) # 0 /\ Len(wire') = Len(wire) - 1 /\ Head(wire) = wire[1]
      /\ \A i \in 1..Len(wire') : wire'[i] = wire[i + 1]
  BY DEF RequestsTypeOK
<1>2. \A i \in 1..Len(wire') : i + 1 \in 1..Len(wire) /\ i + 1 # 1
  BY <1>1
<1>3. \A i \in 1..Len(wire) : i = 1 \/ (i - 1 \in 1..Len(wire') /\ wire'[i - 1] = wire[i])
  BY <1>1
<1>4. 1 \in 1..Len(wire)
  BY <1>1
<1>5. Head(wire) \in Messages
  BY <1>1, <1>4 DEF Messages
<1>6. Messages' \subseteq Messages /\ \A n \in Messages' : n.by # Head(wire).by
  BY <1>1, <1>2, <1>4 DEF Messages, WireSound
<1>7. \A n \in Messages : n = Head(wire) \/ n \in Messages'
  BY <1>1, <1>3, SMTT(60) DEF Messages
<1>8. ASSUME NEW i \in 1..Len(wire'), NEW j \in 1..Len(wire'), wire'[i].by = wire'[j].by PROVE i = j
  <2>1. i + 1 = j + 1
    BY <1>1, <1>2, <1>8 DEF WireSound
  <2>2. QED
    BY <1>1, <2>1
<1>9. QED
  BY <1>5, <1>6, <1>7, <1>8

\* A call sends its request, or one of those that shut sessions that of the next stream.
LEMMA SendKeeps == ASSUME RequestsInv, NEW c \in Calls, Send(c) PROVE RequestsInv'
<1> DEFINE m == [kind |-> Kind(c), stream |-> StreamOf(c), by |-> c]
<1>1. /\ \/ call[c].at = "ready" \/ (call[c].at = "streams" /\ stopping[c] # {})
         \/ call[c].at = "streams" /\ stopping[c] = {} /\ Request(c).class \in {"archive", "delete"}
      /\ Moves(c, "sent") /\ wire' = Append(wire, m) /\ running' = running
      /\ reply' = [reply EXCEPT ![c] = Nothing]
      /\ UNCHANGED <<sessionVars, gate, claims, stopping>>
  BY GoesMoves DEF Send, At, Silenced, RequestsInv, Places
<1>2. /\ Request(c)' = Request(c) /\ (InSession(c)' <=> InSession(c)) /\ (Shuts(c)' <=> Shuts(c))
      /\ (Lawful(c)' <=> Lawful(c)) /\ call'[c].at = "sent" /\ call'[c].object = call[c].object
      /\ \A d \in Calls \ {c} : call'[d] = call[d]
  BY <1>1, SameRequest DEF Moves
<1>3. reply'[c] = Nothing /\ \A d \in Calls \ {c} : reply'[d] = reply[d]
  BY <1>1 DEF RequestsInv, RequestsTypeOK
<1>4. /\ Knowledge(c) /\ Gated(c) /\ Found(c) /\ Settled(c) /\ Request(c) \in Requests
      /\ stopping[c] \subseteq Streams
  BY <1>1 DEF RequestsInv, CallInv, Knowledge, Settled, RequestsTypeOK
<1>5. /\ Kind(c) \in Classes /\ StreamOf(c) \in Streams \union {Nothing}
      /\ Kind(c) \in {"start", "stop"} => StreamOf(c) \in Streams
  <2>1. stopping[c] # {} => StreamOf(c) \in stopping[c] /\ Kind(c) = "stop"
    BY DEF StreamOf, Kind, AnyOf
  <2>2. stopping[c] = {} => /\ StreamOf(c) = Request(c).stream /\ Kind(c) = Request(c).class
    BY DEF StreamOf, Kind
  <2>3. /\ Request(c).class \in Classes /\ Request(c).stream \in Streams \union {Nothing}
        /\ Request(c).class \in {"start", "stop"} => Request(c).stream \in Streams
    BY <1>4 DEF WellFormed
  <2>4. "stop" \in Classes
    BY DEF Classes
  <2>5. QED
    BY <1>4, <2>1, <2>2, <2>3, <2>4
<1>6. RequestsTypeOK'
  <2>1. m \in [kind : Classes, stream : Streams \union {Nothing}, by : Calls]
    BY <1>5
  <2>2. wire' \in Seq([kind : Classes, stream : Streams \union {Nothing}, by : Calls])
    BY <1>1, <2>1 DEF RequestsInv, RequestsTypeOK
  <2>3. QED
    BY <1>1, <2>2 DEF RequestsInv, RequestsTypeOK, Moves, sessionVars
<1>7. UNCHANGED <<made, names, live, closing, objects, strays>> /\ made \in Nat
  BY <1>1 DEF sessionVars, RequestsInv, RequestsTypeOK
<1>8. Spares(c)
  BY <1>1, <1>2, <1>7 DEF Spares
<1>9. Bound(c)' <=> Bound(c)
  BY <1>1, <1>2, <1>4 DEF Bound, Knowledge
<1>10. CallInv(c)'
  <2>1. stopping[c] = {} => ~Standard(Request(c))
    BY <1>1, <1>4 DEF Knowledge, Standard, Shuts, Teardown, Resumes
  <2>2. Knowledge(c)'
    BY <1>1, <1>2, <1>4, <2>1 DEF Knowledge, Settled
  <2>3. Gated(c)' /\ Found(c)'
    BY <1>1, <1>2, <1>4, <1>7, <1>9 DEF Gated, Found
  <2>4. QED
    BY <2>2, <2>3 DEF CallInv
<1>11. \A d \in Calls : CallInv(d)'
  BY <1>8, <1>10, OthersKeep
<1>12. TableSound'
  BY <1>7 DEF RequestsInv, TableSound
<1>13. StreamsOpen'
  <2>1. ASSUME NEW s \in Streams PROVE KeepsWitnesses(c, s)
    <3>1. Silences(c)' => Silences(c)
      BY <1>1, <1>2, <1>4 DEF Silences, Knowledge
    <3>2. QED
      BY <1>1, <1>2, <1>7, <3>1 DEF KeepsWitnesses
  <2>2. QED
    BY <1>1, <1>8, <2>1, WitnessKept DEF StreamsOpen
<1>14. \A n \in Messages : n.by \in Calls /\ n.by # c /\ Genuine(n)
  BY <1>1, MessagesTyped DEF RequestsInv, WireSound, Genuine
<1>15. /\ Messages' = Messages \union {m}
       /\ \A i, j \in 1..Len(wire') : wire'[i].by = wire'[j].by => i = j
  BY <1>1, <1>14, MessageSent, SMTT(60) DEF RequestsInv
<1>16. WireSound'
  <2>1. \A n \in Messages : Genuine(n)'
    BY <1>1, <1>2, <1>3, <1>14, OthersGenuine
  <2>2. StreamOf(c)' = StreamOf(c) /\ Kind(c)' = Kind(c)
    BY <1>1, <1>2, SameStream
  <2>3. PICK n \in Messages' : n = m
    BY <1>15
  <2>4. n.by = c /\ n.kind = Kind(c) /\ n.stream = StreamOf(c)
    BY <2>3
  <2>5. Genuine(n)'
    BY <1>2, <1>3, <2>2, <2>4 DEF Genuine
  <2>6. QED
    BY <1>15, <2>1, <2>3, <2>5 DEF WireSound
<1>17. ClaimsHeld'
  <2>1. ASSUME NEW s \in Streams PROVE ~Ending(c, s)' /\ ~Ending(c, s)
    BY <1>1, <1>2, <1>3 DEF Ending
  <2>2. ASSUME NEW s \in Streams PROVE Starting(c, s)' <=> Starting(c, s)
    <3>1. Request(c).class = "start" => call[c].at = "ready"
      BY <1>1, <1>4 DEF Knowledge, Shuts, Teardown, Resumes
    <3>2. m \in Messages' /\ m.by = c
      BY <1>15
    <3>3. QED
      BY <1>2, <3>1, <3>2 DEF Starting
  <2>3. ASSUME NEW s \in Streams, NEW d \in Calls \ {c}
        PROVE  (Starting(d, s)' <=> Starting(d, s)) /\ (Ending(d, s)' <=> Ending(d, s))
               /\ Request(d)' = Request(d)
    BY <1>1, <1>2, <1>3, <1>15, OthersClaim
  <2>4. QED
    BY <1>1, <1>2, <2>1, <2>2, <2>3 DEF RequestsInv, ClaimsHeld
<1>18. QED
  BY <1>6, <1>11, <1>12, <1>13, <1>16, <1>17 DEF RequestsInv

\* A verdict, or the end of the time for one.
LEMMA AnsweredKeeps ==
  ASSUME RequestsInv, NEW c \in Calls, NEW verdict \in {"ok", "rejected", "timeout"}, Answered(c, verdict)
  PROVE  RequestsInv'
<1> DEFINE over == ~(verdict = "ok" /\ (stopping[c] # {} \/ Teardown(Request(c))))
<1>1. /\ call[c].at = "sent" /\ UNCHANGED <<sessionVars, backendVars>>
      /\ verdict = "timeout" <=> reply[c] = Nothing
      /\ verdict # "timeout" => reply[c] = verdict
      /\ claims' = [s \in Streams |->
                      IF Unclaims(Kind(c), verdict) /\ s = StreamOf(c) THEN Nothing ELSE claims[s]]
  BY DEF Answered, At
<1>2. PICK place \in {"streams", "end", "done", "failed"} :
        /\ Moves(c, place)
        /\ ~over => /\ place = IF stopping[c] # {} THEN "streams" ELSE "end"
                    /\ gate' = gate /\ stopping' = [stopping EXCEPT ![c] = @ \ {StreamOf(c)}]
        /\ over => /\ place = IF verdict = "ok" THEN "done" ELSE "failed"
                   /\ Leave(c) /\ stopping' = stopping
  <2>1. \A place \in {"streams", "end", "done", "failed"} : Goes(c, place) => Moves(c, place)
    BY GoesMoves DEF RequestsInv, Places
  <2>2. CASE over
    BY <2>1, <2>2 DEF Answered
  <2>3. CASE ~over
    BY <2>1, <2>3 DEF Answered
  <2>4. QED
    BY <2>2, <2>3
<1>3. /\ Request(c)' = Request(c) /\ (InSession(c)' <=> InSession(c)) /\ (Shuts(c)' <=> Shuts(c))
      /\ (Lawful(c)' <=> Lawful(c)) /\ call'[c].at = place /\ call'[c].object = call[c].object
      /\ \A d \in Calls \ {c} : call'[d] = call[d]
  BY <1>2, SameRequest DEF Moves
<1>4. /\ gate' \in [Object -> Calls \union {Nothing}]
      /\ \A o \in Object : gate[o] \notin {Nothing, c} => gate'[o] = gate[o]
  BY <1>2, GatesSpared
<1>5. /\ \A s \in Streams : claims'[s] \in {claims[s], Nothing}
      /\ \A d \in Calls \ {c} : stopping'[d] = stopping[d]
      /\ stopping' \in [Calls -> SUBSET Streams]
      /\ ~over => stopping'[c] = stopping[c] \ {StreamOf(c)}
  <2>1. \A s \in Streams : claims'[s] \in {claims[s], Nothing}
    BY <1>1
  <2>2. stopping \in [Calls -> SUBSET Streams]
    BY DEF RequestsInv, RequestsTypeOK
  <2>3. CASE over
    BY <1>2, <2>1, <2>2, <2>3
  <2>4. CASE ~over
    BY <1>2, <2>1, <2>2, <2>4
  <2>5. QED
    BY <2>3, <2>4
<1>6. RequestsTypeOK'
  BY <1>1, <1>2, <1>4, <1>5 DEF RequestsInv, RequestsTypeOK, Moves, sessionVars, backendVars
<1>7. UNCHANGED <<made, names, live, closing, objects, strays>> /\ made \in Nat
  BY <1>1 DEF sessionVars, RequestsInv, RequestsTypeOK
<1>8. Spares(c)
  BY <1>3, <1>4, <1>5, <1>7 DEF Spares
<1>9. CallInv(c)'
  <2>1. CASE over
    BY <1>1, <1>2, <2>1, EndedKnown DEF Settled
  <2>2. CASE ~over
    <3>1. Knowledge(c) /\ Gated(c) /\ Found(c) /\ Settled(c)
      BY <1>1 DEF RequestsInv, CallInv, Settled
    <3>2. Shuts(c) /\ (stopping[c] = {} => Teardown(Request(c)))
      BY <2>2, <3>1 DEF Knowledge, Shuts
    <3>3. InSession(c) /\ Bound(c)
      BY <1>1, <3>2 DEF Bound, Shuts, InSession, ThreadMethod, Teardown, Resumes, Standard
    <3>4. Knowledge(c)'
      BY <1>1, <1>2, <1>3, <1>5, <2>2, <3>1, <3>2, <3>3 DEF Knowledge, Settled
    <3>5. Gated(c)' /\ Found(c)'
      BY <1>2, <1>3, <1>7, <2>2, <3>1, <3>3 DEF Gated, Found
    <3>6. QED
      BY <3>4, <3>5 DEF CallInv
  <2>3. QED
    BY <2>1, <2>2
<1>10. \A d \in Calls : CallInv(d)'
  BY <1>8, <1>9, OthersKeep
<1>11. TableSound'
  BY <1>7 DEF RequestsInv, TableSound
<1>12. StreamsOpen'
  <2>1. ASSUME NEW s \in Streams, claims'[s] # Nothing PROVE KeepsWitnesses(c, s)
    <3>1. CASE over
      BY <1>2, <1>3, <1>7, <3>1 DEF KeepsWitnesses, Silences
    <3>2. CASE ~over
      <4>1. Silences(c)' => Silences(c)
        BY <1>1, <1>3 DEF Silences
      <4>2. stopping[c] # {} => Unclaims(Kind(c), verdict)
        BY <3>2 DEF Unclaims, Kind
      <4>3. s \in stopping[c] => s # StreamOf(c)
        BY <1>1, <2>1, <4>2
      <4>4. s \in stopping[c] => s \in stopping'[c]
        BY <1>5, <3>2, <4>3
      <4>5. QED
        BY <1>3, <1>7, <4>1, <4>4 DEF KeepsWitnesses
    <3>3. QED
      BY <3>1, <3>2
  <2>2. QED
    BY <1>5, <1>8, <2>1, WitnessKept DEF StreamsOpen
<1>13. Messages' = Messages /\ wire' = wire /\ reply' = reply /\ running' = running
  BY <1>1 DEF Messages, backendVars
<1>14. \A m \in Messages : m.by \in Calls /\ Genuine(m) /\ (m.by = c => verdict = "timeout")
  BY <1>1, MessagesTyped DEF RequestsInv, WireSound, Genuine
<1>15. WireSound'
  <2>1. ASSUME NEW m \in Messages, m.by = c PROVE Genuine(m)'
    <3>1. over /\ verdict = "timeout"
      BY <1>14, <2>1
    <3>2. StreamOf(c)' = StreamOf(c) /\ Kind(c)' = Kind(c)
      BY <1>2, <1>3, <3>1, SameStream
    <3>3. QED
      BY <1>2, <1>3, <1>14, <2>1, <3>1, <3>2 DEF Genuine
  <2>2. ASSUME NEW m \in Messages, m.by # c PROVE Genuine(m)'
    BY <1>3, <1>5, <1>13, <1>14, <2>2, OthersGenuine
  <2>3. QED
    BY <1>13, <2>1, <2>2 DEF RequestsInv, WireSound
<1>16. ClaimsHeld'
  <2>1. ASSUME NEW s \in Streams
        PROVE  ~Ending(c, s)' /\ (Starting(c, s)' <=> Starting(c, s))
    BY <1>1, <1>2, <1>3, <1>13 DEF Starting, Ending
  <2>2. ASSUME NEW s \in Streams, NEW d \in Calls \ {c}
        PROVE  (Starting(d, s)' <=> Starting(d, s)) /\ (Ending(d, s)' <=> Ending(d, s))
               /\ Request(d)' = Request(d)
    BY <1>3, <1>5, <1>13, OthersClaim
  <2>3. ASSUME NEW s \in Streams, claims'[s] # claims[s]
        PROVE  Ending(c, s) /\ ~Starting(c, s)
    <3>1. Unclaims(Kind(c), verdict) /\ s = StreamOf(c)
      BY <1>1, <2>3
    <3>2. verdict # "timeout" /\ reply[c] = verdict /\ reply[c] # Nothing
      BY <1>1, <3>1 DEF Unclaims
    <3>3. Ending(c, s)
      BY <1>1, <3>1, <3>2 DEF Ending
    <3>4. ~Starting(c, s)
      BY <1>1, <1>14, <3>2 DEF Starting
    <3>5. QED
      BY <3>3, <3>4
  <2>4. ASSUME NEW s \in Streams, claims'[s] # claims[s]
        PROVE  /\ running'[s] = Nothing
               /\ \A d \in Calls : ~Starting(d, s)' /\ ~Ending(d, s)'
    BY <1>13, <2>1, <2>2, <2>3, <2>4 DEF RequestsInv, ClaimsHeld
  <2>5. QED
    BY <1>3, <1>13, <2>1, <2>2, <2>4 DEF RequestsInv, ClaimsHeld
<1>17. QED
  BY <1>6, <1>10, <1>11, <1>12, <1>15, <1>16 DEF RequestsInv

----------------------------------------------------------------------------
(* Sessions *)

\* A session that is taken out of the table by its name, with what is closed of it.
LEMMA RemovesTable ==
  ASSUME RequestsInv, NEW t \in SessionIds, NEW closed, Removes(t, closed)
  PROVE  /\ objects' \in [SessionIds -> 0..made] /\ live' \subseteq 1..made /\ strays' \subseteq 1..made
         /\ UNCHANGED <<made, names, closing>> /\ live' = live \ closed
         /\ TableSound'
<1>1. /\ objects \in [SessionIds -> 0..made] /\ objects' = [objects EXCEPT ![t] = 0]
      /\ live' = live \ closed /\ strays' = strays \union ({objects[t]} \ (closed \union {0}))
      /\ live \subseteq 1..made /\ strays \subseteq 1..made
      /\ UNCHANGED <<made, names, closing>> /\ made \in Nat
  BY DEF Removes, RequestsInv, RequestsTypeOK
<1>2. objects'[t] = 0 /\ \A u \in SessionIds \ {t} : objects'[u] = objects[u]
  BY <1>1
<1>3. objects' \in [SessionIds -> 0..made] /\ live' \subseteq 1..made
  <2>1. 0 \in 0..made
    BY <1>1
  <2>2. objects' \in [SessionIds -> 0..made]
    BY <1>1, <2>1
  <2>3. live' \subseteq 1..made
    BY <1>1
  <2>4. QED
    BY <2>2, <2>3
<1>4. strays' \subseteq 1..made
  <2>1. objects[t] \in 0..made
    BY <1>1
  <2>2. {objects[t]} \ (closed \union {0}) \subseteq 1..made
    BY <1>1, <2>1
  <2>3. QED
    BY <1>1, <2>2
<1>5. ASSUME NEW o \in live' PROVE objects'[names'[o]] = o \/ o \in strays'
  <2>1. o \in live /\ o \notin closed /\ o \in 1..made /\ names[o] \in SessionIds /\ o # 0
    BY <1>1 DEF RequestsInv, TableSound
  <2>2. objects[names[o]] = o \/ o \in strays
    BY <2>1 DEF RequestsInv, TableSound
  <2>3. CASE names[o] = t
    BY <1>1, <2>1, <2>2, <2>3
  <2>4. CASE names[o] # t
    BY <1>1, <1>2, <2>1, <2>2, <2>4
  <2>5. QED
    BY <2>3, <2>4
<1>6. TableSound'
  BY <1>1, <1>2, <1>5 DEF RequestsInv, TableSound
<1>7. QED
  BY <1>1, <1>3, <1>4, <1>6

\* What a call has while it holds the gate to shut a session or to attach one.
LEMMA InGate ==
  ASSUME RequestsInv, NEW c \in Calls, call[c].at \in {"streams", "end", "attach", "reattach"}
  PROVE  /\ Bound(c) /\ Settled(c) /\ Request(c).session \in SessionIds
         /\ Knowledge(c) /\ Gated(c) /\ Found(c)
         /\ gate[call[c].object] = c /\ call[c].object \in 1..made /\ call[c].object \in Object
         /\ names[call[c].object] = Request(c).session
         /\ \A place \in Places : Goes(c, place) => Moves(c, place)
<1>1. Bound(c) /\ Settled(c)
  BY DEF Bound, Settled
<1>2. \A place \in Places : Goes(c, place) => Moves(c, place)
  BY GoesMoves DEF RequestsInv
<1>3. Knowledge(c) /\ Gated(c) /\ Found(c)
  BY DEF RequestsInv, CallInv
<1>4. QED
  BY <1>1, <1>2, <1>3 DEF Knowledge, Gated, Found

\* A call that ends, and leaves its gate to sessions that only its own object has lost.
LEMMA ShutKeeps ==
  ASSUME RequestsInv, NEW c \in Calls, call[c].at \in {"streams", "end", "attach", "reattach"},
         NEW place \in {"done", "failed"}, Moves(c, place), Leave(c),
         UNCHANGED <<made, names, claims, stopping, backendVars>>,
         objects' \in [SessionIds -> 0..made], live' \subseteq 1..made, closing' \subseteq 1..made,
         strays' \subseteq 1..made, TableSound',
         closing' \subseteq closing, \A o \in live : o \in live' \/ o = call[c].object,
         \/ live \subseteq live'
         \/ Silences(c) /\ stopping[c] = {}
  PROVE  RequestsInv'
<1>1. /\ gate[call[c].object] = c /\ Settled(c) /\ c # Nothing
      /\ made \in Nat /\ call[c].at \notin {"ready", "sent", "failed", "new"}
  BY InGate DEF RequestsInv, RequestsTypeOK
<1>2. /\ gate' \in [Object -> Calls \union {Nothing}]
      /\ \A o \in Object : gate[o] \notin {Nothing, c} => gate'[o] = gate[o]
  BY GatesSpared
<1>3. RequestsTypeOK'
  BY <1>2 DEF RequestsInv, RequestsTypeOK, Moves, backendVars
<1>4. call'[c].at = place /\ \A d \in Calls \ {c} : call'[d] = call[d]
  BY DEF Moves
<1>5. Spares(c)
  <2>1. \A d \in Calls \ {c} : call'[d] = call[d] /\ stopping'[d] = stopping[d]
    BY <1>4
  <2>2. \A o \in Object : gate[o] \notin {Nothing, c} =>
          gate'[o] = gate[o] /\ (o \in live => o \in live') /\ (o \in closing' => o \in closing)
    BY <1>1, <1>2
  <2>3. QED
    BY <1>1, <2>1, <2>2 DEF Spares
<1>6. CallInv(c)'
  BY <1>1, EndedKnown
<1>7. \A s \in Streams : KeepsWitnesses(c, s)
  BY <1>4 DEF KeepsWitnesses, Silences
<1>8. QED
  BY <1>1, <1>3, <1>4, <1>5, <1>6, <1>7, StepKeeps

LEMMA TearsDownKeeps == ASSUME RequestsInv, NEW c \in Calls, TearsDown(c) PROVE RequestsInv'
<1>1. /\ call[c].at \in {"end", "streams"} /\ Removes(Request(c).session, {call[c].object})
      /\ Goes(c, "done") /\ Leave(c) /\ UNCHANGED <<claims, stopping, backendVars>>
      /\ call[c].at = "streams" => stopping[c] = {} /\ Request(c).class = "close"
  BY DEF TearsDown, At, Silenced
<1>2. Request(c).session \in SessionIds /\ Knowledge(c) /\ Moves(c, "done")
  BY <1>1, InGate DEF Places
<1>3. Silences(c) /\ stopping[c] = {}
  BY <1>1, <1>2 DEF Knowledge, Silences, Shuts, Teardown
<1>4. /\ objects' \in [SessionIds -> 0..made] /\ live' \subseteq 1..made /\ strays' \subseteq 1..made
      /\ UNCHANGED <<made, names, closing>> /\ live' = live \ {call[c].object} /\ TableSound'
  BY <1>1, <1>2, RemovesTable
<1>5. closing' \subseteq 1..made
  BY <1>4 DEF RequestsInv, RequestsTypeOK
<1>6. QED
  BY <1>1, <1>2, <1>3, <1>4, <1>5, ShutKeeps

LEMMA DetachesKeeps == ASSUME RequestsInv, NEW c \in Calls, Detaches(c) PROVE RequestsInv'
<1>1. /\ call[c].at = "streams" /\ stopping[c] = {} /\ Resumes(c) /\ live' = live \ {call[c].object}
      /\ Goes(c, "reattach")
      /\ UNCHANGED <<objects, made, names, closing, strays, gate, claims, stopping, backendVars>>
  BY DEF Detaches, Silenced, At
<1>2. /\ Settled(c) /\ Request(c).session \in SessionIds /\ Knowledge(c) /\ Gated(c) /\ Found(c)
      /\ gate[call[c].object] = c /\ Bound(c) /\ Moves(c, "reattach")
  BY <1>1, InGate DEF Places
<1>3. /\ Request(c)' = Request(c) /\ (InSession(c)' <=> InSession(c)) /\ (Shuts(c)' <=> Shuts(c))
      /\ (Resumes(c)' <=> Resumes(c)) /\ (Lawful(c)' <=> Lawful(c)) /\ call'[c].at = "reattach"
      /\ call'[c].object = call[c].object /\ \A d \in Calls \ {c} : call'[d] = call[d]
  BY <1>2, SameRequest DEF Moves
<1>4. made \in Nat /\ live \subseteq 1..made
  BY DEF RequestsInv, RequestsTypeOK
<1>5. RequestsTypeOK'
  BY <1>1, <1>2, <1>4 DEF RequestsInv, RequestsTypeOK, Moves, backendVars
<1>6. Spares(c)
  BY <1>1, <1>2, <1>3, <1>4 DEF Spares
<1>7. CallInv(c)'
  <2>1. Knowledge(c)'
    BY <1>1, <1>2, <1>3 DEF Knowledge, Settled
  <2>2. ~ThreadMethod(Request(c))
    BY <1>1 DEF Resumes, ThreadMethod
  <2>3. Gated(c)' /\ Found(c)'
    BY <1>1, <1>2, <1>3, <2>2 DEF Gated, Found
  <2>4. QED
    BY <2>1, <2>3 DEF CallInv
<1>8. TableSound'
  BY <1>1 DEF RequestsInv, TableSound
<1>9. Silences(c) /\ ~Silences(c)'
  BY <1>1, <1>3 DEF Silences, Shuts
<1>10. \A s \in Streams : KeepsWitnesses(c, s)
  BY <1>1, <1>9 DEF KeepsWitnesses
<1>11. QED
  BY <1>1, <1>3, <1>5, <1>6, <1>7, <1>8, <1>10, StepKeeps

LEMMA AttachesKeeps == ASSUME RequestsInv, NEW c \in Calls, Attaches(c) PROVE RequestsInv'
<1> DEFINE o == call[c].object
           t == Request(c).session
<1>1. /\ call[c].at \in {"attach", "reattach"} /\ live' = live \union {o} /\ closing' = closing \ {o}
      /\ strays' = strays \union ({o, objects[t]} \ {0, objects'[t]})
      /\ Leave(c) /\ UNCHANGED <<made, names, claims, stopping, backendVars>>
  BY DEF Attaches
<1>2. t \in SessionIds /\ o \in 1..made /\ names[o] = t
      /\ \A place \in Places : Goes(c, place) => Moves(c, place)
  BY <1>1, InGate
<1>3. PICK place \in {"done", "failed"} :
        Moves(c, place) /\ (objects' = objects \/ objects' = [objects EXCEPT ![t] = 0])
  BY <1>2 DEF Attaches, Places
<1>4. /\ objects \in [SessionIds -> 0..made] /\ live \subseteq 1..made /\ closing \subseteq 1..made
      /\ strays \subseteq 1..made /\ made \in Nat
  BY DEF RequestsInv, RequestsTypeOK
<1>5. /\ objects' \in [SessionIds -> 0..made] /\ objects'[t] \in {objects[t], 0}
      /\ \A u \in SessionIds \ {t} : objects'[u] = objects[u]
  BY <1>2, <1>3, <1>4
<1>6. /\ live' \subseteq 1..made /\ closing' \subseteq 1..made /\ strays' \subseteq 1..made
      /\ closing' \subseteq closing /\ live \subseteq live'
  <2>1. objects[t] \in 0..made
    BY <1>2, <1>4
  <2>2. {o, objects[t]} \ {0, objects'[t]} \subseteq 1..made
    BY <1>2, <1>4, <2>1
  <2>3. strays' \subseteq 1..made
    BY <1>1, <1>4, <2>2
  <2>4. live' \subseteq 1..made /\ live \subseteq live'
    BY <1>1, <1>2, <1>4
  <2>5. closing' \subseteq closing
    BY <1>1
  <2>6. QED
    BY <1>4, <2>3, <2>4, <2>5
<1>7. ASSUME NEW p \in live' PROVE objects'[names'[p]] = p \/ p \in strays'
  <2>1. CASE p = o
    BY <1>1, <1>2, <2>1
  <2>2. CASE p \in live /\ p # o
    <3>1. p \in 1..made /\ p # 0 /\ names[p] \in SessionIds
      BY <1>4, <2>2 DEF RequestsInv, TableSound
    <3>2. objects[names[p]] = p \/ p \in strays
      BY <2>2 DEF RequestsInv, TableSound
    <3>3. CASE names[p] = t
      BY <1>1, <1>5, <3>1, <3>2, <3>3
    <3>4. CASE names[p] # t
      BY <1>1, <1>5, <3>1, <3>2, <3>4
    <3>5. QED
      BY <3>3, <3>4
  <2>3. QED
    BY <1>1, <2>1, <2>2
<1>8. TableSound'
  <2>1. \A u \in SessionIds : objects'[u] # 0 => names'[objects'[u]] = u
    BY <1>1, <1>5 DEF RequestsInv, TableSound
  <2>2. \A p \in 1..made' : names'[p] \in SessionIds
    BY <1>1 DEF RequestsInv, TableSound
  <2>3. QED
    BY <1>7, <2>1, <2>2 DEF TableSound
<1>9. QED
  BY <1>1, <1>3, <1>5, <1>6, <1>8, ShutKeeps

LEMMA FailsKeeps == ASSUME RequestsInv, NEW c \in Calls, Fails(c) PROVE RequestsInv'
<1>1. /\ call[c].at \in {"streams", "reattach", "attach"} /\ Goes(c, "failed") /\ Leave(c)
      /\ UNCHANGED <<claims, stopping, backendVars>>
  BY DEF Fails
<1>2. Request(c).session \in SessionIds /\ Moves(c, "failed")
  BY <1>1, InGate DEF Places
<1>3. CASE UNCHANGED sessionVars /\ call[c].at # "attach"
  BY <1>1, <1>2, <1>3, EndKeeps
<1>4. CASE Removes(Request(c).session, {})
  <2>1. /\ objects' \in [SessionIds -> 0..made] /\ live' \subseteq 1..made /\ strays' \subseteq 1..made
        /\ UNCHANGED <<made, names, closing>> /\ live' = live \ {} /\ TableSound'
    BY <1>2, <1>4, RemovesTable
  <2>2. closing' \subseteq 1..made
    BY <2>1 DEF RequestsInv, RequestsTypeOK
  <2>3. QED
    BY <1>1, <1>2, <2>1, <2>2, ShutKeeps
<1>5. QED
  BY <1>3, <1>4 DEF Fails, At

LEMMA RequestsOpensKeeps == ASSUME RequestsInv, NEW t \in SessionIds, OpensSession(t) PROVE RequestsInv'
<1>1. /\ Adds(t) /\ UNCHANGED <<call, gate, claims, stopping, backendVars>>
      /\ \A o \in Object : names[o] # t
  BY DEF OpensSession
<1>2. objects[t] = 0
  <2>1. objects[t] \in 0..made /\ made \in 0..MaxObjects
    BY DEF RequestsInv, RequestsTypeOK
  <2>2. objects[t] # 0 => objects[t] \in Object /\ names[objects[t]] = t
    BY <2>1 DEF RequestsInv, TableSound, Object
  <2>3. QED
    BY <1>1, <2>2
<1>3. /\ made \in 0..MaxObjects /\ made' = made + 1 /\ made' \in Object
      /\ objects' \in [SessionIds -> 0..made'] /\ names' \in [Object -> SessionIds \union {Nothing}]
      /\ live' \subseteq 1..made' /\ closing' \subseteq 1..made' /\ strays' \subseteq 1..made'
      /\ \A o \in 1..made : names'[o] = names[o]
      /\ live \subseteq live' /\ UNCHANGED <<closing, strays>> /\ TableSound'
  BY <1>1, <1>2, AddsTable
<1>4. made' \in Nat /\ made' >= made /\ made' \in 0..MaxObjects
  BY <1>3 DEF Object
<1>5. RequestsTypeOK'
  BY <1>1, <1>3, <1>4 DEF RequestsInv, RequestsTypeOK, backendVars
<1>6. Spares(Nothing)
  BY <1>1, <1>3, <1>4 DEF Spares
<1>7. \A s \in Streams : KeepsWitnesses(Nothing, s)
  BY <1>3 DEF KeepsWitnesses
<1>8. QED
  BY <1>1, <1>3, <1>5, <1>6, <1>7, StepKeeps

LEMMA RequestsStutterKeeps == ASSUME RequestsInv, UNCHANGED requestVars PROVE RequestsInv'
<1>1. UNCHANGED <<call, objects, made, names, live, closing, strays, gate, claims, stopping, wire, reply,
                  running, backendVars>>
  BY DEF requestVars, sessionVars, backendVars
<1>2. RequestsTypeOK' /\ made \in Nat
  BY <1>1 DEF RequestsInv, RequestsTypeOK
<1>3. Spares(Nothing)
  BY <1>1, <1>2 DEF Spares
<1>4. TableSound'
  BY <1>1 DEF RequestsInv, TableSound
<1>5. \A s \in Streams : KeepsWitnesses(Nothing, s)
  BY <1>1 DEF KeepsWitnesses
<1>6. QED
  BY <1>1, <1>2, <1>3, <1>4, <1>5, StepKeeps

----------------------------------------------------------------------------
(* Codex *)

\* Codex takes the first message: a start becomes a stream that runs, a stop ends one, and
\* whoever waits hears of it.
LEMMA CarriesOutKeeps == ASSUME RequestsInv, CarriesOut PROVE RequestsInv'
<1>1. /\ wire # <<>> /\ wire' = Tail(wire)
      /\ UNCHANGED <<call, sessionVars, gate, claims, stopping>>
  BY DEF CarriesOut
<1>0. PICK m \in Messages : m = Head(wire)
  BY <1>1, MessageTaken DEF RequestsInv
<1> DEFINE c == m.by
<1>2. /\ Messages' \subseteq Messages /\ \A n \in Messages' : n.by # c
      /\ \A n \in Messages : n = m \/ n \in Messages'
      /\ \A i, j \in 1..Len(wire') : wire'[i].by = wire'[j].by => i = j
  BY <1>0, <1>1, MessageTaken DEF RequestsInv
<1>3. /\ c \in Calls /\ m.kind \in Classes /\ m.stream \in Streams \union {Nothing} /\ Genuine(m)
  BY MessagesTyped DEF RequestsInv, WireSound
<1>4. /\ call[c].at \in {"sent", "failed"} /\ (call[c].at = "sent" => reply[c] = Nothing)
      /\ m.kind = Kind(c) /\ m.stream = StreamOf(c)
  BY <1>3 DEF Genuine
<1>5. /\ Request(c) \in Requests /\ Knowledge(c) /\ stopping[c] \subseteq Streams
      /\ InSession(c) => Request(c).session \in SessionIds
  BY <1>3, <1>4 DEF RequestsInv, RequestsTypeOK, CallInv, Knowledge, Settled
<1>6. /\ m.kind = "start" => /\ Request(c).class = "start" /\ Request(c).session \in SessionIds
                             /\ m.stream = Request(c).stream
      /\ m.kind \in {"start", "stop"} => m.stream \in Streams
  <2>1. stopping[c] # {} => m.stream \in stopping[c] /\ m.kind = "stop"
    BY <1>4 DEF StreamOf, Kind, AnyOf
  <2>2. stopping[c] = {} => /\ m.stream = Request(c).stream /\ m.kind = Request(c).class
    BY <1>4 DEF StreamOf, Kind
  <2>3. Request(c).class \in {"start", "stop"} => Request(c).stream \in Streams /\ InSession(c)
    BY <1>5 DEF WellFormed, InSession, ThreadMethod
  <2>4. QED
    BY <1>5, <2>1, <2>2, <2>3
<1>7. PICK verdict \in {"ok", "rejected"} :
        /\ reply' = IF call[c].at = "sent" THEN [reply EXCEPT ![c] = verdict] ELSE reply
        /\ \/ /\ m.kind = "start" /\ running[m.stream] = Nothing /\ verdict = "ok"
              /\ running' = [running EXCEPT ![m.stream] = Request(c).session]
           \/ /\ m.kind = "stop" /\ running[m.stream] # Nothing /\ verdict = "ok"
              /\ running' = [running EXCEPT ![m.stream] = Nothing]
           \/ m.kind \notin {"start", "stop"} /\ verdict = "ok" /\ running' = running
           \/ verdict = "rejected" /\ running' = running
  BY <1>0 DEF CarriesOut, Verdict, At
<1>8. /\ reply' \in [Calls -> {Nothing, "ok", "rejected"}]
      /\ running' \in [Streams -> SessionIds \union {Nothing}]
      /\ \A d \in Calls \ {c} : reply'[d] = reply[d]
      /\ reply'[c] \in {reply[c], verdict}
      /\ call[c].at = "sent" => reply'[c] = verdict
  BY <1>3, <1>6, <1>7 DEF RequestsInv, RequestsTypeOK
<1>9. RequestsTypeOK'
  <2>1. wire' \in Seq([kind : Classes, stream : Streams \union {Nothing}, by : Calls])
    BY <1>1 DEF RequestsInv, RequestsTypeOK
  <2>2. QED
    BY <1>1, <1>8, <2>1 DEF RequestsInv, RequestsTypeOK, sessionVars
<1>10. UNCHANGED <<made, names, live, closing, objects, strays>> /\ made \in Nat
  BY <1>1 DEF sessionVars, RequestsInv, RequestsTypeOK
<1>11. Spares(Nothing)
  BY <1>1, <1>10 DEF Spares
<1>12. \A d \in Calls : CallInv(d)'
  BY <1>11, OthersKeep
<1>13. TableSound' /\ StreamsOpen'
  <2>1. \A s \in Streams : KeepsWitnesses(Nothing, s)
    BY <1>10 DEF KeepsWitnesses
  <2>2. StreamsOpen'
    BY <1>1, <1>11, <2>1, WitnessKept DEF StreamsOpen
  <2>3. QED
    BY <1>10, <2>2 DEF RequestsInv, TableSound
<1>14. WireSound'
  <2>1. ASSUME NEW n \in Messages' PROVE Genuine(n)'
    <3>1. n \in Messages /\ n.by \in Calls /\ n.by # c /\ Genuine(n)
      BY <1>2, <2>1, MessagesTyped DEF RequestsInv, WireSound
    <3>2. QED
      BY <1>1, <1>8, <3>1, OthersGenuine
  <2>2. QED
    BY <1>2, <2>1 DEF WireSound
<1>15. ASSUME NEW s \in Streams, NEW d \in Calls \ {c}
       PROVE  (Starting(d, s)' <=> Starting(d, s)) /\ (Ending(d, s)' <=> Ending(d, s))
              /\ Request(d)' = Request(d)
  <2>1. (\E n \in Messages' : n.by = d) <=> (\E n \in Messages : n.by = d)
    BY <1>2
  <2>2. QED
    BY <1>1, <1>8, <2>1, OthersClaim
<1>16. /\ Request(c)' = Request(c) /\ StreamOf(c)' = StreamOf(c) /\ Kind(c)' = Kind(c)
  BY <1>1, <1>3, SameStream DEF Request
<1>17. ASSUME NEW s \in Streams
       PROVE  /\ ~Starting(c, s)' /\ ~Ending(c, s)
              /\ Starting(c, s) <=> m.kind = "start" /\ m.stream = s
              /\ Ending(c, s)' <=> call[c].at = "sent" /\ Unclaims(m.kind, verdict) /\ m.stream = s
  <2>1. ~Starting(c, s)' /\ ~Ending(c, s)
    BY <1>1, <1>2, <1>4, <1>16 DEF Starting, Ending
  <2>2. Request(c).class = "start" => m.kind = "start"
    BY <1>4, <1>5 DEF Knowledge, Kind, Shuts, Teardown, Resumes
  <2>3. Starting(c, s) <=> m.kind = "start" /\ m.stream = s
    BY <1>4, <1>6, <2>2 DEF Starting
  <2>4. verdict # Nothing
    BY <1>7
  <2>5. Ending(c, s)' <=> call[c].at = "sent" /\ Unclaims(m.kind, verdict) /\ m.stream = s
    BY <1>1, <1>4, <1>8, <1>16, <2>4 DEF Ending, Unclaims
  <2>6. QED
    BY <2>1, <2>3, <2>5
<1>18. ClaimsHeld'
  <2>1. claims' = claims
    BY <1>1
  <2>2. CASE m.kind = "start" /\ running[m.stream] = Nothing /\ verdict = "ok"
             /\ running' = [running EXCEPT ![m.stream] = Request(c).session]
    <3>1. \A s \in Streams : ~Ending(c, s)'
      BY <1>17, <2>2 DEF Unclaims
    <3>2. running'[m.stream] = Request(c).session /\ m.stream \in Streams
          /\ \A s \in Streams \ {m.stream} : running'[s] = running[s]
      BY <1>6, <2>2 DEF RequestsInv, RequestsTypeOK
    <3>3. Starting(c, m.stream)
      BY <1>17, <2>2, <3>2
    <3>4. QED
      BY <1>3, <1>15, <1>17, <2>1, <3>1, <3>2, <3>3 DEF RequestsInv, ClaimsHeld
  <2>3. CASE m.kind = "stop" /\ running[m.stream] # Nothing /\ verdict = "ok"
             /\ running' = [running EXCEPT ![m.stream] = Nothing]
    <3>1. running'[m.stream] = Nothing /\ m.stream \in Streams
          /\ \A s \in Streams \ {m.stream} : running'[s] = running[s]
      BY <1>6, <2>3 DEF RequestsInv, RequestsTypeOK
    <3>2. \A s \in Streams : Ending(c, s)' => s = m.stream
      BY <1>17
    <3>3. claims[m.stream] # Nothing /\ \A d \in Calls : ~Starting(d, m.stream) /\ ~Ending(d, m.stream)
      BY <2>3, <3>1 DEF RequestsInv, ClaimsHeld, RequestsTypeOK
    <3>4. QED
      BY <1>3, <1>15, <1>16, <1>17, <2>1, <3>1, <3>2, <3>3 DEF RequestsInv, ClaimsHeld
  <2>4. CASE m.kind \notin {"start", "stop"} /\ verdict = "ok" /\ running' = running
    <3>1. \A s \in Streams : ~Ending(c, s)'
      BY <1>17, <2>4 DEF Unclaims
    <3>2. QED
      BY <1>3, <1>15, <1>16, <1>17, <2>1, <2>4, <3>1 DEF RequestsInv, ClaimsHeld
  <2>5. CASE verdict = "rejected" /\ running' = running
    <3>1. \A s \in Streams : Ending(c, s)' => Starting(c, s)
      BY <1>17, <2>5 DEF Unclaims
    <3>2. QED
      BY <1>3, <1>15, <1>16, <1>17, <2>1, <2>5, <3>1 DEF RequestsInv, ClaimsHeld
  <2>6. QED
    BY <1>7, <2>2, <2>3, <2>4, <2>5
<1>19. QED
  BY <1>9, <1>12, <1>13, <1>14, <1>18 DEF RequestsInv

----------------------------------------------------------------------------
(* The theorems *)

\* The inductive invariant: who holds a gate has found the object it closes, attaches or
\* was admitted to; a claim has an open object of its session that no one closes without
\* stopping the stream; and it stands for one start, one stream that runs or one verdict.
THEOREM RequestsInvariantHolds == RequestsSpec => []RequestsInv
<1>1. RequestsInit => RequestsInv
  BY RequestsInitial
<1>2. RequestsInv /\ [RequestsNext]_requestVars => RequestsInv'
  BY CarriesOutKeeps, RequestsOpensKeeps, ArrivesKeeps, ScopeKeeps, FindSessionKeeps, EnterKeeps,
     EnterResumeKeeps, ClaimKeeps, SendKeeps, AnsweredKeeps, TearsDownKeeps, DetachesKeeps,
     AttachesKeeps, FailsKeeps, RequestsStutterKeeps
     DEF RequestsNext
<1>3. QED
  BY <1>1, <1>2, PTL DEF RequestsSpec

\* Every variable keeps its type.
THEOREM RequestsTypeCorrect == RequestsSpec => []RequestsTypeOK
<1>1. RequestsInv => RequestsTypeOK
  BY DEF RequestsInv
<1>2. QED
  BY <1>1, RequestsInvariantHolds, PTL

\* A stream that runs is claimed by its own session (resources.rs 10-63), for any number of
\* starts, stops, closes and resumes that fail, are refused, or are carried out after their
\* time.
THEOREM RunningIsClaimed == RequestsSpec => []EventsRouted
<1>1. RequestsInv => EventsRouted
  BY DEF RequestsInv, ClaimsHeld, EventsRouted
<1>2. QED
  BY <1>1, RequestsInvariantHolds, PTL

\* A session of which no object is open has no stream, running or on its way (lifecycle.rs
\* 162-179 and 354-376, extension_requests.rs 184-197, resources.rs 65-82), with any number
\* of closes and resumes of it at once.  One that is off the table while an object of it is
\* open is not meant.
THEOREM ClosedStaysSilent == RequestsSpec => []ClosedSilent
<1>1. RequestsInv => ClosedSilent
  <2> SUFFICES ASSUME RequestsInv, NEW t \in SessionIds, \A o \in live : names[o] # t
               PROVE  /\ \A s \in Streams : running[s] # t
                      /\ \A i \in 1..Len(wire) :
                           wire[i].kind = "start" => Request(wire[i].by).session # t
    BY DEF ClosedSilent
  <2>1. \A s \in Streams : claims[s] # t
    BY DEF RequestsInv, StreamsOpen, Witness
  <2>2. \A s \in Streams : running[s] # t
    BY <2>1 DEF RequestsInv, ClaimsHeld
  <2>3. ASSUME NEW i \in 1..Len(wire), wire[i].kind = "start"
        PROVE  Request(wire[i].by).session # t
    <3> DEFINE m == wire[i]
               c == m.by
    <3>1. m \in Messages
      BY DEF Messages
    <3>2. c \in Calls /\ Genuine(m)
      BY <3>1, MessagesTyped DEF RequestsInv, WireSound
    <3>3. stopping[c] = {} /\ Request(c).class = "start" /\ call[c].at \in {"sent", "failed"}
      BY <2>3, <3>2 DEF Genuine, Kind
    <3>4. Request(c).stream \in Streams
      BY <3>2, <3>3 DEF RequestsInv, CallInv, Knowledge, WellFormed
    <3>5. Starting(c, Request(c).stream)
      BY <3>1, <3>3 DEF Starting
    <3>6. QED
      BY <2>1, <3>2, <3>4, <3>5 DEF RequestsInv, ClaimsHeld
  <2>4. QED
    BY <2>2, <2>3
<1>2. QED
  BY <1>1, RequestsInvariantHolds, PTL

\* Only who is ready, or shuts a session, sends.
LEMMA SentBySend ==
  ASSUME RequestsInv, [RequestsNext]_requestVars, NEW c \in Calls, Sent(c)
  PROVE  call[c].at \in {"ready", "streams"}
<1> SUFFICES ASSUME call[c].at \notin {"ready", "streams"} PROVE FALSE
  OBVIOUS
<1>1. call \in [Calls -> Call] /\ call' # call /\ call[c].at # "sent" /\ call'[c].at = "sent"
  BY DEF RequestsInv, RequestsTypeOK, Sent, At
<1>2. ASSUME NEW d \in Calls, NEW place \in Places \ {"sent"}, Goes(d, place) PROVE FALSE
  <2>1. Moves(d, place)
    BY <1>2, GoesMoves DEF RequestsInv
  <2>2. QED
    BY <1>1, <2>1 DEF Moves
<1>3. ASSUME NEW d \in Calls, NEW place \in {"gate", "added"}, NEW o, Finds(d, place, o) PROVE FALSE
  BY <1>1, <1>3 DEF Finds
<1>4. PICK d \in Calls :
        \/ \E r \in Requests : Arrives(d, r)
        \/ Scope(d) \/ FindSession(d) \/ Enter(d) \/ EnterResume(d) \/ ClaimStream(d) \/ Send(d)
        \/ TearsDown(d) \/ Detaches(d) \/ Attaches(d) \/ Fails(d)
        \/ \E verdict \in {"ok", "rejected", "timeout"} : Answered(d, verdict)
  BY <1>1 DEF RequestsNext, CarriesOut, OpensSession, requestVars
<1>5. \A r \in Requests : ~Arrives(d, r)
  BY <1>1 DEF Arrives
<1>6. ~Scope(d)
  BY <1>2 DEF Scope, Places
<1>7. ~FindSession(d)
  BY <1>2, <1>3 DEF FindSession, Places
<1>8. ~Enter(d)
  BY <1>2 DEF Enter, ListStreams, Places
<1>9. ~EnterResume(d)
  BY <1>2 DEF EnterResume, ListStreams, Places
<1>10. ~ClaimStream(d) /\ ~TearsDown(d) /\ ~Detaches(d) /\ ~Attaches(d) /\ ~Fails(d)
  BY <1>2 DEF ClaimStream, TearsDown, Detaches, Attaches, Fails, Places
<1>11. ASSUME NEW verdict \in {"ok", "rejected", "timeout"} PROVE ~Answered(d, verdict)
  BY <1>2 DEF Answered, Places
<1>12. ~Send(d)
  <2>1. ASSUME Send(d) PROVE FALSE
    <3>1. Moves(d, "sent") /\ call[d].at \in {"ready", "streams"}
      BY <2>1, GoesMoves DEF Send, At, Silenced, RequestsInv, Places
    <3>2. QED
      BY <1>1, <3>1 DEF Moves
  <2>2. QED
    BY <2>1
<1>13. QED
  BY <1>4, <1>5, <1>6, <1>7, <1>8, <1>9, <1>10, <1>11, <1>12

\* What reaches the backend is lawful when it is sent, not only when it was authorized
\* (extensions.rs 184-266, extension_requests.rs 107-121): the object it found is its
\* session's, open, closing by this request at most, and in the table unless a close or a
\* resume has parted it from there.
THEOREM ForwardedStaysOwned == RequestsSpec => ForwardedOwned
<1>1. RequestsInv /\ [RequestsNext]_requestVars =>
        [\A c \in Calls : Sent(c) =>
           LET r == Request(c)
               o == call[c].object
           IN /\ HostMethod(r) => AllowHost
              /\ ThreadMethod(r) =>
                   /\ o \in live /\ names[o] = r.session
                   /\ objects[r.session] = o \/ o \in strays
                   /\ o \in closing => Teardown(r)
                   /\ \/ r.thread \in {r.session, Nothing}
                      \/ r.thread \in Children /\ Owner[r.thread] = r.session]_requestVars
  <2> SUFFICES ASSUME RequestsInv, [RequestsNext]_requestVars, NEW c \in Calls, Sent(c)
               PROVE  LET r == Request(c)
                          o == call[c].object
                      IN /\ HostMethod(r) => AllowHost
                         /\ ThreadMethod(r) =>
                              /\ o \in live /\ names[o] = r.session
                              /\ objects[r.session] = o \/ o \in strays
                              /\ o \in closing => Teardown(r)
                              /\ \/ r.thread \in {r.session, Nothing}
                                 \/ r.thread \in Children /\ Owner[r.thread] = r.session
    OBVIOUS
  <2>1. call[c].at \in {"ready", "streams"}
    BY SentBySend
  <2>2. call[c].at \in {"ready", "streams"} /\ Knowledge(c) /\ Gated(c) /\ Found(c)
    BY <2>1 DEF RequestsInv, CallInv
  <2>3. Lawful(c)
    BY <2>2 DEF Knowledge, Settled
  <2>4. ThreadMethod(Request(c)) => Bound(c)
    BY <2>2 DEF Bound, InSession
  <2>5. ThreadMethod(Request(c)) =>
          /\ call[c].object \in live /\ names[call[c].object] = Request(c).session
          /\ call[c].object \in closing => Teardown(Request(c))
    BY <2>4, <2>2 DEF Gated, Found
  <2>6. ThreadMethod(Request(c)) =>
          objects[Request(c).session] = call[c].object \/ call[c].object \in strays
    BY <2>5 DEF RequestsInv, TableSound
  <2>7. QED
    BY <2>3, <2>5, <2>6 DEF Lawful
<1>2. QED
  BY <1>1, RequestsInvariantHolds, PTL DEF RequestsSpec, ForwardedOwned

================================================================================
