---------------------------- MODULE ProcessProofs ----------------------------
(***************************************************************************)
(* What McpBridge and RuntimeCache promise, the two parts of a process     *)
(* that no session owns, each proved for any constants: of the bridge for  *)
(* any listeners, requests, ids and limits; at the end, of the cache for   *)
(* any processes, versions, files and starts (CacheAssumption).            *)
(*                                                                         *)
(* DisconnectedOnce and ClosedForGood speak of what a connection holds     *)
(* when it is over, and nothing in the code says so in one place: the      *)
(* lease moves from the task to the handler, to the table, to a cleanup.   *)
(* The inductive invariant follows it (Life), and counts the connects on   *)
(* their way (CountExact), which a lookup that finds no id goes by.        *)
(***************************************************************************)
EXTENDS McpBridge, RuntimeCache, FiniteSetTheorems, TLAPS

\* The task of a connect that has not handed its lease over yet.
AtWork(i) == task[i] \in {"admitted", "asked", "answered", "made", "returned"}

\* Who is a connection of: its id is in the table of endpoints.
Live(i) ==
  \/ task[i] \in {"made", "returned"} \/ handler[i] = "relaying"
  \/ i \in sessions \/ cleanup[i] = "removing"

\* Before and during the connect, until the lease is handed over.
Connects(i) ==
  /\ task[i] = None =>
       /\ handler[i] \in {"idle", "done"} /\ id[i] = None /\ i \notin permits
       /\ i \notin sessions /\ cleanup[i] = None
  /\ handler[i] = "idle" => task[i] = None
  /\ handler[i] = "connecting" => AtWork(i)
  /\ AtWork(i) =>
       /\ handler[i] \in {"connecting", "done"} /\ i \in permits
       /\ i \notin sessions /\ cleanup[i] = None
  /\ task[i] \in {"admitted", "asked"} => id[i] = None
  /\ task[i] = "answered" => id[i] # None

\* Whoever has the lease afterwards: the handler, the table, or a cleanup, one at a time.
Holds(i) ==
  /\ handler[i] = "relaying" =>
       task[i] = "over" /\ i \in permits /\ i \notin sessions /\ cleanup[i] = None
  /\ i \in sessions =>
       task[i] = "over" /\ handler[i] = "done" /\ i \in permits /\ cleanup[i] = None
  /\ cleanup[i] # None =>
       task[i] = "over" /\ handler[i] = "done" /\ i \notin sessions /\ i \in down
  /\ task[i] = "over" /\ i \in permits =>
       handler[i] = "relaying" \/ i \in sessions \/ cleanup[i] \in {"removing", "waiting"}

\* How a cleanup ends a connection.
Ends(i) ==
  /\ cleanup[i] \in {"removing", "waiting"} => i \in permits
  /\ cleanup[i] = "waiting" => ending[i] # None
  /\ cleanup[i] = "done" => i \notin permits /\ ending[i] = "over"
  /\ told[i] = IF ending[i] = None THEN 0 ELSE 1

\* An id is in the table of endpoints as long as its connection lives.
Known(i) ==
  /\ Live(i) => id[i] \in Ids /\ endpoints[id[i]] = i
  /\ \A x \in Ids : endpoints[x] = i => x = id[i] /\ Live(i)

Life(i) == Connects(i) /\ Holds(i) /\ Ends(i) /\ Known(i)

\* Connects of which McpManager::endpoint has to wait for the outcome.
OnTheirWay == {i \in Inits : task[i] \in {"asked", "answered", "made"}}
CountExact == connecting = Cardinality(OnTheirWay)

\* A listener that has closed its door, or is empty.
CloseSound(l) ==
  /\ closing[l] # "open" => shutdown[l]
  /\ closing[l] = "closed" => permits \intersect Of(l) = {}

\* A message that has found a connection keeps it; without its entry, that is over.
LookSound(m) ==
  /\ lookup[m] \in {"publishing", "asking"} => found[m] \in Inits
  /\ lookup[m] = "asking" /\ entry[m] = None => found[m] \in down

\* TypeOK in two parts; connecting has its type from CountExact.
Limits ==
  /\ Cardinality(slots) + elsewhere <= MaxConnections
  /\ \A l \in Listeners : Cardinality(permits \intersect Of(l)) <= MaxSessions
Types ==
  /\ shutdown \in [Listeners -> BOOLEAN]
  /\ closing \in [Listeners -> {"open", "drain", "wait", "closed", "late"}]
  /\ batch \in [Listeners -> SUBSET Inits]
  /\ handler \in [Inits -> {"idle", "connecting", "relaying", "done"}]
  /\ task \in [Inits -> {None, "admitted", "asked", "answered", "made", "returned",
                         "over"}]
  /\ id \in [Inits -> Ids \union {None}]
  /\ permits \subseteq Inits /\ slots \subseteq Inits /\ elsewhere \in 0 .. MaxConnections
  /\ endpoints \in [Ids -> Inits \union {None}]
  /\ sessions \subseteq Inits /\ down \subseteq Inits
  /\ cleanup \in [Inits -> {None, "removing", "waiting", "done"}]
  /\ rescue \subseteq Inits
  /\ ending \in [Inits -> {None, "asked", "over"}]
  /\ told \in [Inits -> Nat]
  /\ lookup \in [Messages -> {"idle", "checking", "waiting", "publishing", "asking",
                              "done"}]
  /\ woken \subseteq Messages
  /\ entry \in [Messages -> {None, "pending", "replied"}]
  /\ found \in [Messages -> Inits \union {None}]
  /\ verdict \in [Messages -> {None, "answer", "closed", "full", "unknown", "late",
                              "withdrawn"}]

IInv ==
  /\ Types /\ Limits /\ CountExact
  /\ \A i \in Inits : Life(i)
  /\ \A l \in Listeners : CloseSound(l)
  /\ \A m \in Messages : LookSound(m)

----------------------------------------------------------------------------
(* What the invariant says *)

LEMMA CountTyped ==
  ASSUME CountExact
  PROVE  connecting \in 0 .. Cardinality(Inits)
<1>1. PICK S : S = OnTheirWay
  OBVIOUS
<1>2. S \subseteq Inits
  BY <1>1 DEF OnTheirWay
<1>3. IsFiniteSet(S) /\ Cardinality(S) <= Cardinality(Inits)
  BY <1>2, FS_Subset, BridgeAssumption DEF BridgeAssumption
<1>4. Cardinality(S) \in Nat /\ Cardinality(Inits) \in Nat
  BY <1>3, FS_CardinalityType, BridgeAssumption DEF BridgeAssumption
<1> QED  BY <1>1, <1>3, <1>4 DEF CountExact

LEMMA Typed == ASSUME IInv PROVE TypeOK
BY CountTyped DEF IInv, TypeOK, Types, Limits

\* Once, and before the permit is free again.
LEMMA EndsInOrder == ASSUME IInv PROVE DisconnectedOnce
<1> SUFFICES ASSUME NEW i \in Inits
             PROVE  /\ told[i] <= 1
                    /\ task[i] \in {"made", "returned"} => i \in permits
                    /\ task[i] = "over" /\ i \notin permits /\ id[i] # None =>
                         ending[i] = "over" \/ cleanup[i] = None
  BY DEF DisconnectedOnce
<1>1. Life(i) /\ cleanup[i] \in {None, "removing", "waiting", "done"}
  BY DEF IInv, Types
<1>2. told[i] <= 1
  BY <1>1 DEF Life, Ends
<1>3. task[i] \in {"made", "returned"} => i \in permits
  BY <1>1 DEF Life, Connects, AtWork
<1>4. i \notin permits => ending[i] = "over" \/ cleanup[i] = None
  BY <1>1 DEF Life, Ends
<1> QED  BY <1>2, <1>3, <1>4

\* An empty listener has nothing at all.
LEMMA ClosedIsEmpty == ASSUME IInv PROVE ClosedForGood
<1> SUFFICES ASSUME NEW l \in Listeners, closing[l] = "closed", NEW i \in Of(l)
             PROVE  /\ i \notin permits /\ i \notin sessions
                    /\ task[i] \in {None, "over"} /\ handler[i] \in {"idle", "done"}
                    /\ \A x \in Ids : endpoints[x] # i
  BY DEF ClosedForGood
<1>1. i \in Inits /\ i \notin permits
  BY DEF IInv, CloseSound, Of
<1>2. /\ Life(i)
      /\ task[i] \in {None, "admitted", "asked", "answered", "made", "returned", "over"}
      /\ handler[i] \in {"idle", "connecting", "relaying", "done"}
  BY <1>1 DEF IInv, Types
<1>3. ~AtWork(i) /\ handler[i] \in {"idle", "done"} /\ i \notin sessions
      /\ cleanup[i] # "removing"
  BY <1>1, <1>2 DEF Life, Connects, Holds, Ends
<1>4. task[i] \in {None, "over"}
  BY <1>2, <1>3 DEF AtWork
<1>5. ~Live(i)
  BY <1>3 DEF Live, AtWork
<1> QED  BY <1>1, <1>2, <1>3, <1>4, <1>5 DEF Life, Known

----------------------------------------------------------------------------
(* What a step leaves alone *)

\* Nothing of a connection has changed, but that it may have been shut down.
Same(i) ==
  /\ task'[i] = task[i] /\ handler'[i] = handler[i] /\ id'[i] = id[i]
  /\ (i \in permits' <=> i \in permits) /\ (i \in sessions' <=> i \in sessions)
  /\ cleanup'[i] = cleanup[i] /\ ending'[i] = ending[i] /\ told'[i] = told[i]
  /\ (i \in down => i \in down')
  /\ \A x \in Ids : endpoints'[x] = i <=> endpoints[x] = i

LEMMA LifeKept == ASSUME NEW i \in Inits, Life(i), Same(i) PROVE Life(i)'
<1>1. Connects(i)'
  BY DEF Life, Connects, AtWork, Same
<1>2. Holds(i)' /\ Ends(i)'
  BY DEF Life, Holds, Ends, Same
<1>3. Live(i)' <=> Live(i)
  BY DEF Live, Same
<1>4. Known(i)'
  BY <1>3 DEF Life, Known, Same
<1> QED  BY <1>1, <1>2, <1>4 DEF Life

LEMMA OneMoves ==
  ASSUME NEW j \in Inits, \A i \in Inits : Life(i), Life(j)',
         \A i \in Inits \ {j} : Same(i)
  PROVE  \A i \in Inits : Life(i)'
BY LifeKept

\* No connection has moved.
Still == UNCHANGED <<handler, task, id, permits, sessions, cleanup, endpoints, ending, told>>

LEMMA StillLife ==
  ASSUME \A i \in Inits : Life(i), Still, down \subseteq down'
  PROVE  \A i \in Inits : Life(i)'
<1>1. \A i \in Inits : Same(i)
  BY DEF Still, Same
<1> QED  BY <1>1, LifeKept

LEMMA LimitsKept ==
  ASSUME Types, Limits, permits' \subseteq permits, slots' \subseteq slots,
         elsewhere' = elsewhere
  PROVE  Limits'
<1>1. PICK S, T : S = slots /\ T = slots'
  OBVIOUS
<1>2. IsFiniteSet(Inits)
  BY BridgeAssumption DEF BridgeAssumption
<1>3. Cardinality(T) <= Cardinality(S) /\ Cardinality(T) \in Nat /\ Cardinality(S) \in Nat
  BY <1>1, <1>2, FS_Subset, FS_CardinalityType DEF Types
<1>4. ASSUME NEW l \in Listeners
      PROVE  Cardinality(permits' \intersect Of(l)) <= MaxSessions
  <2>1. PICK P, Q : P = permits \intersect Of(l) /\ Q = permits' \intersect Of(l)
    OBVIOUS
  <2>2. Q \subseteq P /\ P \subseteq Inits
    BY <2>1 DEF Types
  <2>3. Cardinality(Q) <= Cardinality(P) /\ Cardinality(P) \in Nat /\ Cardinality(Q) \in Nat
    BY <1>2, <2>2, FS_Subset, FS_CardinalityType
  <2>4. Cardinality(P) <= MaxSessions
    BY <2>1 DEF Limits
  <2>5. MaxSessions \in Nat
    BY BridgeAssumption DEF BridgeAssumption
  <2> QED  BY <2>1, <2>3, <2>4, <2>5
<1>5. elsewhere \in Nat /\ MaxConnections \in Nat
  BY BridgeAssumption DEF BridgeAssumption, Types
<1>6. Cardinality(T) + elsewhere <= MaxConnections
  BY <1>1, <1>3, <1>5 DEF Limits
<1> QED  BY <1>1, <1>4, <1>6 DEF Limits, Of

\* No connect begins or ends.
LEMMA CountKept ==
  ASSUME CountExact, connecting' = connecting, OnTheirWay' = OnTheirWay
  PROVE  CountExact'
BY DEF CountExact

LEMMA CountUp ==
  ASSUME Types, CountExact, NEW j \in Inits, j \notin OnTheirWay,
         OnTheirWay' = OnTheirWay \union {j}, connecting' = connecting + 1
  PROVE  CountExact'
<1>1. PICK S : S = OnTheirWay
  OBVIOUS
<1>2. IsFiniteSet(S)
  BY <1>1, FS_Subset, BridgeAssumption DEF BridgeAssumption, OnTheirWay
<1>3. Cardinality(S \union {j}) = Cardinality(S) + 1
  BY <1>1, <1>2, FS_AddElement
<1> QED  BY <1>1, <1>3 DEF CountExact

LEMMA CountDown ==
  ASSUME Types, CountExact, NEW j \in Inits, j \in OnTheirWay,
         OnTheirWay' = OnTheirWay \ {j}, connecting' = connecting - 1
  PROVE  CountExact'
<1>1. PICK S : S = OnTheirWay
  OBVIOUS
<1>2. IsFiniteSet(S)
  BY <1>1, FS_Subset, BridgeAssumption DEF BridgeAssumption, OnTheirWay
<1>3. Cardinality(S \ {j}) = Cardinality(S) - 1
  BY <1>1, <1>2, FS_RemoveElement
<1> QED  BY <1>1, <1>3 DEF CountExact

LEMMA DoorsKept ==
  ASSUME \A l \in Listeners : CloseSound(l), permits' \subseteq permits,
         UNCHANGED <<shutdown, closing>>
  PROVE  \A l \in Listeners : CloseSound(l)'
<1> SUFFICES ASSUME NEW l \in Listeners PROVE CloseSound(l)'
  OBVIOUS
<1>1. permits' \intersect Of(l) \subseteq permits \intersect Of(l)
  OBVIOUS
<1>2. CloseSound(l)
  OBVIOUS
<1> QED  BY <1>1, <1>2 DEF CloseSound, Of

LEMMA LooksKept ==
  ASSUME \A m \in Messages : LookSound(m), down \subseteq down',
         UNCHANGED <<lookup, found, entry>>
  PROVE  \A m \in Messages : LookSound(m)'
BY DEF LookSound

----------------------------------------------------------------------------
(* Every connection goes on with its life *)

\* A connect that fails ends before there is a lease.
LEMMA FailedLife ==
  ASSUME Types, \A i \in Inits : Life(i), NEW j \in Inits,
         task[j] \in {"admitted", "asked", "answered"}, Fails(j),
         UNCHANGED <<id, sessions, cleanup, endpoints, ending, told, down>>
  PROVE  \A i \in Inits : Life(i)'
<1>1. \A i \in Inits \ {j} : Same(i)
  BY DEF Types, Fails, Same
<1>2. /\ Life(j) /\ AtWork(j)
  BY DEF AtWork
<1>3. /\ handler[j] \in {"connecting", "done"} /\ j \notin sessions /\ cleanup[j] = None
  BY <1>2 DEF Life, Connects
<1>4. /\ task'[j] = "over" /\ handler'[j] = "done" /\ j \notin permits'
  BY <1>3 DEF Types, Fails
<1>5. ~Live(j) /\ ~Live(j)'
  BY <1>3, <1>4 DEF Live, None
<1>6. Connects(j)' /\ Holds(j)' /\ Ends(j)'
  BY <1>2, <1>3, <1>4 DEF Life, Connects, AtWork, Holds, Ends, None
<1>7. Known(j)'
  BY <1>2, <1>5 DEF Life, Known
<1> QED  BY <1>1, <1>6, <1>7, OneMoves DEF Life

LEMMA AdmitLife ==
  ASSUME IInv, NEW j \in Inits, Admit(j)
  PROVE  \A i \in Inits : Life(i)'
<1>0. Types /\ Life(j) /\ \A i \in Inits : Life(i)
  BY DEF IInv
<1>1. /\ handler[j] = "idle"
      /\ UNCHANGED <<id, sessions, cleanup, endpoints, ending, told, down>>
  BY DEF Admit, Handles, endVars
<1>2. /\ task[j] = None /\ id[j] = None /\ j \notin permits /\ j \notin sessions
      /\ cleanup[j] = None
  BY <1>0, <1>1 DEF Life, Connects
<1>3. \A i \in Inits \ {j} : Same(i)
  BY <1>0, <1>1 DEF Types, Same, Admit, Handles
<1>4. \/ handler'[j] = "connecting" /\ task'[j] = "admitted" /\ j \in permits'
      \/ handler'[j] = "done" /\ task'[j] = None /\ j \notin permits'
  BY <1>0, <1>2 DEF Types, Admit, Handles
<1>5. ~Live(j) /\ ~Live(j)'
  BY <1>1, <1>2, <1>4 DEF Live, None
<1>6. Connects(j)' /\ Holds(j)' /\ Ends(j)'
  BY <1>0, <1>1, <1>2, <1>4 DEF Life, Connects, AtWork, Holds, Ends, None
<1>7. Known(j)'
  BY <1>0, <1>1, <1>5 DEF Life, Known
<1> QED  BY <1>0, <1>3, <1>6, <1>7, OneMoves DEF Life

LEMMA HandlerLife ==
  ASSUME IInv, NEW j \in Inits, HandlerStep(j)
  PROVE  \A i \in Inits : Life(i)'
<1>0. Types /\ Life(j) /\ \A i \in Inits : Life(i)
  BY DEF IInv
<1>1. UNCHANGED <<task, id, permits, endpoints, ending, told>> /\ handler'[j] = "done"
  BY <1>0 DEF HandlerStep, Abandon, Register, Handles, poolVars, Types
<1>2. \A i \in Inits \ {j} : Same(i)
  BY <1>0, <1>1 DEF Types, Same, HandlerStep, Abandon, Register, Handles, DropLease
<1>3. CASE handler[j] = "connecting"
  <2>1. UNCHANGED <<sessions, cleanup, down>>
    BY <1>3 DEF HandlerStep, Abandon, Register, Handles
  <2>2. AtWork(j)
    BY <1>0, <1>3 DEF Life, Connects
  <2>3. Connects(j)' /\ Holds(j)' /\ Ends(j)'
    BY <1>0, <1>1, <2>1, <2>2 DEF Life, Connects, AtWork, Holds, Ends, None
  <2>4. Live(j)' <=> Live(j)
    BY <1>1, <1>3, <2>1 DEF Live
  <2> QED  BY <1>0, <1>1, <1>2, <2>3, <2>4, OneMoves DEF Life, Known
<1>4. CASE handler[j] = "relaying"
  <2>1. /\ task[j] = "over" /\ j \in permits /\ j \notin sessions /\ cleanup[j] = None
    BY <1>0, <1>4 DEF Life, Holds
  <2>2. \/ j \in sessions' /\ cleanup'[j] = None
        \/ j \notin sessions' /\ cleanup'[j] = "removing" /\ j \in down'
    BY <1>0, <1>4, <2>1 DEF Types, HandlerStep, Abandon, Register, Handles, DropLease
  <2>3. Connects(j)' /\ Holds(j)' /\ Ends(j)'
    BY <1>0, <1>1, <2>1, <2>2 DEF Life, Connects, AtWork, Holds, Ends, None
  <2>4. Live(j)' /\ Live(j)
    BY <1>4, <2>2 DEF Live
  <2> QED  BY <1>0, <1>1, <1>2, <2>3, <2>4, OneMoves DEF Life, Known
<1>5. handler[j] \in {"connecting", "relaying"}
  BY DEF HandlerStep, Abandon, Register, Handles
<1> QED  BY <1>3, <1>4, <1>5

LEMMA ConnectLife ==
  ASSUME IInv, NEW j \in Inits, ConnectStep(j) \/ Connected(j)
  PROVE  \A i \in Inits : Life(i)'
<1>0. Types /\ Life(j) /\ \A i \in Inits : Life(i)
  BY DEF IInv
<1>1. CASE Ask(j)
  <2>1. task[j] = "admitted"
        /\ UNCHANGED <<id, sessions, cleanup, endpoints, ending, told, down>>
    BY <1>1 DEF Ask, endVars
  <2>2. CASE Fails(j)
    BY <1>0, <2>1, <2>2, FailedLife
  <2>3. CASE Works(j, "admitted", "asked") /\ UNCHANGED <<handler, permits>>
    <3>1. \A i \in Inits \ {j} : Same(i)
      BY <1>0, <2>1, <2>3 DEF Types, Same, Works
    <3>2. task'[j] = "asked"
      BY <1>0, <2>3 DEF Types, Works
    <3>3. Connects(j)' /\ Holds(j)' /\ Ends(j)'
      BY <1>0, <2>1, <2>3, <3>2 DEF Life, Connects, AtWork, Holds, Ends, None
    <3>4. Live(j)' <=> Live(j)
      BY <2>1, <2>3, <3>2 DEF Live
    <3> QED  BY <1>0, <2>1, <3>1, <3>3, <3>4, OneMoves DEF Life, Known
  <2> QED  BY <1>1, <2>2, <2>3 DEF Ask
<1>2. CASE \E x \in Ids : ClientConnects(j, x)
  <2>1. PICK x \in Ids : ClientConnects(j, x)
    BY <1>2
  <2>2. /\ task[j] = "asked" /\ task'[j] = "answered" /\ id'[j] = x
        /\ UNCHANGED <<handler, permits, sessions, cleanup, endpoints, ending, told, down>>
    BY <1>0, <2>1 DEF Types, ClientConnects, Works, poolVars, endVars
  <2>3. \A i \in Inits \ {j} : Same(i)
    BY <1>0, <2>1, <2>2 DEF Types, Same, ClientConnects, Works
  <2>4. x # None
    BY BridgeAssumption DEF BridgeAssumption
  <2>5. Connects(j)' /\ Holds(j)' /\ Ends(j)'
    BY <1>0, <2>2, <2>4 DEF Life, Connects, AtWork, Holds, Ends, None
  <2>6. ~Live(j)' /\ ~Live(j)
    BY <1>0, <2>2 DEF Live, Life, Connects, AtWork, None
  <2> QED  BY <1>0, <2>2, <2>3, <2>5, <2>6, OneMoves DEF Life, Known
<1>3. CASE ConnectFails(j)
  BY <1>0, <1>3, FailedLife DEF ConnectFails, endVars
<1>4. CASE Insert(j)
  <2>1. task[j] = "answered"
        /\ UNCHANGED <<id, sessions, cleanup, ending, told, down>>
    BY <1>4 DEF Insert, endVars
  <2>2. CASE Fails(j) /\ UNCHANGED endpoints
    BY <1>0, <2>1, <2>2, FailedLife
  <2>3. CASE /\ endpoints[id[j]] = None /\ Works(j, "answered", "made")
             /\ endpoints' = [endpoints EXCEPT ![id[j]] = j]
             /\ UNCHANGED <<handler, permits>>
    <3>1. id[j] \in Ids
      BY <1>0, <2>1 DEF Life, Connects, Types
    <3>2. task'[j] = "made" /\ endpoints'[id[j]] = j
          /\ \A x \in Ids \ {id[j]} : endpoints'[x] = endpoints[x]
      BY <1>0, <2>3, <3>1 DEF Types, Works
    <3>3. None \notin Inits
      BY BridgeAssumption DEF BridgeAssumption
    <3>4. ASSUME NEW i \in Inits \ {j} PROVE Same(i)
      <4>1. \A x \in Ids : endpoints'[x] = i <=> endpoints[x] = i
        BY <2>3, <3>2, <3>3
      <4> QED  BY <1>0, <2>1, <2>3, <4>1 DEF Types, Same, Works
    <3>5. Connects(j)' /\ Holds(j)' /\ Ends(j)'
      BY <1>0, <2>1, <2>3, <3>2 DEF Life, Connects, AtWork, Holds, Ends, None
    <3>6. Live(j)' /\ ~Live(j)
      BY <1>0, <2>1, <3>2 DEF Live, Life, Connects, AtWork, None
    <3>7. Known(j)'
      BY <1>0, <2>1, <3>1, <3>2, <3>6 DEF Life, Known
    <3> QED  BY <1>0, <3>4, <3>5, <3>7, OneMoves DEF Life
  <2> QED  BY <1>4, <2>2, <2>3 DEF Insert, poolVars
<1>5. CASE Uncount(j)
  <2>1. /\ task[j] = "made" /\ task'[j] = "returned"
        /\ UNCHANGED <<handler, id, permits, sessions, cleanup, endpoints, ending, told, down>>
    BY <1>0, <1>5 DEF Types, Uncount, Works, poolVars, endVars
  <2>2. \A i \in Inits \ {j} : Same(i)
    BY <1>0, <1>5, <2>1 DEF Types, Same, Uncount, Works
  <2>3. Connects(j)' /\ Holds(j)' /\ Ends(j)'
    BY <1>0, <2>1 DEF Life, Connects, AtWork, Holds, Ends, None
  <2>4. Live(j)' /\ Live(j)
    BY <2>1 DEF Live
  <2> QED  BY <1>0, <2>1, <2>2, <2>3, <2>4, OneMoves DEF Life, Known
<1>6. CASE HandOver(j)
  <2>1. /\ task[j] = "returned" /\ task'[j] = "over"
        /\ UNCHANGED <<id, permits, sessions, endpoints, ending, told>>
    BY <1>0, <1>6 DEF Types, HandOver, Works, poolVars
  <2>2. \A i \in Inits \ {j} : Same(i)
    BY <1>0, <1>6, <2>1 DEF Types, Same, HandOver, Works, Handles, DropLease
  <2>3. /\ handler[j] \in {"connecting", "done"} /\ j \in permits /\ j \notin sessions
        /\ cleanup[j] = None
    BY <1>0, <2>1 DEF Life, Connects, AtWork
  <2>4. \/ handler'[j] = "relaying" /\ cleanup'[j] = None
        \/ handler'[j] = "done" /\ cleanup'[j] = "removing" /\ j \in down'
    BY <1>0, <1>6, <2>3 DEF Types, HandOver, Handles, DropLease
  <2>5. Connects(j)' /\ Holds(j)' /\ Ends(j)'
    BY <1>0, <2>1, <2>3, <2>4 DEF Life, Connects, AtWork, Holds, Ends, None
  <2>6. Live(j)' /\ Live(j)
    BY <2>1, <2>4 DEF Live
  <2> QED  BY <1>0, <2>1, <2>2, <2>5, <2>6, OneMoves DEF Life, Known
<1> QED  BY <1>1, <1>2, <1>3, <1>4, <1>5, <1>6 DEF ConnectStep, Connected

\* The lease of a connection in the table is dropped.
LEMMA DropLife ==
  ASSUME IInv, NEW j \in Inits, Delete(j)
  PROVE  \A i \in Inits : Life(i)'
<1>0. Types /\ Life(j) /\ \A i \in Inits : Life(i)
  BY DEF IInv
<1>1. /\ j \in sessions /\ j \notin sessions' /\ cleanup'[j] = "removing" /\ j \in down'
      /\ UNCHANGED <<handler, task, id, permits, endpoints, ending, told>>
  BY <1>0 DEF Types, Delete, DropLease, poolVars
<1>2. \A i \in Inits \ {j} : Same(i)
  BY <1>0, <1>1 DEF Types, Same, Delete, DropLease
<1>3. task[j] = "over" /\ handler[j] = "done" /\ j \in permits
  BY <1>0, <1>1 DEF Life, Holds
<1>4. Connects(j)' /\ Holds(j)' /\ Ends(j)'
  BY <1>0, <1>1, <1>3 DEF Life, Connects, AtWork, Holds, Ends, None
<1>5. Live(j)' /\ Live(j)
  BY <1>1 DEF Live
<1> QED  BY <1>0, <1>1, <1>2, <1>4, <1>5, OneMoves DEF Life, Known

LEMMA EndLife ==
  ASSUME IInv, NEW j \in Inits, EndStep(j) \/ Ended(j)
  PROVE  \A i \in Inits : Life(i)'
<1>0. Types /\ Life(j) /\ \A i \in Inits : Life(i)
  BY DEF IInv
<1>1. CASE End(j)
  <2>1. /\ cleanup[j] = "removing" /\ cleanup'[j] = "waiting"
        /\ endpoints' = [endpoints EXCEPT ![id[j]] = None]
        /\ UNCHANGED <<handler, task, id, permits, sessions, down>>
    BY <1>0, <1>1 DEF Types, End, poolVars
  <2>2. /\ task[j] = "over" /\ handler[j] = "done" /\ j \notin sessions /\ j \in down
        /\ j \in permits /\ Live(j) /\ id[j] \in Ids /\ endpoints[id[j]] = j
    BY <1>0, <2>1 DEF Life, Holds, Ends, Known, Live, None
  <2>3. ending'[j] # None /\ told'[j] = 1
    BY <1>0, <1>1 DEF Types, Life, Ends, End, Disconnect, None
  <2>4. None \notin Inits
    BY BridgeAssumption DEF BridgeAssumption
  <2>5. endpoints'[id[j]] = None /\ \A x \in Ids \ {id[j]} : endpoints'[x] = endpoints[x]
    BY <1>0, <2>1, <2>2 DEF Types
  <2>6. ASSUME NEW i \in Inits \ {j} PROVE Same(i)
    <3>1. \A x \in Ids : endpoints'[x] = i <=> endpoints[x] = i
      BY <2>2, <2>4, <2>5
    <3> QED  BY <1>0, <1>1, <2>1, <3>1 DEF Types, Same, End, Disconnect
  <2>7. Connects(j)' /\ Holds(j)' /\ Ends(j)'
    BY <1>0, <2>1, <2>2, <2>3 DEF Life, Connects, AtWork, Holds, Ends, None
  <2>8. ~Live(j)'
    BY <2>1, <2>2 DEF Live
  <2>9. \A x \in Ids : endpoints'[x] # j
    BY <1>0, <2>4, <2>5 DEF Life, Known
  <2> QED  BY <1>0, <2>6, <2>7, <2>8, <2>9, OneMoves DEF Life, Known
<1>2. CASE Rescue(j)
  <2>1. UNCHANGED <<handler, task, id, permits, sessions, cleanup, endpoints, down>>
    BY <1>2 DEF Rescue, poolVars
  <2>2. \A i \in Inits \ {j} : Same(i)
    BY <1>0, <1>2, <2>1 DEF Types, Same, Rescue, Disconnect
  <2>3. ending'[j] = IF ending[j] = None THEN "asked" ELSE ending[j]
    BY <1>0, <1>2 DEF Types, Rescue, Disconnect
  <2>4. told'[j] = IF ending'[j] = None THEN 0 ELSE 1
    BY <1>0, <1>2 DEF Types, Life, Ends, Rescue, Disconnect, None
  <2>5. Ends(j)'
    BY <1>0, <2>1, <2>3, <2>4 DEF Life, Ends, None
  <2>6. Connects(j)' /\ Holds(j)' /\ Known(j)'
    BY <1>0, <2>1 DEF Life, Connects, AtWork, Holds, Known, Live
  <2> QED  BY <1>0, <2>2, <2>5, <2>6, OneMoves DEF Life
<1>3. CASE Finish(j)
  <2>1. /\ cleanup[j] = "waiting" /\ ending[j] = "over" /\ cleanup'[j] = "done"
        /\ j \notin permits'
        /\ UNCHANGED <<handler, task, id, sessions, down, endpoints, ending, told>>
    BY <1>0, <1>3 DEF Types, Finish, Finishable
  <2>2. \A i \in Inits \ {j} : Same(i)
    BY <1>0, <1>3, <2>1 DEF Types, Same, Finish
  <2>3. /\ task[j] = "over" /\ handler[j] = "done" /\ j \notin sessions /\ j \in down
    BY <1>0, <2>1 DEF Life, Holds, None
  <2>4. Connects(j)' /\ Holds(j)' /\ Ends(j)'
    BY <1>0, <2>1, <2>3 DEF Life, Connects, AtWork, Holds, Ends, None
  <2>5. ~Live(j)' /\ ~Live(j)
    BY <2>1, <2>3 DEF Live
  <2> QED  BY <1>0, <2>1, <2>2, <2>4, <2>5, OneMoves DEF Life, Known
<1>4. CASE Retire(j)
  BY <1>4, DropLife DEF Retire
<1>5. CASE Ended(j)
  <2>1. /\ ending[j] = "asked" /\ ending'[j] = "over"
        /\ UNCHANGED <<handler, task, id, permits, sessions, cleanup, endpoints, down, told>>
    BY <1>0, <1>5 DEF Types, Ended, poolVars
  <2>2. \A i \in Inits \ {j} : Same(i)
    BY <1>0, <1>5, <2>1 DEF Types, Same, Ended
  <2>3. Ends(j)'
    BY <1>0, <2>1 DEF Life, Ends, None
  <2>4. Connects(j)' /\ Holds(j)' /\ Known(j)'
    BY <1>0, <2>1 DEF Life, Connects, AtWork, Holds, Known, Live
  <2> QED  BY <1>0, <2>2, <2>3, <2>4, OneMoves DEF Life
<1> QED  BY <1>1, <1>2, <1>3, <1>4, <1>5 DEF EndStep

LEMMA CloseLife ==
  ASSUME IInv, NEW l \in Listeners, CloseBegins(l) \/ CloseStep(l)
  PROVE  \A i \in Inits : Life(i)'
<1>0. Types /\ \A i \in Inits : Life(i)
  BY DEF IInv
<1>1. CASE CloseBegins(l) \/ CloseEnds(l)
  BY <1>0, <1>1, StillLife DEF CloseBegins, CloseEnds, Still, poolVars, endVars
<1>2. CASE CloseDrains(l)
  <2>1. PICK taken : taken = sessions \intersect Of(l)
    OBVIOUS
  <2>2. /\ sessions' = sessions \ taken /\ down' = down \union taken
        /\ cleanup' = [i \in Inits |-> IF i \in taken THEN "removing" ELSE cleanup[i]]
        /\ UNCHANGED <<handler, task, id, permits, endpoints, ending, told>>
    BY <1>2, <2>1 DEF CloseDrains, poolVars
  <2>3. ASSUME NEW i \in Inits, i \notin taken PROVE Life(i)'
    <3>1. Same(i)
      BY <2>2, <2>3 DEF Same
    <3> QED  BY <1>0, <3>1, LifeKept
  <2>4. ASSUME NEW i \in Inits, i \in taken PROVE Life(i)'
    <3>1. /\ i \in sessions /\ i \notin sessions' /\ cleanup'[i] = "removing" /\ i \in down'
      BY <2>1, <2>2, <2>4
    <3>2. Life(i)
      BY <1>0
    <3>3. task[i] = "over" /\ handler[i] = "done" /\ i \in permits
      BY <3>1, <3>2 DEF Life, Holds
    <3>4. Connects(i)' /\ Holds(i)' /\ Ends(i)'
      BY <2>2, <3>1, <3>2, <3>3 DEF Life, Connects, AtWork, Holds, Ends, None
    <3>5. Live(i)' /\ Live(i)
      BY <3>1 DEF Live
    <3> QED  BY <2>2, <3>2, <3>4, <3>5 DEF Life, Known
  <2> QED  BY <2>3, <2>4
<1> QED  BY <1>1, <1>2 DEF CloseStep

\* Messages end connections only by shutting them down.
MessageStep(m) ==
  MessageArrives(m) \/ LookupStep(m) \/ LookupTimesOut(m) \/ Reply(m) \/ GivenUp(m)

LEMMA MessageStill ==
  ASSUME Types, NEW m \in Messages, MessageStep(m)
  PROVE  Still /\ down \subseteq down'
<1>1. CASE MessageArrives(m) \/ Wake(m) \/ Check(m) \/ LookupTimesOut(m) \/ Reply(m)
  BY <1>1 DEF MessageArrives, Wake, Enable, Check, LookupTimesOut, Reply, Still,
              poolVars, endVars
<1>2. CASE Publish(m)
  BY <1>2 DEF Publish, Deposit, Still, poolVars, endVars
<1>3. CASE \E how \in {"answer", "closed", "late"} : EndRequest(m, how)
  BY <1>3 DEF EndRequest, Withdraw, Deposit, Still, poolVars, endVars
<1> QED  BY <1>1, <1>2, <1>3 DEF MessageStep, LookupStep, Settled, GivenUp

LEMMA OverflowStill ==
  ASSUME NEW j \in Inits, Overflow(j)
  PROVE  Still /\ down \subseteq down'
BY DEF Overflow, Deposit, Still, poolVars

----------------------------------------------------------------------------
(* Types, limits and the count of connects *)

\* Whatever a connection, its listener or a message does.
ConnectionStep(j) ==
  \/ Admit(j) \/ HandlerStep(j) \/ ConnectStep(j) \/ Connected(j)
  \/ EndStep(j) \/ Ended(j) \/ Delete(j) \/ Overflow(j)
CloserStep(l) == CloseBegins(l) \/ CloseStep(l)

LEMMA ConnectionTypes ==
  ASSUME IInv, NEW j \in Inits, ConnectionStep(j)
  PROVE  Types'
<1>0. Types
  BY DEF IInv
<1>1. CASE Admit(j)
  BY <1>0, <1>1 DEF Types, Admit, Handles, listenerVars, endVars, lookupVars, replyVars
<1>2. CASE Abandon(j)
  BY <1>0, <1>2 DEF Types, Abandon, Handles, DropLease, listenerVars, poolVars,
                    lookupVars, replyVars
<1>3. CASE Register(j)
  BY <1>0, <1>3 DEF Types, Register, Handles, DropLease, listenerVars, poolVars,
                    lookupVars, replyVars
<1>4. CASE Ask(j)
  BY <1>0, <1>4 DEF Types, Ask, Works, Fails, listenerVars, endVars, lookupVars, replyVars
<1>5. CASE \E x \in Ids : ClientConnects(j, x)
  <2>1. PICK x \in Ids : ClientConnects(j, x)
    BY <1>5
  <2> QED  BY <1>0, <2>1 DEF Types, ClientConnects, Works, listenerVars, poolVars, endVars,
                             lookupVars, replyVars
<1>6. CASE ConnectFails(j)
  BY <1>0, <1>6 DEF Types, ConnectFails, Fails, Notify, listenerVars, endVars, replyVars
<1>7. CASE Insert(j)
  BY <1>0, <1>7 DEF Types, Insert, Works, Fails, Notify, listenerVars, poolVars, endVars,
                    replyVars
<1>8. CASE Uncount(j)
  BY <1>0, <1>8 DEF Types, Uncount, Works, Notify, listenerVars, poolVars, endVars,
                    replyVars
<1>9. CASE HandOver(j)
  BY <1>0, <1>9 DEF Types, HandOver, Works, Handles, DropLease, listenerVars, poolVars,
                    lookupVars, replyVars
<1>10. CASE End(j)
  <2>1. endpoints' \in [Ids -> Inits \union {None}]
    BY <1>0, <1>10 DEF Types, End
  <2>2. entry' \in [Messages -> {None, "pending", "replied"}]
    BY <1>0, <1>10 DEF Types, End
  <2>3. ending' \in [Inits -> {None, "asked", "over"}] /\ told' \in [Inits -> Nat]
    BY <1>0, <1>10 DEF Types, End, Disconnect
  <2>4. cleanup' \in [Inits -> {None, "removing", "waiting", "done"}]
    BY <1>0, <1>10 DEF Types, End
  <2>5. UNCHANGED <<shutdown, closing, batch, handler, task, id, permits, slots, elsewhere,
                    sessions, down, rescue, lookup, woken, found, verdict>>
    BY <1>10 DEF End, listenerVars, poolVars, lookupVars
  <2> QED  BY <1>0, <2>1, <2>2, <2>3, <2>4, <2>5 DEF Types
<1>11. CASE Rescue(j)
  BY <1>0, <1>11 DEF Types, Rescue, Disconnect, listenerVars, poolVars, lookupVars,
                     replyVars
<1>12. CASE Finish(j)
  BY <1>0, <1>12 DEF Types, Finish, listenerVars, lookupVars, replyVars
<1>13. CASE Delete(j)
  BY <1>0, <1>13 DEF Types, Delete, DropLease, listenerVars, poolVars, lookupVars,
                     replyVars
<1>14. CASE Ended(j)
  BY <1>0, <1>14 DEF Types, Ended, listenerVars, poolVars, lookupVars, replyVars
<1>15. CASE Overflow(j)
  BY <1>0, <1>15 DEF Types, Overflow, Deposit, listenerVars, poolVars, lookupVars,
                     replyVars
<1> QED
  BY <1>1, <1>2, <1>3, <1>4, <1>5, <1>6, <1>7, <1>8, <1>9, <1>10, <1>11, <1>12, <1>13,
     <1>14, <1>15
     DEF ConnectionStep, HandlerStep, ConnectStep, Connected, EndStep, Retire

LEMMA CloserTypes ==
  ASSUME IInv, NEW l \in Listeners, CloserStep(l)
  PROVE  Types'
<1>0. Types
  BY DEF IInv
<1>1. CASE CloseBegins(l)
  BY <1>0, <1>1 DEF Types, CloseBegins, poolVars, endVars, lookupVars, replyVars
<1>2. CASE CloseDrains(l)
  BY <1>0, <1>2 DEF Types, CloseDrains, poolVars, lookupVars, replyVars
<1>3. CASE CloseEnds(l)
  BY <1>0, <1>3 DEF Types, CloseEnds, poolVars, endVars, lookupVars, replyVars
<1> QED  BY <1>1, <1>2, <1>3 DEF CloserStep, CloseStep

LEMMA MessageTypes ==
  ASSUME IInv, NEW m \in Messages, MessageStep(m)
  PROVE  Types'
<1>0. Types
  BY DEF IInv
<1>1. CASE MessageArrives(m) \/ Wake(m)
  BY <1>0, <1>1 DEF Types, MessageArrives, Wake, Looks, Enable, listenerVars, poolVars,
                    endVars, replyVars
<1>2. CASE Check(m)
  BY <1>0, <1>2, BridgeAssumption
     DEF BridgeAssumption, Types, Check, Looks, listenerVars, poolVars, endVars
<1>3. CASE LookupTimesOut(m)
  BY <1>0, <1>3 DEF Types, LookupTimesOut, Looks, listenerVars, poolVars, endVars
<1>4. CASE Publish(m)
  <2>1. found[m] \in Inits
    BY <1>4 DEF IInv, LookSound, Publish, Looks
  <2> QED  BY <1>0, <1>4, <2>1 DEF Types, Publish, Looks, Deposit, listenerVars, poolVars
<1>5. CASE Reply(m)
  BY <1>0, <1>5 DEF Types, Reply, listenerVars, poolVars, endVars, lookupVars
<1>6. ASSUME NEW how \in {"answer", "closed", "late"}, EndRequest(m, how)
      PROVE  Types'
  <2>1. found[m] \in Inits
    BY <1>6 DEF IInv, LookSound, EndRequest, Looks
  <2> QED  BY <1>0, <1>6, <2>1 DEF Types, EndRequest, Looks, Withdraw, Deposit,
                                   listenerVars, poolVars
<1> QED
  BY <1>1, <1>2, <1>3, <1>4, <1>5, <1>6
     DEF MessageStep, LookupStep, Settled, GivenUp

LEMMA OneMore ==
  ASSUME NEW S, IsFiniteSet(S), NEW x
  PROVE  Cardinality(S \union {x}) \in {Cardinality(S), Cardinality(S) + 1}
<1>1. CASE x \in S
  <2>1. S \union {x} = S
    BY <1>1
  <2> QED  BY <2>1
<1>2. CASE x \notin S
  BY <1>2, FS_AddElement
<1> QED  BY <1>1, <1>2

\* Permits are taken one at a time, with room in the listener, and slots too.
LEMMA ConnectionLimits ==
  ASSUME IInv, NEW j \in Inits, ConnectionStep(j)
  PROVE  Limits'
<1>0. Types /\ Limits /\ IsFiniteSet(Inits)
  BY BridgeAssumption DEF IInv, BridgeAssumption
<1>1. CASE Admit(j) /\ Admissible(j) /\ permits' = permits \union {j}
  <2>1. UNCHANGED <<slots, elsewhere>> /\ Room(j)
    BY <1>1 DEF Admit, Admissible
  <2>2. ASSUME NEW l \in Listeners
        PROVE  Cardinality(permits' \intersect Of(l)) <= MaxSessions
    <3>1. PICK P : P = permits \intersect Of(l)
      OBVIOUS
    <3>2. P \subseteq Inits
      BY <3>1 DEF Of
    <3>3. IsFiniteSet(P) /\ Cardinality(P) \in Nat
      BY <1>0, <3>2, FS_Subset, FS_CardinalityType
    <3>4. CASE On[j] = l
      <4>1. permits' \intersect Of(l) = P \union {j}
        BY <1>1, <3>1, <3>4 DEF Of
      <4>2. Cardinality(P) < MaxSessions
        BY <2>1, <3>1, <3>4 DEF Room
      <4>3. Cardinality(P \union {j}) \in {Cardinality(P), Cardinality(P) + 1}
        BY <3>3, OneMore
      <4>4. MaxSessions \in Nat
        BY BridgeAssumption DEF BridgeAssumption
      <4> QED  BY <3>3, <4>1, <4>2, <4>3, <4>4
    <3>5. CASE On[j] # l
      <4>1. permits' \intersect Of(l) = P
        BY <1>1, <3>1, <3>5 DEF Of
      <4> QED  BY <1>0, <3>1, <4>1 DEF Limits
    <3> QED  BY <3>4, <3>5
  <2> QED  BY <1>0, <2>1, <2>2 DEF Limits, Of
<1>2. CASE Ask(j) /\ SlotFree /\ slots' = slots \union {j} /\ UNCHANGED <<permits, elsewhere>>
  <2>1. PICK S : S = slots
    OBVIOUS
  <2>2. IsFiniteSet(S) /\ Cardinality(S) \in Nat
    BY <1>0, <2>1, FS_Subset, FS_CardinalityType DEF Types
  <2>3. Cardinality(S \union {j}) \in {Cardinality(S), Cardinality(S) + 1}
    BY <2>2, OneMore
  <2>4. Cardinality(S) + elsewhere < MaxConnections
    BY <1>2, <2>1 DEF SlotFree
  <2>5. elsewhere \in Nat /\ MaxConnections \in Nat
    BY <1>0, BridgeAssumption DEF BridgeAssumption, Types
  <2>6. Cardinality(slots') + elsewhere' <= MaxConnections
    BY <1>2, <2>1, <2>2, <2>3, <2>4, <2>5
  <2> QED  BY <1>0, <1>2, <2>6 DEF Limits, Of
<1>3. CASE permits' \subseteq permits /\ slots' \subseteq slots /\ elsewhere' = elsewhere
  BY <1>0, <1>3, LimitsKept
<1>4. \/ Admit(j) /\ Admissible(j) /\ permits' = permits \union {j}
      \/ Ask(j) /\ SlotFree /\ slots' = slots \union {j} /\ UNCHANGED <<permits, elsewhere>>
      \/ permits' \subseteq permits /\ slots' \subseteq slots /\ elsewhere' = elsewhere
  <2>1. CASE Admit(j)
    BY <2>1 DEF Admit
  <2>2. CASE Ask(j)
    BY <2>2 DEF Ask, Fails
  <2>3. CASE HandlerStep(j)
    BY <2>3 DEF HandlerStep, Abandon, Register, poolVars
  <2>4. CASE Insert(j) \/ Uncount(j) \/ HandOver(j) \/ Connected(j)
    BY <2>4 DEF Insert, Uncount, HandOver, Connected, ConnectFails, ClientConnects, Fails,
                poolVars
  <2>5. CASE EndStep(j) \/ Ended(j) \/ Delete(j) \/ Overflow(j)
    BY <2>5 DEF EndStep, End, Rescue, Finish, Retire, Delete, Ended, Overflow, poolVars
  <2> QED  BY <2>1, <2>2, <2>3, <2>4, <2>5 DEF ConnectionStep, ConnectStep
<1> QED  BY <1>1, <1>2, <1>3, <1>4

\* A connect is counted from the request to the client until its id is known.
LEMMA ConnectionCount ==
  ASSUME IInv, NEW j \in Inits, ConnectionStep(j)
  PROVE  CountExact'
<1>0. Types /\ CountExact
  BY DEF IInv
<1>1. CASE Ask(j) /\ Works(j, "admitted", "asked") /\ connecting' = connecting + 1
  <2>1. j \notin OnTheirWay
    BY <1>1 DEF OnTheirWay, Works
  <2>2. OnTheirWay' = OnTheirWay \union {j}
    BY <1>0, <1>1 DEF Types, OnTheirWay, Works
  <2> QED  BY <1>0, <1>1, <2>1, <2>2, CountUp
<1>2. CASE /\ j \in OnTheirWay /\ connecting' = connecting - 1
           /\ \E to \in {"over", "returned"} : task' = [task EXCEPT ![j] = to]
  <2>1. OnTheirWay' = OnTheirWay \ {j}
    BY <1>0, <1>2 DEF Types, OnTheirWay
  <2> QED  BY <1>0, <1>2, <2>1, CountDown
<1>3. CASE connecting' = connecting /\ OnTheirWay' = OnTheirWay
  BY <1>0, <1>3, CountKept
<1>4. CASE UNCHANGED <<connecting, task>>
  BY <1>0, <1>4 DEF CountExact, OnTheirWay
<1>5. CASE Admit(j)
  <2>1. CASE task' = [task EXCEPT ![j] = "admitted"]
    <3>1. task[j] = None
      BY <1>5 DEF IInv, Life, Connects, Admit, Handles
    <3>2. OnTheirWay' = OnTheirWay
      BY <1>0, <2>1, <3>1 DEF Types, OnTheirWay, None
    <3> QED  BY <1>3, <1>5, <3>2 DEF Admit
  <2> QED  BY <1>4, <1>5, <2>1 DEF Admit
<1>6. CASE Ask(j)
  <2>1. CASE Fails(j) /\ UNCHANGED connecting
    <3>1. OnTheirWay' = OnTheirWay
      BY <1>0, <1>6, <2>1 DEF Types, OnTheirWay, Ask, Fails
    <3> QED  BY <1>3, <2>1, <3>1
  <2> QED  BY <1>1, <1>6, <2>1 DEF Ask
<1>7. CASE \E x \in Ids : ClientConnects(j, x)
  <2>1. OnTheirWay' = OnTheirWay
    BY <1>0, <1>7 DEF Types, OnTheirWay, ClientConnects, Works
  <2> QED  BY <1>3, <1>7, <2>1 DEF ClientConnects
<1>8. CASE ConnectFails(j) \/ Uncount(j)
  BY <1>2, <1>8 DEF ConnectFails, Uncount, Fails, Works, OnTheirWay
<1>9. CASE Insert(j)
  <2>1. CASE Works(j, "answered", "made") /\ UNCHANGED connecting
    <3>1. OnTheirWay' = OnTheirWay
      BY <1>0, <2>1 DEF Types, OnTheirWay, Works
    <3> QED  BY <1>3, <2>1, <3>1
  <2> QED  BY <1>2, <1>9, <2>1 DEF Insert, Fails, OnTheirWay
<1>10. CASE HandOver(j)
  <2>1. OnTheirWay' = OnTheirWay
    BY <1>0, <1>10 DEF Types, OnTheirWay, HandOver, Works
  <2> QED  BY <1>3, <1>10, <2>1 DEF HandOver
<1>11. CASE HandlerStep(j) \/ EndStep(j) \/ Ended(j) \/ Delete(j) \/ Overflow(j)
  BY <1>4, <1>11 DEF HandlerStep, Abandon, Register, EndStep, End, Rescue, Finish, Retire,
                     Delete, Ended, Overflow
<1> QED
  BY <1>5, <1>6, <1>7, <1>8, <1>9, <1>10, <1>11 DEF ConnectionStep, ConnectStep, Connected

----------------------------------------------------------------------------
(* Listeners and messages *)

\* No permit is given by a listener that shuts down.
LEMMA ConnectionDoors ==
  ASSUME IInv, NEW j \in Inits, ConnectionStep(j)
  PROVE  \A l \in Listeners : CloseSound(l)'
<1>0. UNCHANGED <<shutdown, closing>>
  BY DEF ConnectionStep, Admit, HandlerStep, Abandon, Register, ConnectStep, Ask, Insert,
         Uncount, HandOver, Connected, ConnectFails, ClientConnects, EndStep, End, Rescue,
         Finish, Retire, Delete, Ended, Overflow, listenerVars
<1>1. CASE ~shutdown[On[j]] /\ permits' = permits \union {j}
  <2> SUFFICES ASSUME NEW l \in Listeners PROVE CloseSound(l)'
    OBVIOUS
  <2>1. CloseSound(l)
    BY DEF IInv
  <2>2. CASE On[j] = l
    BY <1>0, <1>1, <2>1, <2>2 DEF CloseSound
  <2>3. CASE On[j] # l
    <3>1. permits' \intersect Of(l) = permits \intersect Of(l)
      BY <1>1, <2>3 DEF Of
    <3> QED  BY <1>0, <2>1, <3>1 DEF CloseSound, Of
  <2> QED  BY <2>2, <2>3
<1>2. CASE permits' \subseteq permits
  BY <1>0, <1>2, DoorsKept DEF IInv
<1>3. \/ ~shutdown[On[j]] /\ permits' = permits \union {j}
      \/ permits' \subseteq permits
  BY DEF ConnectionStep, Admit, Admissible, HandlerStep, Abandon, Register, ConnectStep, Ask,
         Insert, Uncount, HandOver, Connected, ConnectFails, ClientConnects, Fails, EndStep,
         End, Rescue, Finish, Retire, Delete, Ended, Overflow, poolVars
<1> QED  BY <1>1, <1>2, <1>3

LEMMA CloserDoors ==
  ASSUME IInv, NEW j \in Listeners, CloserStep(j)
  PROVE  \A l \in Listeners : CloseSound(l)'
<1> SUFFICES ASSUME NEW l \in Listeners PROVE CloseSound(l)'
  OBVIOUS
<1>0. Types /\ CloseSound(l) /\ CloseSound(j) /\ permits' = permits
  BY DEF IInv, CloserStep, CloseBegins, CloseStep, CloseDrains, CloseEnds, poolVars
<1>1. CASE CloseBegins(j)
  BY <1>0, <1>1 DEF Types, CloseBegins, CloseSound, Of
<1>2. CASE CloseDrains(j)
  BY <1>0, <1>2 DEF Types, CloseDrains, CloseSound, Of
<1>3. CASE CloseEnds(j)
  BY <1>0, <1>3 DEF Types, CloseEnds, CloseSound, Of
<1> QED  BY <1>1, <1>2, <1>3 DEF CloserStep, CloseStep

\* An entry that is taken away belongs to a connection that is over.
LEMMA ConnectionLooks ==
  ASSUME IInv, NEW j \in Inits, ConnectionStep(j)
  PROVE  \A m \in Messages : LookSound(m)'
<1>0. Types /\ Life(j) /\ \A m \in Messages : LookSound(m)
  BY DEF IInv
<1>1. CASE End(j)
  <2> SUFFICES ASSUME NEW m \in Messages PROVE LookSound(m)'
    OBVIOUS
  <2>1. j \in down
    BY <1>0, <1>1 DEF Life, Holds, End, None
  <2>2. UNCHANGED <<lookup, found, down>>
        /\ entry'[m] = IF found[m] = j /\ entry[m] = "pending" THEN None ELSE entry[m]
    BY <1>1 DEF End, lookupVars
  <2> QED  BY <1>0, <2>1, <2>2 DEF LookSound
<1>2. CASE ~End(j)
  <2>1. UNCHANGED <<lookup, found, entry>> /\ down \subseteq down'
    BY <1>2 DEF ConnectionStep, Admit, HandlerStep, Abandon, Register, ConnectStep, Ask,
         Insert, Uncount, HandOver, Connected, ConnectFails, ClientConnects, EndStep,
         Rescue, Finish, Retire, Delete, Ended, Overflow, Deposit, DropLease, Notify,
         lookupVars, replyVars, endVars
  <2> QED  BY <1>0, <2>1, LooksKept
<1> QED  BY <1>1, <1>2

LEMMA MessageLooks ==
  ASSUME IInv, NEW n \in Messages, MessageStep(n)
  PROVE  \A m \in Messages : LookSound(m)'
<1> SUFFICES ASSUME NEW m \in Messages PROVE LookSound(m)'
  OBVIOUS
<1>0. Types /\ LookSound(m) /\ LookSound(n) /\ down \subseteq down'
  BY MessageStill DEF IInv
<1>1. CASE MessageArrives(n) \/ Wake(n) \/ LookupTimesOut(n)
  BY <1>0, <1>1 DEF Types, LookSound, MessageArrives, Wake, Enable, LookupTimesOut, Looks,
                    replyVars
<1>2. CASE Check(n)
  BY <1>0, <1>2, BridgeAssumption
     DEF BridgeAssumption, Types, LookSound, Check, Looks
<1>3. CASE Publish(n)
  <2>1. /\ lookup[n] = "publishing" /\ UNCHANGED found
        /\ \/ Looks(n, "publishing", "asking") /\ entry' = [entry EXCEPT ![n] = "pending"]
           \/ Looks(n, "publishing", "done") /\ UNCHANGED entry
    BY <1>3 DEF Publish, Looks
  <2>a. DOMAIN lookup = Messages /\ DOMAIN entry = Messages
    BY <1>0 DEF Types
  <2>2. CASE n = m
    <3>1. \/ lookup'[m] = "asking" /\ entry'[m] = "pending"
          \/ lookup'[m] = "done"
      BY <2>1, <2>2, <2>a DEF Looks
    <3> QED  BY <1>0, <2>1, <2>2, <3>1 DEF LookSound, None
  <2>3. CASE n # m
    <3>1. lookup'[m] = lookup[m] /\ entry'[m] = entry[m]
      BY <2>1, <2>3, <2>a DEF Looks
    <3> QED  BY <1>0, <2>1, <3>1 DEF LookSound
  <2> QED  BY <2>2, <2>3
<1>4. CASE Reply(n)
  BY <1>0, <1>4 DEF Types, LookSound, Reply, lookupVars, None
<1>5. CASE \E how \in {"answer", "closed", "late"} : EndRequest(n, how)
  BY <1>0, <1>5 DEF Types, LookSound, EndRequest, Looks
<1> QED  BY <1>1, <1>2, <1>3, <1>4, <1>5 DEF MessageStep, LookupStep, Settled, GivenUp

----------------------------------------------------------------------------
(* The theorems *)

LEMMA InitInv == Init => IInv
<1> SUFFICES ASSUME Init PROVE IInv
  OBVIOUS
<1>1. Types
  BY BridgeAssumption DEF Init, Types, BridgeAssumption
<1>2. Limits
  <2>1. Cardinality({}) = 0
    BY FS_EmptySet
  <2>2. \A l \in Listeners : permits \intersect Of(l) = {}
    BY DEF Init
  <2>3. MaxConnections \in Nat /\ MaxSessions \in Nat
    BY BridgeAssumption DEF BridgeAssumption
  <2>4. Cardinality(slots) + elsewhere <= MaxConnections
    BY <2>1, <2>3 DEF Init
  <2> QED  BY <2>1, <2>2, <2>3, <2>4 DEF Limits
<1>3. CountExact
  <2>1. OnTheirWay = {}
    BY DEF Init, OnTheirWay, None
  <2> QED  BY <2>1, FS_EmptySet DEF Init, CountExact
<1>4. ASSUME NEW i \in Inits PROVE Life(i)
  <2>1. Connects(i) /\ Holds(i) /\ Ends(i)
    BY <1>4 DEF Init, Connects, Holds, Ends, AtWork, None
  <2>2. ~Live(i)
    BY <1>4 DEF Init, Live, None
  <2>3. Known(i)
    BY <1>4, <2>2, BridgeAssumption DEF Init, Known, BridgeAssumption
  <2> QED  BY <2>1, <2>3 DEF Life
<1>5. ASSUME NEW l \in Listeners PROVE CloseSound(l)
  BY <1>5 DEF Init, CloseSound
<1>6. ASSUME NEW m \in Messages PROVE LookSound(m)
  BY <1>6 DEF Init, LookSound
<1> QED  BY <1>1, <1>2, <1>3, <1>4, <1>5, <1>6 DEF IInv

LEMMA StepInv == IInv /\ [Next]_vars => IInv'
<1> SUFFICES ASSUME IInv, [Next]_vars PROVE IInv'
  OBVIOUS
<1>0. /\ Types /\ Limits /\ CountExact /\ \A i \in Inits : Life(i)
      /\ \A l \in Listeners : CloseSound(l)
      /\ \A m \in Messages : LookSound(m)
  BY DEF IInv
<1>1. ASSUME NEW j \in Inits, ConnectionStep(j) PROVE IInv'
  <2>1. Overflow(j) => \A i \in Inits : Life(i)'
    BY <1>0, OverflowStill, StillLife
  <2>2. \A i \in Inits : Life(i)'
    BY <1>1, <2>1, AdmitLife, HandlerLife, ConnectLife, EndLife, DropLife DEF ConnectionStep
  <2> QED  BY <1>1, <2>2, ConnectionTypes, ConnectionLimits, ConnectionCount,
              ConnectionDoors, ConnectionLooks DEF IInv
<1>2. ASSUME NEW l \in Listeners, CloserStep(l) PROVE IInv'
  <2>1. UNCHANGED <<permits, slots, elsewhere, connecting, task, lookup, found, entry>>
        /\ down \subseteq down'
    BY <1>2 DEF CloserStep, CloseBegins, CloseStep, CloseDrains, CloseEnds, poolVars,
                lookupVars, replyVars
  <2>2. Limits'
    BY <1>0, <2>1, LimitsKept
  <2>3. CountExact'
    BY <1>0, <2>1 DEF CountExact, OnTheirWay
  <2>4. \A m \in Messages : LookSound(m)'
    BY <1>0, <2>1, LooksKept
  <2>5. \A i \in Inits : Life(i)'
    BY <1>2, CloseLife DEF CloserStep
  <2> QED  BY <1>2, <2>2, <2>3, <2>4, <2>5, CloserTypes, CloserDoors DEF IInv
<1>3. ASSUME NEW m \in Messages, MessageStep(m) PROVE IInv'
  <2>1. Still /\ down \subseteq down'
    BY <1>0, <1>3, MessageStill
  <2>2. UNCHANGED <<slots, elsewhere, connecting, shutdown, closing>>
    BY <1>3 DEF MessageStep, MessageArrives, LookupStep, Check, Wake, Enable, Publish,
                Settled, EndRequest, LookupTimesOut, Reply, GivenUp, listenerVars, poolVars
  <2>3. \A i \in Inits : Life(i)'
    BY <1>0, <2>1, StillLife
  <2>4. Limits'
    BY <1>0, <2>1, <2>2, LimitsKept DEF Still
  <2>5. CountExact'
    BY <1>0, <2>1, <2>2 DEF CountExact, OnTheirWay, Still
  <2>6. \A l \in Listeners : CloseSound(l)'
    BY <1>0, <2>1, <2>2, DoorsKept DEF Still
  <2> QED  BY <1>3, <2>3, <2>4, <2>5, <2>6, MessageTypes, MessageLooks DEF IInv
<1>4. CASE UNCHANGED vars
  <2>1. /\ Still /\ UNCHANGED <<slots, elsewhere, connecting, shutdown, closing, batch, down,
                                rescue, lookup, woken, found, entry, verdict>>
    BY <1>4 DEF vars, Still, listenerVars, poolVars, endVars, lookupVars, replyVars
  <2>2. Types'
    BY <1>0, <2>1 DEF Types, Still
  <2>3. Limits'
    BY <1>0, <2>1, LimitsKept DEF Still
  <2>4. CountExact'
    BY <1>0, <2>1 DEF CountExact, OnTheirWay, Still
  <2>5. \A i \in Inits : Life(i)'
    BY <1>0, <2>1, StillLife
  <2>6. \A l \in Listeners : CloseSound(l)'
    BY <1>0, <2>1, DoorsKept DEF Still
  <2>7. \A m \in Messages : LookSound(m)'
    BY <1>0, <2>1, LooksKept
  <2> QED  BY <2>2, <2>3, <2>4, <2>5, <2>6, <2>7 DEF IInv
<1> QED  BY <1>1, <1>2, <1>3, <1>4 DEF Next, ConnectionStep, CloserStep, MessageStep

\* Whatever connects, messages, deletions and closes overlap, every connection has its
\* lease in one place, its id in the table while it lives, and is counted while on its way.
THEOREM InvariantHolds == Spec => []IInv
<1>1. Init => IInv
  BY InitInv
<1>2. IInv /\ [Next]_vars => IInv'
  BY StepInv
<1> QED  BY <1>1, <1>2, PTL DEF Spec

\* The variables keep their types; McpManager never holds more than MaxConnections slots
\* and no listener more than MaxSessions permits.
THEOREM TypeCorrect == Spec => []TypeOK
BY InvariantHolds, Typed, PTL

\* Endpoint::disconnect asks the client once, however many ask for it, and the permit of a
\* connection whose cleanup has run is not back before the client was asked.
THEOREM AskedOnce == Spec => []DisconnectedOnce
BY InvariantHolds, EndsInOrder, PTL

\* When Listener::close has had all its permits back, nothing of the listener is left and
\* nothing can come.
THEOREM StaysClosed == Spec => []ClosedForGood
BY InvariantHolds, ClosedIsEmpty, PTL

\* McpManager::endpoint never says that there is no connection while one that the client
\* has given that id to is being entered or is there.
THEOREM KnownWhenAsked == Spec => ConnectedIsKnown
<1>1. ASSUME IInv, [Next]_vars
      PROVE  \A m \in Messages : verdict[m] # "unknown" /\ verdict'[m] = "unknown" =>
               ~\E i \in Inits :
                  /\ id[i] = To[m] /\ i \notin down
                  /\ \/ task[i] \in {"answered", "made", "returned"}
                     \/ handler[i] = "relaying" \/ i \in sessions
  <2> SUFFICES ASSUME NEW m \in Messages, verdict[m] # "unknown", verdict'[m] = "unknown",
                      NEW i \in Inits, id[i] = To[m],
                      \/ task[i] \in {"answered", "made", "returned"}
                      \/ handler[i] = "relaying" \/ i \in sessions
               PROVE  FALSE
    BY <1>1
  <2>0. Types /\ CountExact /\ Life(i)
    BY <1>1 DEF IInv
  <2>1. PICK n \in Messages : MessageStep(n)
    <3>1. ASSUME NEW j \in Inits, ConnectionStep(j) PROVE verdict' = verdict
      BY <3>1 DEF ConnectionStep, Admit, HandlerStep, Abandon, Register, ConnectStep, Ask,
           Insert, Uncount, HandOver, Connected, ConnectFails, ClientConnects, EndStep, End,
           Rescue, Finish, Retire, Delete, Ended, Overflow, replyVars
    <3>2. ASSUME NEW l \in Listeners, CloserStep(l) PROVE verdict' = verdict
      BY <3>2 DEF CloserStep, CloseBegins, CloseStep, CloseDrains, CloseEnds, replyVars
    <3>3. CASE UNCHANGED vars
      BY <3>3 DEF vars, replyVars
    <3> QED  BY <1>1, <3>1, <3>2, <3>3 DEF Next, ConnectionStep, CloserStep, MessageStep
  <2>2. Check(n) /\ n = m /\ Unknown(m)
    <3>1. CASE MessageArrives(n) \/ Wake(n) \/ Reply(n)
      BY <3>1 DEF MessageArrives, Wake, Enable, Reply, replyVars
    <3>2. ASSUME NEW v \in {"answer", "closed", "full", "late", "withdrawn"},
                 verdict' = [verdict EXCEPT ![n] = v]
          PROVE  FALSE
      BY <2>0, <3>2 DEF Types
    <3>3. CASE LookupTimesOut(n) \/ Publish(n)
      BY <3>2, <3>3 DEF LookupTimesOut, Publish
    <3>5. CASE \E how \in {"answer", "closed", "late"} : EndRequest(n, how)
      BY <3>2, <3>5 DEF EndRequest, Withdraw
    <3>4. CASE Check(n)
      BY <2>0, <3>4 DEF Types, Check
    <3> QED  BY <2>1, <3>1, <3>3, <3>4, <3>5 DEF MessageStep, LookupStep, Settled, GivenUp
  <2>3. endpoints[To[m]] = None /\ OnTheirWay = {}
    <3>1. PICK S : S = OnTheirWay
      OBVIOUS
    <3>2. IsFiniteSet(S)
      BY <3>1, FS_Subset, BridgeAssumption DEF BridgeAssumption, OnTheirWay
    <3>3. Cardinality(S) = 0
      BY <2>0, <2>2, <3>1 DEF Unknown, CountExact
    <3>4. S = {}
      BY <3>2, <3>3, FS_EmptySet
    <3> QED  BY <2>2, <3>1, <3>4 DEF Unknown
  <2>4. Live(i)
    BY <2>3 DEF OnTheirWay, Live
  <2>5. endpoints[To[m]] = i
    BY <2>0, <2>4 DEF Life, Known
  <2> QED  BY <2>3, <2>5, BridgeAssumption DEF BridgeAssumption
<1> QED  BY <1>1, InvariantHolds, PTL DEF Spec, ConnectedIsKnown

\* Pending::drop: a request that leaves without an answer is cancelled in Codex, or its
\* connection is over.
THEOREM WithdrawnWhenGivenUp == Spec => GivenUpIsWithdrawn
<1>1. ASSUME IInv, [Next]_vars
      PROVE  \A m \in Messages : lookup[m] = "asking" /\ lookup'[m] = "done" =>
               entry[m] = "replied" \/ verdict'[m] = "withdrawn" \/ found[m] \in down'
  <2> SUFFICES ASSUME NEW m \in Messages, lookup[m] = "asking", lookup'[m] = "done"
               PROVE  entry[m] = "replied" \/ verdict'[m] = "withdrawn" \/ found[m] \in down'
    OBVIOUS
  <2>0. Types /\ LookSound(m)
    BY <1>1 DEF IInv
  <2>1. PICK n \in Messages : MessageStep(n)
    <3>1. ASSUME NEW j \in Inits, ConnectionStep(j) PROVE lookup' = lookup
      BY <3>1 DEF ConnectionStep, Admit, HandlerStep, Abandon, Register, ConnectStep, Ask,
           Insert, Uncount, HandOver, Connected, ConnectFails, ClientConnects, EndStep, End,
           Rescue, Finish, Retire, Delete, Ended, Overflow, lookupVars
    <3>2. ASSUME NEW l \in Listeners, CloserStep(l) PROVE lookup' = lookup
      BY <3>2 DEF CloserStep, CloseBegins, CloseStep, CloseDrains, CloseEnds, lookupVars
    <3>3. CASE UNCHANGED vars
      BY <3>3 DEF vars, lookupVars
    <3> QED  BY <1>1, <3>1, <3>2, <3>3 DEF Next, ConnectionStep, CloserStep, MessageStep
  <2>2. n = m /\ \E how \in {"answer", "closed", "late"} : EndRequest(m, how)
    <3>1. ASSUME NEW how \in {"answer", "closed", "late"}, EndRequest(n, how)
          PROVE  n = m
      BY <2>0, <3>1 DEF Types, EndRequest, Looks
    <3>2. ASSUME NEW from \in {"idle", "checking", "waiting", "publishing"},
                 NEW to, Looks(n, from, to)
          PROVE  FALSE
      BY <2>0, <3>2 DEF Types, Looks
    <3>4. ~(MessageArrives(n) \/ Wake(n) \/ Check(n) \/ LookupTimesOut(n) \/ Publish(n))
      BY <3>2 DEF MessageArrives, Wake, Check, LookupTimesOut, Publish
    <3>3. CASE Reply(n)
      BY <3>3 DEF Reply, lookupVars
    <3> QED  BY <2>1, <3>1, <3>3, <3>4 DEF MessageStep, LookupStep, Settled, GivenUp
  <2>3. PICK how \in {"answer", "closed", "late"} : EndRequest(m, how)
    BY <2>2
  <2>4. CASE entry[m] # "pending"
    <3>1. entry[m] \in {None, "replied"} /\ UNCHANGED down
      BY <2>0, <2>3, <2>4 DEF Types, EndRequest, Withdraw
    <3> QED  BY <2>0, <3>1 DEF LookSound
  <2>5. CASE entry[m] = "pending"
    BY <2>0, <2>3, <2>5 DEF Types, EndRequest, Withdraw, Deposit
  <2> QED  BY <2>4, <2>5
<1> QED  BY <1>1, InvariantHolds, PTL DEF Spec, GivenUpIsWithdrawn

----------------------------------------------------------------------------
(* The runtime cache: the inductive invariant *)

USE CacheAssumption DEF Places, Away

\* Whoever looks at the cache or writes to it holds the lock.
HolderWorks == \A l \in Launchers : at[l] \in {"inspect", "extract", "rename"} => lock = l

\* A runtime that is being extracted is not there, so the rename meets nothing.
Missing == \A l \in Launchers : at[l] \in {"extract", "rename"} => VersionOf[l] \notin present

\* What is about to be renamed was verified.
Staged == \A l \in Launchers : at[l] = "rename" => staging[l] = Files

\* What nobody touched is whole.
Sound == \A v \in present \ damaged : content[v] = Files

\* A runtime checked before the launch is there, unless the user removed it.
Checked == \A l \in Launchers : at[l] = "check" => VersionOf[l] \in present \union damaged

CacheInv == CacheTypeOK /\ HolderWorks /\ Missing /\ Staged /\ Sound /\ Checked

LEMMA CacheInitial == ASSUME CacheInit PROVE CacheInv
  BY DEF CacheAssumption, CacheInit, CacheInv, CacheTypeOK, HolderWorks, Missing, Staged, Sound, Checked, Nobody

----------------------------------------------------------------------------
(* One lemma for each kind of step *)

\* A launch begins, waits, gives up waiting or is killed.
LEMMA WaitingKeeps ==
  ASSUME CacheInv, NEW l \in Launchers,
         Launch(l) \/ TryLock(l) \/ LockTimesOut(l) \/ DiskFails(l) \/ Kill(l)
  PROVE  CacheInv'
<1>1. CASE Launch(l)
  BY <1>1 DEF Launch, Goes, CacheAssumption, CacheInv, CacheTypeOK, HolderWorks, Missing, Staged, Sound,
     Checked
<1>2. CASE TryLock(l)
  BY <1>2 DEF TryLock, Goes, CacheAssumption, Nobody, CacheInv, CacheTypeOK, HolderWorks, Missing, Staged,
     Sound, Checked
<1>3. CASE LockTimesOut(l)
  BY <1>3 DEF LockTimesOut, Goes, CacheInv, CacheTypeOK, HolderWorks, Missing, Staged, Sound, Checked
<1>4. CASE DiskFails(l)
  BY <1>4 DEF DiskFails, Goes, Release, CacheInv, CacheTypeOK, HolderWorks, Missing, Staged, Sound, Checked
<1>5. CASE Kill(l)
  BY <1>5 DEF Kill, Goes, Release, CacheInv, CacheTypeOK, HolderWorks, Missing, Staged, Sound, Checked
<1>6. QED
  BY <1>1, <1>2, <1>3, <1>4, <1>5

\* The holder of the lock looks, extracts and verifies.
LEMMA HolderKeeps ==
  ASSUME CacheInv, NEW l \in Launchers,
         Inspect(l) \/ Verify(l) \/ \E f \in Files : Extract(l, f)
  PROVE  CacheInv'
<1>0. VersionOf[l] \in Versions
  BY DEF CacheAssumption
<1>1. CASE Inspect(l)
  BY <1>0, <1>1 DEF Inspect, Goes, Release, CacheInv, CacheTypeOK, HolderWorks, Missing, Staged, Sound,
     Checked
<1>2. CASE Verify(l)
  BY <1>2 DEF Verify, Verified, Goes, CacheInv, CacheTypeOK, HolderWorks, Missing, Staged, Sound, Checked
<1>3. CASE \E f \in Files : Extract(l, f)
  BY <1>3 DEF Extract, CacheInv, CacheTypeOK, HolderWorks, Missing, Staged, Sound, Checked
<1>4. QED
  BY <1>1, <1>2, <1>3

\* The rename: the runtime appears, and it is what was staged.
LEMMA RenameKeeps ==
  ASSUME CacheInv, NEW l \in Launchers, Rename(l)
  PROVE  /\ CacheInv'
         /\ VersionOf[l] \notin present /\ present' = present \union {VersionOf[l]}
         /\ content' = [content EXCEPT ![VersionOf[l]] = Files] /\ Goes(l, "check")
<1> DEFINE v == VersionOf[l]
<1>1. /\ v \in Versions /\ v \notin present /\ staging[l] = Files /\ lock = l
      /\ at[l] = "rename"
  BY DEF CacheAssumption, Rename, CacheInv, Missing, Staged, HolderWorks
<1>2. /\ present' = present \union {v} /\ content' = [content EXCEPT ![v] = Files]
      /\ damaged' = damaged \ {v} /\ Goes(l, "check") /\ lock' = Nobody
      /\ staging' = [staging EXCEPT ![l] = {}] /\ UNCHANGED <<starts, litter, faults>>
  BY <1>1 DEF Rename, Release
<1> HIDE DEF v
<1>3. CacheTypeOK'
  BY <1>1, <1>2 DEF CacheInv, CacheTypeOK, Goes
<1>4. HolderWorks' /\ Staged'
  BY <1>1, <1>2 DEF CacheInv, CacheTypeOK, Goes, HolderWorks, Staged
<1>5. Missing'
  BY <1>1, <1>2 DEF CacheInv, CacheTypeOK, Goes, HolderWorks, Missing
<1>6. Sound' /\ Checked'
  <2>1. Sound'
    BY <1>1, <1>2 DEF CacheInv, CacheTypeOK, Sound
  <2>2. Checked'
    BY <1>1, <1>2 DEF CacheInv, CacheTypeOK, Goes, Checked, v
  <2>3. QED
    BY <2>1, <2>2
<1>7. QED
  BY <1>1, <1>2, <1>3, <1>4, <1>5, <1>6 DEF CacheInv, v

\* The check before the launch, and the user.
LEMMA OthersKeep ==
  ASSUME CacheInv,
         \/ \E l \in Launchers : ValidatePackage(l)
         \/ \E v \in Versions : Clean(v) \/ \E f \in Files : Spoil(v, f)
  PROVE  CacheInv'
<1>1. CASE \E l \in Launchers : ValidatePackage(l)
  BY <1>1 DEF ValidatePackage, Goes, CacheInv, CacheTypeOK, HolderWorks, Missing, Staged, Sound, Checked
<1>2. CASE \E v \in Versions : Clean(v)
  BY <1>2 DEF Clean, CacheInv, CacheTypeOK, HolderWorks, Missing, Staged, Sound, Checked
<1>3. CASE \E v \in Versions : \E f \in Files : Spoil(v, f)
  BY <1>3 DEF Spoil, CacheInv, CacheTypeOK, HolderWorks, Missing, Staged, Sound, Checked
<1>4. QED
  BY <1>1, <1>2, <1>3

LEMMA CacheNextKeeps == ASSUME CacheInv, [CacheNext]_cacheVars PROVE CacheInv'
<1>1. CASE UNCHANGED cacheVars
  BY <1>1 DEF cacheVars, CacheInv, CacheTypeOK, HolderWorks, Missing, Staged, Sound, Checked
<1>2. QED
  BY <1>1, WaitingKeeps, HolderKeeps, RenameKeeps, OthersKeep DEF CacheNext, Installs

\* The invariant: one process at a time works in the cache, on a runtime that is
\* not there, and what is there is whole unless the user touched it.
THEOREM CacheInvariantHolds == CacheSpec => []CacheInv
<1>1. CacheInit => CacheInv
  BY CacheInitial
<1>2. CacheInv /\ [CacheNext]_cacheVars => CacheInv'
  BY CacheNextKeeps
<1>3. QED
  BY <1>1, <1>2, PTL DEF CacheSpec

\* Every variable keeps its type.
THEOREM CacheTypeCorrect == CacheSpec => []CacheTypeOK
<1>1. CacheInv => CacheTypeOK
  BY DEF CacheInv
<1>2. QED
  BY <1>1, CacheInvariantHolds, PTL

----------------------------------------------------------------------------
(* Launches fail for a reason *)

\* A launch fails at its deadline, by a disk error, or over a runtime that the
\* user touched (runtime_cache.rs 89-115, executable.rs 30-60): never because
\* another process installs, fails or dies at the same time.
THEOREM FailsHaveCause == CacheSpec => FailsForCause
<1> DEFINE Caused ==
      \A l \in Launchers :
        at[l] # "failed" /\ at'[l] = "failed" => l \in faults' \/ VersionOf[l] \in damaged
<1>1. ASSUME CacheInv, [CacheNext]_cacheVars PROVE [Caused]_cacheVars
  <2> SUFFICES ASSUME NEW l \in Launchers, at[l] # "failed", at'[l] = "failed"
               PROVE  l \in faults' \/ VersionOf[l] \in damaged
    OBVIOUS
  <2>0. /\ at \in [Launchers -> Places] /\ faults \subseteq Launchers
        /\ VersionOf[l] \in Versions /\ Required \subseteq Files
    BY <1>1 DEF CacheAssumption, CacheInv, CacheTypeOK
  <2>1. ASSUME NEW k \in Launchers, Launch(k) \/ TryLock(k) \/ Kill(k) \/ Verify(k) PROVE FALSE
    BY <2>0, <2>1 DEF Launch, TryLock, Kill, Verify, Goes
  <2>2. ASSUME NEW k \in Launchers, LockTimesOut(k) \/ DiskFails(k) PROVE l \in faults'
    BY <2>0, <2>2 DEF LockTimesOut, DiskFails, Goes
  <2>3. ASSUME NEW k \in Launchers, Inspect(k) PROVE VersionOf[l] \in damaged
    BY <1>1, <2>0, <2>3 DEF Inspect, Verified, Goes, CacheInv, Sound
  <2>4. ASSUME NEW k \in Launchers, Rename(k) PROVE FALSE
    BY <1>1, <2>0, <2>4, RenameKeeps DEF Goes
  <2>5. ASSUME NEW k \in Launchers, ValidatePackage(k) PROVE VersionOf[l] \in damaged
    BY <1>1, <2>0, <2>5 DEF ValidatePackage, Goes, CacheInv, Sound, Checked
  <2>6. ASSUME \/ \E k \in Launchers, f \in Files : Extract(k, f)
               \/ \E v \in Versions : Clean(v) \/ \E f \in Files : Spoil(v, f)
               \/ UNCHANGED cacheVars
        PROVE  FALSE
    BY <2>6 DEF Extract, Clean, Spoil, cacheVars
  <2>7. QED
    BY <1>1, <2>1, <2>2, <2>3, <2>4, <2>5, <2>6 DEF CacheNext, Installs
<1>2. QED
  BY <1>1, CacheInvariantHolds, PTL DEF CacheSpec, FailsForCause

----------------------------------------------------------------------------
(* The cache is a store *)

\* What the store shows of a version.
Shows(v) == IF v \notin present THEN "absent" ELSE IF content[v] = Files THEN "whole" ELSE "damaged"

\* A step that touches neither the runtimes nor who has seen one is a stutter.
LEMMA Stutters ==
  ASSUME UNCHANGED <<present, content>>,
         \A k \in Launchers : at'[k] = at[k] \/ {at[k], at'[k]} \cap {"check", "running"} = {}
  PROVE  UNCHANGED Store!vars
  BY DEF Store!vars

\* A process that stops no longer counts among those that have seen their runtime.
LEMMA StopEnds ==
  ASSUME CacheInv, UNCHANGED <<present, content>>, NEW l \in Launchers, NEW place \in {"failed", "killed"},
         Goes(l, place)
  PROVE  Store!End(l)
  BY DEF CacheInv, CacheTypeOK, Goes, Store!End

LEMMA CacheNextRefines == ASSUME CacheInv, [CacheNext]_cacheVars PROVE [Store!Next]_(Store!vars)
<1>0. /\ at \in [Launchers -> Places] /\ VersionOf \in [Launchers -> Versions]
      /\ content \in [Versions -> SUBSET Files]
  BY DEF CacheAssumption, CacheInv, CacheTypeOK
<1>1. ASSUME NEW l \in Launchers, Launch(l) \/ TryLock(l) \/ Verify(l) PROVE UNCHANGED Store!vars
  BY <1>0, <1>1, Stutters DEF Launch, TryLock, Verify, Goes
<1>2. ASSUME NEW l \in Launchers, LockTimesOut(l) \/ DiskFails(l) \/ Kill(l) PROVE Store!End(l)
  BY <1>2, StopEnds DEF LockTimesOut, DiskFails, Kill
<1>3. ASSUME NEW l \in Launchers, NEW f \in Files, Extract(l, f) PROVE UNCHANGED Store!vars
  BY <1>3, Stutters DEF Extract
<1>4. ASSUME NEW l \in Launchers, Inspect(l)
      PROVE  Store!See(l) \/ Store!End(l) \/ UNCHANGED Store!vars
  <2>1. UNCHANGED <<present, content>>
    BY <1>4 DEF Inspect
  <2>2. CASE VersionOf[l] \in present /\ Verified(content[VersionOf[l]]) /\ Goes(l, "check")
    <3>1. Shows(VersionOf[l]) = "whole"
      BY <2>2 DEF Shows, Verified
    <3>2. QED
      BY <1>0, <2>1, <2>2, <3>1, <1>4 DEF Store!See, Shows, Goes, Inspect
  <2>3. CASE Goes(l, "failed")
    BY <2>1, <2>3, StopEnds
  <2>4. CASE Goes(l, "extract")
    BY <1>0, <1>4, <2>1, <2>4, Stutters DEF Goes, Inspect
  <2>5. QED
    BY <1>4, <2>2, <2>3, <2>4 DEF Inspect
<1>5. ASSUME NEW l \in Launchers, Rename(l) PROVE Store!Install(l)
  <2>1. /\ VersionOf[l] \notin present /\ present' = present \union {VersionOf[l]}
        /\ content' = [content EXCEPT ![VersionOf[l]] = Files] /\ Goes(l, "check")
        /\ at[l] = "rename" /\ VersionOf[l] \in Versions
    BY <1>0, <1>5, RenameKeeps DEF Rename
  <2>2. QED
    BY <1>0, <2>1 DEF Store!Install, Goes
<1>6. ASSUME NEW l \in Launchers, ValidatePackage(l) PROVE Store!Start(l) \/ Store!End(l)
  <2>1. UNCHANGED <<present, content>> /\ at[l] = "check" /\ VersionOf[l] \in Versions
    BY <1>0, <1>6 DEF ValidatePackage
  <2>2. CASE VersionOf[l] \in present /\ Goes(l, "running")
    BY <1>0, <2>1, <2>2 DEF Store!Start, Goes
  <2>3. CASE Goes(l, "failed")
    BY <2>1, <2>3, StopEnds
  <2>4. QED
    BY <1>6, <2>2, <2>3 DEF ValidatePackage
<1>7. ASSUME NEW v \in Versions, NEW f \in Files, Spoil(v, f) PROVE Store!Damage(v)
  BY <1>0, <1>7 DEF Spoil, Store!Damage
<1>8. ASSUME NEW v \in Versions, Clean(v) PROVE Store!Clear(v)
  BY <1>0, <1>8 DEF Clean, Store!Clear
<1>9. CASE UNCHANGED cacheVars
  BY <1>9, Stutters DEF cacheVars
<1>10. QED
  BY <1>1, <1>2, <1>3, <1>4, <1>5, <1>6, <1>7, <1>8, <1>9 DEF CacheNext, Installs, Store!Next

\* For an adapter, the shared cache is a store in which a runtime appears whole
\* and in one step, and from which it starts only what it saw whole
\* (runtime_cache.rs 89-154), whoever is killed in the middle.
THEOREM StoreImplemented == CacheSpec => StoreSpec
<1>1. CacheInit => Store!Init
  BY DEF CacheInit, Store!Init
<1>2. CacheInv /\ [CacheNext]_cacheVars => [Store!Next]_(Store!vars)
  BY CacheNextRefines
<1>3. QED
  BY <1>1, <1>2, CacheInvariantHolds, PTL DEF CacheSpec, StoreSpec, Store!Spec
=============================================================================
