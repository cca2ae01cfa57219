------------------------ MODULE SessionLifecycleProofs ------------------------
(***************************************************************************)
(* Theorems of SessionLifecycle, for any sets of threads and requests and  *)
(* any limits.                                                             *)
(***************************************************************************)
EXTENDS SessionLifecycle, FiniteSetTheorems, TLAPS

USE LifecycleAssumption DEF Creators, AllKinds, Arcs

----------------------------------------------------------------------------
(* How a request's step moves its task and its locks *)

\* One task alone goes on, and it stays a task.
Only(r) == req' \in [Requests -> Request] /\ \A q \in Requests \ {r} : req'[q] = req[q]

\* Returning drops every guard.
LEMMA FinishStep ==
  ASSUME TypeOK, NEW r \in Requests, NEW result \in {"ok", "error"}, Finish(r, result)
  PROVE  /\ Only(r) /\ LockTypes' /\ LocksOwned'
         /\ req'[r].pc = "done" /\ req'[r].kind = "none"
         /\ creation' = IF creation = r THEN Nobody ELSE creation
<1>1. Returned(result) \in Request
  BY DEF Returned, Request, Steps, Turns
<1>2. req' \in [Requests -> Request] /\ req'[r] = Returned(result)
      /\ \A q \in Requests \ {r} : req'[q] = req[q]
  BY <1>1 DEF Finish, TypeOK
<1>3. LockTypes'
  BY DEF Finish, TypeOK, LockTypes, Released
<1>4. LocksOwned'
  BY <1>2 DEF Finish, TypeOK, LockTypes, LocksOwned, Released
<1>5. QED
  BY <1>2, <1>3, <1>4 DEF Only, Returned, Finish

\* Going on changes the step of the task and nothing else it knows.
LEMMA GotoStep ==
  ASSUME TypeOK, NEW r \in Requests, NEW step \in Steps, Goto(r, step)
  PROVE  /\ Only(r)
         /\ req'[r].pc = step /\ req'[r].kind = Kind(r) /\ req'[r].id = Id(r)
         /\ req'[r].mine = Mine(r) /\ req'[r].aim = Aim(r)
  BY DEF Goto, TypeOK, Request, Only, Kind, Id, Mine, Aim

LEMMA ProceedStep ==
  ASSUME TypeOK, NEW r \in Requests, NEW step \in Steps \ {"idle", "done"}, Proceed(r, step)
  PROVE  /\ Only(r) /\ LockTypes' /\ LocksOwned' /\ creation' = creation
         /\ req'[r].pc = step /\ req'[r].kind = Kind(r) /\ req'[r].id = Id(r)
         /\ req'[r].mine = Mine(r) /\ req'[r].aim = Aim(r)
<1>1. Goto(r, step) /\ UNCHANGED lockVars
  BY DEF Proceed
<1>2. LockTypes' /\ creation' = creation
  BY <1>1 DEF lockVars, TypeOK, LockTypes
<1>3. LocksOwned'
  BY <1>1, GotoStep DEF lockVars, TypeOK, LocksOwned, Only
<1>4. QED
  BY <1>1, <1>2, <1>3, GotoStep

\* Learning something replaces the task by a new one.
LEMMA BecomeStep ==
  ASSUME TypeOK, NEW r \in Requests, NEW step \in Steps \ {"idle", "done"},
         NEW k \in AllKinds \union {"none"}, NEW i \in Ids \union {Nobody},
         NEW a \in Arcs \union {Nobody}, NEW t \in Turns, NEW g \in SUBSET Turns,
         Become(r, Task(step, k, i, a, t, g))
  PROVE  /\ Only(r) /\ LockTypes' /\ LocksOwned' /\ creation' = creation
         /\ req'[r].pc = step /\ req'[r].kind = k /\ req'[r].id = i
         /\ req'[r].mine = a /\ req'[r].aim = t
<1> DEFINE task == Task(step, k, i, a, t, g)
<1>1. /\ task \in Request /\ task.pc = step /\ task.kind = k /\ task.id = i
      /\ task.mine = a /\ task.aim = t
  BY DEF Task, Request
<1>2. req' = [req EXCEPT ![r] = task] /\ UNCHANGED lockVars
  BY DEF Become
<1> HIDE DEF task
<1>3. Only(r) /\ req'[r] = task
  BY <1>1, <1>2 DEF TypeOK, Only
<1>4. LockTypes' /\ creation' = creation
  BY <1>2 DEF lockVars, TypeOK, LockTypes
<1>5. LocksOwned'
  BY <1>1, <1>2, <1>3 DEF lockVars, TypeOK, LocksOwned, Only
<1>6. QED
  BY <1>1, <1>3, <1>4, <1>5

\* A lock is left alone, released, or taken on one object.
Locked(lock, r) ==
  lock' = lock \/ lock' = Released(lock, r) \/ \E a \in Arcs : lock' = [lock EXCEPT ![a] = r]

LEMMA LockStep ==
  ASSUME TypeOK, NEW r \in Requests, NEW step \in Steps \ {"idle", "done"}, Goto(r, step),
         creation' \in {creation, r}, Locked(gate, r), Locked(admission, r), Locked(delivery, r)
  PROVE  Only(r) /\ LockTypes' /\ LocksOwned'
<1>1. Only(r) /\ req'[r].pc = step
  BY GotoStep
<1>2. LockTypes'
  BY DEF TypeOK, LockTypes, Locked, Released
<1>3. LocksOwned'
  <2>1. creation' # creation => creation' = r
    OBVIOUS
  <2>2. \A a \in Arcs : gate'[a] \in {gate[a], r, Nobody}
    BY DEF TypeOK, LockTypes, Locked, Released
  <2>3. \A a \in Arcs : admission'[a] \in {admission[a], r, Nobody}
    BY DEF TypeOK, LockTypes, Locked, Released
  <2>4. \A a \in Arcs : delivery'[a] \in {delivery[a], r, Nobody}
    BY DEF TypeOK, LockTypes, Locked, Released
  <2>5. QED
    BY <1>1, <2>1, <2>2, <2>3, <2>4 DEF LocksOwned, Only, TypeOK
<1>4. QED
  BY <1>1, <1>2, <1>3

\* What the steps of a request leave alone.
LEMMA FrameStep ==
  ASSUME NEW r \in Requests, RequestStep(r)
  PROVE
    /\ UNCHANGED historyVars
    /\ UNCHANGED table \/ Register(r) \/ Adopt(r) \/ Withdraw(r) \/ Replay(r) \/ Remove(r)
    /\ UNCHANGED sessionVars \/ Register(r) \/ Adopt(r) \/ Shut(r) \/ Reopen(r) \/ Record(r)
         \/ BeginClosing(r) \/ Shutdown(r)
    /\ UNCHANGED backendVars \/ Setup(r) \/ Detach(r) \/ Rejoin(r) \/ Leave(r) \/ Turn(r)
         \/ Unsubscribe(r) \/ Archive(r)
<1>1. CASE TakeCreation(r)
  BY <1>1 DEF TakeCreation, sessionVars, backendVars, historyVars
<1>2. CASE Limit(r)
  BY <1>2 DEF Limit, sessionVars, backendVars, historyVars
<1>3. CASE Setup(r)
  BY <1>3 DEF Setup, sessionVars, backendVars, historyVars
<1>4. CASE Register(r)
  BY <1>4 DEF Register, sessionVars, backendVars, historyVars
<1>5. CASE Read(r)
  BY <1>5 DEF Read, sessionVars, backendVars, historyVars
<1>6. CASE Adopt(r)
  BY <1>6 DEF Adopt, sessionVars, backendVars, historyVars
<1>7. CASE Synchronize(r)
  BY <1>7 DEF Synchronize, sessionVars, backendVars, historyVars
<1>8. CASE TakeDelivery(r)
  BY <1>8 DEF TakeDelivery, sessionVars, backendVars, historyVars
<1>9. CASE Vacant(r)
  BY <1>9 DEF Vacant, sessionVars, backendVars, historyVars
<1>10. CASE Detach(r)
  BY <1>10 DEF Detach, sessionVars, backendVars, historyVars
<1>11. CASE Shut(r)
  BY <1>11 DEF Shut, sessionVars, backendVars, historyVars
<1>12. CASE Rejoin(r)
  BY <1>12 DEF Rejoin, sessionVars, backendVars, historyVars
<1>13. CASE Withdraw(r)
  BY <1>13 DEF Withdraw, sessionVars, backendVars, historyVars
<1>14. CASE Reopen(r)
  BY <1>14 DEF Reopen, sessionVars, backendVars, historyVars
<1>15. CASE Replay(r)
  BY <1>15 DEF Replay, sessionVars, backendVars, historyVars
<1>16. CASE Leave(r)
  BY <1>16 DEF Leave, sessionVars, backendVars, historyVars
<1>17. CASE TakeAdmission(r)
  BY <1>17 DEF TakeAdmission, sessionVars, backendVars, historyVars
<1>18. CASE Turn(r)
  BY <1>18 DEF Turn, sessionVars, backendVars, historyVars
<1>19. CASE Record(r)
  BY <1>19 DEF Record, sessionVars, backendVars, historyVars
<1>20. CASE Which(r)
  BY <1>20 DEF Which, sessionVars, backendVars, historyVars
<1>21. CASE BeginClosing(r)
  BY <1>21 DEF BeginClosing, sessionVars, backendVars, historyVars
<1>22. CASE Interrupt(r)
  BY <1>22 DEF Interrupt, sessionVars, backendVars, historyVars
<1>23. CASE Interrupting(r)
  BY <1>23 DEF Interrupting, sessionVars, backendVars, historyVars
<1>24. CASE Settle(r)
  BY <1>24 DEF Settle, sessionVars, backendVars, historyVars
<1>25. CASE Clean(r)
  BY <1>25 DEF Clean, sessionVars, backendVars, historyVars
<1>26. CASE Unsubscribe(r)
  BY <1>26 DEF Unsubscribe, sessionVars, backendVars, historyVars
<1>27. CASE Archive(r)
  BY <1>27 DEF Archive, sessionVars, backendVars, historyVars
<1>28. CASE Shutdown(r)
  BY <1>28 DEF Shutdown, sessionVars, backendVars, historyVars
<1>29. CASE Remove(r)
  BY <1>29 DEF Remove, sessionVars, backendVars, historyVars
<1>30. CASE Lookup(r)
  BY <1>30 DEF Lookup, sessionVars, backendVars, historyVars
<1>31. CASE TakeGate(r)
  BY <1>31 DEF TakeGate, sessionVars, backendVars, historyVars
<1>32. CASE Check(r)
  BY <1>32 DEF Check, sessionVars, backendVars, historyVars
<1>33. QED
  BY <1>1, <1>2, <1>3, <1>4, <1>5, <1>6, <1>7, <1>8, <1>9, <1>10, <1>11, <1>12,
     <1>13, <1>14, <1>15, <1>16, <1>17, <1>18, <1>19, <1>20, <1>21, <1>22, <1>23, <1>24,
     <1>25, <1>26, <1>27, <1>28, <1>29, <1>30, <1>31, <1>32
  DEF RequestStep, CreationStep, ResumeStep, PromptStep, CloseStep

\* Only the look at the limit gives a creation room.
Entered(r) == FoundRoom(r)' => FoundRoom(r) \/ Room

\* Nobody takes the creation gate from another request.
GateSpared(r) == creation \notin {r, Nobody} => creation' = creation

\* A step of a request keeps what it knows, and the creation gate if it creates.
LEMMA KnowledgeStep ==
  ASSUME IInv, NEW r \in Requests, RequestStep(r)
  PROVE  /\ Only(r) /\ LockTypes' /\ LocksOwned'
         /\ Informed(r)' /\ CreationHeld(r)' /\ Entered(r) /\ GateSpared(r)
<1> USE DEF At, Fail, InUse, Rejoining, Kind, Id, Mine, Aim
<1>a. TypeOK /\ Informed(r) /\ CreationHeld(r)
  BY DEF IInv
<1>b. /\ req[r] \in Request
      /\ req[r].kind \in AllKinds \union {"none"} /\ req[r].id \in Ids \union {Nobody}
      /\ req[r].mine \in Arcs \union {Nobody} /\ Goal(r) \in SUBSET Turns /\ 0 \in Turns
  BY <1>a DEF TypeOK, Request, Goal, Turns
<1>1. CASE TakeCreation(r)
  <2>1. \E step \in Steps \ {"idle", "done"} : Goto(r, step)
    BY <1>a, <1>1 DEF TakeCreation, Steps, CreationHeld
  <2>2. /\ creation' \in {creation, r}
        /\ Locked(gate, r) /\ Locked(admission, r) /\ Locked(delivery, r)
    BY <1>a, <1>1 DEF TakeCreation, Locked, Informed
  <2>3. Only(r) /\ LockTypes' /\ LocksOwned'
    BY <1>a, <2>1, <2>2, LockStep
  <2>4. Informed(r)' /\ CreationHeld(r)' /\ Entered(r) /\ GateSpared(r)
    BY <1>a, <1>1, GotoStep DEF TakeCreation, Steps, Informed, CreationHeld, Entered, FoundRoom, GateSpared, backendVars
  <2>5. QED
    BY <2>3, <2>4
<1>2. CASE Limit(r)
  BY <1>a, <1>2, FinishStep, ProceedStep
  DEF Limit, AfterLimit, Attempt, Cancelled, Informed, CreationHeld, Entered, FoundRoom, GateSpared, Steps, backendVars
<1>3. CASE Setup(r)
  <2>1. Kind(r) \in Creators /\ creation = r
    BY <1>a, <1>b, <1>3 DEF Setup, CreationHeld
  <2>2. QED
    BY <1>a, <1>b, <1>3, <2>1, FinishStep, ProceedStep, BecomeStep, SMTT(90)
    DEF Setup, Steps, Informed, CreationHeld, Entered, FoundRoom, GateSpared, backendVars
<1>4. CASE Register(r)
  BY <1>a, <1>4, FinishStep, ProceedStep
  DEF Register, Attempt, Cancelled, Informed, CreationHeld, Entered, FoundRoom, GateSpared, Steps, backendVars
<1>5. CASE Read(r)
  BY <1>a, <1>5, FinishStep, ProceedStep
  DEF Read, Attempt, Cancelled, Informed, CreationHeld, Entered, FoundRoom, GateSpared, Steps, backendVars
<1>6. CASE Adopt(r)
  <2>1. /\ Kind(r) \in Creators /\ Id(r) \in Ids
        /\ table[Id(r)] # Nobody => table[Id(r)] \in Arcs
    BY <1>a, <1>b, <1>6 DEF Adopt, TypeOK, TableTypes, Informed, CreationHeld
  <2>2. QED
    BY <1>a, <1>b, <1>6, <2>1, FinishStep, ProceedStep, BecomeStep, SMTT(90)
    DEF Adopt, Find, Steps, Informed, CreationHeld, Entered, FoundRoom, GateSpared, backendVars
<1>7. CASE Synchronize(r)
  BY <1>a, <1>7, FinishStep, ProceedStep
  DEF Synchronize, Attempt, Cancelled, Informed, CreationHeld, Entered, FoundRoom, GateSpared, Steps, backendVars
<1>8. CASE TakeDelivery(r)
  <2>1. \E step \in Steps \ {"idle", "done"} : Goto(r, step)
    BY <1>a, <1>8 DEF TakeDelivery, Steps, CreationHeld
  <2>2. /\ creation' \in {creation, r}
        /\ Locked(gate, r) /\ Locked(admission, r) /\ Locked(delivery, r)
    BY <1>a, <1>8 DEF TakeDelivery, Locked, Informed
  <2>3. Only(r) /\ LockTypes' /\ LocksOwned'
    BY <1>a, <2>1, <2>2, LockStep
  <2>4. Informed(r)' /\ CreationHeld(r)' /\ Entered(r) /\ GateSpared(r)
    BY <1>a, <1>8, GotoStep DEF TakeDelivery, Steps, Informed, CreationHeld, Entered, FoundRoom, GateSpared, backendVars
  <2>5. QED
    BY <2>3, <2>4
<1>9. CASE Vacant(r)
  BY <1>a, <1>9, FinishStep, ProceedStep
  DEF Vacant, Attempt, Cancelled, Informed, CreationHeld, Entered, FoundRoom, GateSpared, Steps, backendVars
<1>10. CASE Detach(r)
  BY <1>a, <1>10, FinishStep, ProceedStep
  DEF Detach, Attempt, Cancelled, Informed, CreationHeld, Entered, FoundRoom, GateSpared, Steps, backendVars
<1>11. CASE Shut(r)
  BY <1>a, <1>11, FinishStep, ProceedStep
  DEF Shut, Attempt, Cancelled, Informed, CreationHeld, Entered, FoundRoom, GateSpared, Steps, backendVars
<1>12. CASE Rejoin(r)
  BY <1>a, <1>12, FinishStep, ProceedStep
  DEF Rejoin, Attempt, Cancelled, Informed, CreationHeld, Entered, FoundRoom, GateSpared, Steps, backendVars
<1>13. CASE Withdraw(r)
  BY <1>a, <1>13, FinishStep, ProceedStep
  DEF Withdraw, Attempt, Cancelled, Informed, CreationHeld, Entered, FoundRoom, GateSpared, Steps, backendVars
<1>14. CASE Reopen(r)
  <2>1. \E step \in Steps \ {"idle", "done"} : Goto(r, step)
    BY <1>a, <1>14 DEF Reopen, Steps, CreationHeld
  <2>2. /\ creation' \in {creation, r}
        /\ Locked(gate, r) /\ Locked(admission, r) /\ Locked(delivery, r)
    BY <1>a, <1>14 DEF Reopen, Locked, Informed
  <2>3. Only(r) /\ LockTypes' /\ LocksOwned'
    BY <1>a, <2>1, <2>2, LockStep
  <2>4. Informed(r)' /\ CreationHeld(r)' /\ Entered(r) /\ GateSpared(r)
    BY <1>a, <1>14, GotoStep DEF Reopen, Steps, Informed, CreationHeld, Entered, FoundRoom, GateSpared, backendVars
  <2>5. QED
    BY <2>3, <2>4
<1>15. CASE Replay(r)
  BY <1>a, <1>15, FinishStep, ProceedStep
  DEF Replay, Attempt, Cancelled, Informed, CreationHeld, Entered, FoundRoom, GateSpared, Steps, backendVars
<1>16. CASE Leave(r)
  BY <1>a, <1>16, FinishStep, ProceedStep
  DEF Leave, Attempt, Cancelled, Informed, CreationHeld, Entered, FoundRoom, GateSpared, Steps, backendVars
<1>17. CASE TakeAdmission(r)
  <2>1. CASE Fail(r)
    BY <1>a, <2>1, FinishStep DEF Informed, CreationHeld, Entered, FoundRoom, GateSpared
  <2>2. CASE /\ admission' = [admission EXCEPT ![Mine(r)] = r] /\ Goto(r, "check")
             /\ UNCHANGED <<creation, gate, delivery>>
    <3>1. Locked(gate, r) /\ Locked(admission, r) /\ Locked(delivery, r)
      BY <1>a, <1>17, <2>2 DEF TakeAdmission, Locked, Informed
    <3>2. Only(r) /\ LockTypes' /\ LocksOwned'
      BY <1>a, <2>2, <3>1, LockStep DEF Steps
    <3>3. QED
      BY <1>a, <1>17, <2>2, <3>2, GotoStep DEF TakeAdmission, Steps, Informed, CreationHeld, Entered, FoundRoom, GateSpared,
         backendVars
  <2>3. QED
    BY <1>17, <2>1, <2>2 DEF TakeAdmission
<1>18. CASE Turn(r)
  <2>1. Id(r) \in Ids /\ Kind(r) \in AllKinds \union {"none"} /\ (Started(Id(r)) => turns + 1 \in Turns)
    BY <1>a, <1>b, <1>18 DEF Turn, Started, TypeOK, BackendTypes, Turns, Informed
  <2>2. QED
    BY <1>a, <1>b, <1>18, <2>1, FinishStep, ProceedStep, BecomeStep, SMTT(90)
    DEF Turn, Note, Steps, Informed, CreationHeld, Entered, FoundRoom, GateSpared, backendVars
<1>19. CASE Record(r)
  BY <1>a, <1>19, FinishStep, ProceedStep
  DEF Record, Attempt, Cancelled, Informed, CreationHeld, Entered, FoundRoom, GateSpared, Steps, backendVars
<1>20. CASE Which(r)
  BY <1>a, <1>20, FinishStep, ProceedStep
  DEF Which, Attempt, Cancelled, Informed, CreationHeld, Entered, FoundRoom, GateSpared, Steps, backendVars
<1>21. CASE BeginClosing(r)
  BY <1>a, <1>21, FinishStep, ProceedStep
  DEF BeginClosing, Attempt, Cancelled, Informed, CreationHeld, Entered, FoundRoom, GateSpared, Steps, backendVars
<1>22. CASE Interrupt(r)
  <2>1. Id(r) \in Ids /\ active[Mine(r)] \in Turns
    BY <1>a, <1>b, <1>22 DEF Interrupt, TypeOK, ObjectTypes, Informed
  <2>2. QED
    BY <1>a, <1>b, <1>22, <2>1, FinishStep, ProceedStep, BecomeStep, SMTT(90)
    DEF Interrupt, Cancelled, Note, Steps, Informed, CreationHeld, Entered, FoundRoom, GateSpared, backendVars
<1>23. CASE Interrupting(r)
  BY <1>a, <1>23, FinishStep, ProceedStep
  DEF Interrupting, Informed, CreationHeld, Entered, FoundRoom, GateSpared, Steps, backendVars
<1>24. CASE Settle(r)
  BY <1>a, <1>24, FinishStep, ProceedStep
  DEF Settle, Attempt, Cancelled, Informed, CreationHeld, Entered, FoundRoom, GateSpared, Steps, backendVars
<1>25. CASE Clean(r)
  BY <1>a, <1>25, FinishStep, ProceedStep
  DEF Clean, Attempt, Cancelled, Informed, CreationHeld, Entered, FoundRoom, GateSpared, Steps, backendVars
<1>26. CASE Unsubscribe(r)
  BY <1>a, <1>26, FinishStep, ProceedStep
  DEF Unsubscribe, Attempt, Cancelled, Informed, CreationHeld, Entered, FoundRoom, GateSpared, Steps, backendVars
<1>27. CASE Archive(r)
  BY <1>a, <1>27, FinishStep, ProceedStep
  DEF Archive, Attempt, Cancelled, Informed, CreationHeld, Entered, FoundRoom, GateSpared, Steps, backendVars
<1>28. CASE Shutdown(r)
  BY <1>a, <1>28, FinishStep, ProceedStep
  DEF Shutdown, Attempt, Cancelled, Informed, CreationHeld, Entered, FoundRoom, GateSpared, Steps, backendVars
<1>29. CASE Remove(r)
  <2>1. CASE Finish(r, "ok") \/ Fail(r)
    BY <1>a, <2>1, FinishStep DEF Informed, CreationHeld, Entered, FoundRoom, GateSpared
  <2>2. CASE /\ Kind(r) = "delete" /\ Goto(r, "archive") /\ gate' = Released(gate, r)
             /\ UNCHANGED <<creation, admission, delivery>>
    <3>1. Only(r) /\ LockTypes' /\ LocksOwned'
      BY <1>a, <2>2, LockStep DEF Steps, Locked
    <3>2. QED
      BY <1>a, <1>29, <2>2, <3>1, GotoStep DEF Remove, Steps, Informed, CreationHeld, Entered, FoundRoom, GateSpared, backendVars
  <2>3. QED
    BY <1>29, <2>1, <2>2 DEF Remove
<1>30. CASE Lookup(r)
  <2>1. CASE Fail(r)
    BY <1>a, <2>1, FinishStep DEF Informed, CreationHeld, Entered, FoundRoom, GateSpared
  <2>2. CASE table[Id(r)] # Nobody /\ ~Fail(r)
    <3>1. /\ Id(r) \in Ids /\ Kind(r) \in AllKinds \union {"none"}
          /\ table[Id(r)] \in Arcs /\ seen[table[Id(r)]] \in SUBSET Turns
      BY <1>a, <1>b, <1>30, <2>2 DEF Lookup, TypeOK, TableTypes, HistoryTypes, Informed
    <3>2. PICK step \in {"admission", "gate"} :
            Become(r, Task(step, Kind(r), Id(r), table[Id(r)], 0, seen[table[Id(r)]]))
            /\ (step = "gate" <=> Kind(r) # "cancel")
      BY <1>30, <2>2, Zenon DEF Lookup
    <3>3. /\ Only(r) /\ LockTypes' /\ LocksOwned' /\ creation' = creation
          /\ req'[r].pc = step /\ req'[r].kind = Kind(r) /\ req'[r].id = Id(r)
          /\ req'[r].mine = table[Id(r)]
      BY <1>a, <1>b, <3>1, <3>2, BecomeStep, SMTT(60) DEF Steps
    <3>4. QED
      BY <1>a, <1>30, <3>1, <3>2, <3>3 DEF Lookup, Informed, CreationHeld, Entered, FoundRoom, GateSpared, backendVars
  <2>3. QED
    BY <1>30, <2>1, <2>2 DEF Lookup
<1>31. CASE TakeGate(r)
  <2>1. \E step \in Steps \ {"idle", "done"} : Goto(r, step)
    BY <1>a, <1>31 DEF TakeGate, Steps, CreationHeld
  <2>2. /\ creation' \in {creation, r}
        /\ Locked(gate, r) /\ Locked(admission, r) /\ Locked(delivery, r)
    BY <1>a, <1>31 DEF TakeGate, Locked, Informed
  <2>3. Only(r) /\ LockTypes' /\ LocksOwned'
    BY <1>a, <2>1, <2>2, LockStep
  <2>4. PICK step \in {"sync", "admission", "check", "closing"} :
          /\ Goto(r, step)
          /\ step = "sync" <=> Kind(r) = "resume"
          /\ step = "admission" => Kind(r) = "prompt"
    BY <1>31 DEF TakeGate
  <2>5. /\ req'[r].pc = step /\ req'[r].kind = Kind(r) /\ req'[r].id = Id(r)
        /\ req'[r].mine = Mine(r) /\ creation' = creation /\ threads' = threads
    BY <1>a, <1>31, <2>4, GotoStep DEF TakeGate, Steps, backendVars
  <2>6. Informed(r)' /\ CreationHeld(r)'
    BY <1>a, <1>31, <2>4, <2>5 DEF TakeGate, Informed, CreationHeld, Creators
  <2>7. Entered(r) /\ GateSpared(r)
    BY <1>31, <2>4, <2>5 DEF TakeGate, Entered, FoundRoom, GateSpared
  <2>8. QED
    BY <2>3, <2>6, <2>7
<1>32. CASE Check(r)
  <2>1. Id(r) \in Ids /\ active[Mine(r)] \in Turns
    BY <1>a, <1>b, <1>32 DEF Check, TypeOK, ObjectTypes, Informed
  <2>2. CASE Fail(r)
    BY <1>a, <2>2, FinishStep DEF Informed, CreationHeld, Entered, FoundRoom, GateSpared
  <2>3. CASE Kind(r) = "prompt" /\ Note(r, "turn", active[Mine(r)])
    <3>1. /\ Only(r) /\ LockTypes' /\ LocksOwned' /\ creation' = creation
          /\ req'[r].pc = "turn" /\ req'[r].kind = Kind(r) /\ req'[r].id = Id(r)
          /\ req'[r].mine = Mine(r)
      BY <1>a, <1>b, <2>1, <2>3, BecomeStep DEF Note, Steps
    <3>2. QED
      BY <1>a, <1>32, <2>1, <2>3, <3>1
      DEF Check, Informed, CreationHeld, Entered, FoundRoom, GateSpared, backendVars
  <2>4. CASE ~Fail(r) /\ Kind(r) # "prompt"
    BY <1>a, <1>32, <2>4, ProceedStep
    DEF Check, Steps, Informed, CreationHeld, Entered, FoundRoom, GateSpared, backendVars
  <2>5. QED
    BY <1>32, <2>2, <2>3, <2>4 DEF Check
<1>33. QED
  BY <1>1, <1>2, <1>3, <1>4, <1>5, <1>6, <1>7, <1>8, <1>9, <1>10, <1>11, <1>12,
     <1>13, <1>14, <1>15, <1>16, <1>17, <1>18, <1>19, <1>20, <1>21, <1>22, <1>23, <1>24,
     <1>25, <1>26, <1>27, <1>28, <1>29, <1>30, <1>31, <1>32
  DEF RequestStep, CreationStep, ResumeStep, PromptStep, CloseStep

\* Turns start and end within the types.
LEMMA StartedTyped ==
  ASSUME BackendTypes, NEW i \in Ids, Started(i)
  PROVE  BackendTypes'
<1>1. turns + 1 \in Turns /\ [what |-> "started", of |-> turns + 1] \in News
  BY DEF BackendTypes, Started, Turns, News
<1>2. QED
  BY <1>1 DEF BackendTypes, Started

LEMMA EndedTyped ==
  ASSUME BackendTypes, NEW i \in Ids, Ended(i)
  PROVE  BackendTypes'
<1>1. 0 \in Turns /\ [what |-> "completed", of |-> turn[i]] \in News
  BY DEF BackendTypes, Turns, News
<1>2. QED
  BY <1>1 DEF BackendTypes, Ended

----------------------------------------------------------------------------
(* Type correctness *)

LEMMA Initial == Init => IInv
<1> SUFFICES ASSUME Init PROVE IInv
  OBVIOUS
<1>1. TableTypes /\ ObjectTypes /\ HistoryTypes
  BY DEF Init, TableTypes, ObjectTypes, HistoryTypes, Turns
<1>2. LockTypes /\ LocksOwned
  BY DEF Init, LockTypes, LocksOwned
<1>3. BackendTypes
  BY DEF Init, BackendTypes, Turns
<1>4. Idle \in Request /\ Idle.pc = "idle" /\ Idle.kind = "none"
  BY DEF Idle, Task, Request, Steps, Turns
<1>5. req \in [Requests -> Request]
      /\ \A r \in Requests : req[r].pc = "idle" /\ req[r].kind = "none"
  BY <1>4 DEF Init
<1>6. \A r \in Requests : Informed(r) /\ CreationHeld(r) /\ RoomKept(r)
  BY <1>5 DEF Informed, CreationHeld, RoomKept, FoundRoom, InUse, Rejoining, At, Kind
<1>7. SessionLimit
  <2>1. OpenIds = Opened
    BY DEF Init, OpenIds
  <2>2. QED
    BY <2>1 DEF SessionLimit
<1>8. QED
  BY <1>1, <1>2, <1>3, <1>5, <1>6, <1>7 DEF IInv, TypeOK

\* A request's step keeps the types of everything it does not keep itself.
LEMMA TypesStep ==
  ASSUME IInv, NEW r \in Requests, RequestStep(r)
  PROVE  TypeOK' /\ threads \subseteq threads'
<1> USE DEF Fail, Id, Mine, At
<1>a. TypeOK /\ Informed(r) /\ r \in Arcs
  BY DEF IInv
<1>1. req' \in [Requests -> Request] /\ LockTypes' /\ LocksOwned'
  BY KnowledgeStep DEF Only
<1>2. HistoryTypes'
  BY <1>a, FrameStep DEF TypeOK, HistoryTypes, historyVars
<1>3. TableTypes'
  <2>1. CASE UNCHANGED table
    BY <1>a, <2>1 DEF TypeOK, TableTypes
  <2>2. CASE Register(r) \/ Adopt(r)
    BY <1>a, <2>2 DEF Register, Adopt, Fresh, TypeOK, TableTypes
  <2>3. CASE Withdraw(r) \/ Replay(r) \/ Remove(r)
    BY <1>a, <2>3 DEF Withdraw, Replay, Remove, TypeOK, TableTypes
  <2>4. QED
    BY <2>1, <2>2, <2>3, FrameStep
<1>4. ObjectTypes'
  <2>1. CASE UNCHANGED sessionVars
    BY <1>a, <2>1 DEF TypeOK, ObjectTypes, sessionVars
  <2>2. CASE Register(r) \/ Adopt(r)
    BY <1>a, <2>2 DEF Register, Adopt, Fresh, TypeOK, ObjectTypes, sessionVars
  <2>3. CASE Shut(r) \/ Reopen(r) \/ BeginClosing(r) \/ Shutdown(r)
    BY <1>a, <2>3 DEF Shut, Reopen, BeginClosing, Shutdown, TypeOK, ObjectTypes
  <2>4. CASE Record(r)
    <3>1. req[r].aim \in Turns
      BY <1>a DEF TypeOK, Request
    <3>2. QED
      BY <1>a, <2>4, <3>1 DEF Record, TypeOK, ObjectTypes, Aim
  <2>5. QED
    BY <2>1, <2>2, <2>3, <2>4, FrameStep
<1>5. BackendTypes' /\ threads \subseteq threads'
  <2>1. CASE UNCHANGED backendVars
    BY <1>a, <2>1 DEF TypeOK, BackendTypes, backendVars
  <2>2. CASE Setup(r)
    BY <1>a, <2>2 DEF Setup, TypeOK, BackendTypes
  <2>3. CASE Detach(r) \/ Leave(r) \/ Unsubscribe(r)
    BY <1>a, <2>3 DEF Detach, Leave, Unsubscribe, Attempt, TypeOK, BackendTypes
  <2>4. CASE Rejoin(r)
    BY <1>a, <2>4 DEF Rejoin, Attempt, TypeOK, BackendTypes, Informed, Rejoining
  <2>5. CASE Archive(r)
    BY <1>a, <2>5 DEF Archive, TypeOK, BackendTypes, Turns, backendVars
  <2>6. CASE Turn(r)
    <3>1. Id(r) \in Ids /\ BackendTypes
      BY <1>a, <2>6 DEF Turn, Informed, TypeOK
    <3>2. (Started(Id(r)) \/ UNCHANGED backendVars) /\ (Started(Id(r)) => threads' = threads)
      BY <2>6 DEF Turn, Started
    <3>3. QED
      BY <3>1, <3>2, StartedTyped DEF BackendTypes, backendVars
  <2>7. QED
    BY <2>1, <2>2, <2>3, <2>4, <2>5, <2>6, FrameStep
<1>6. QED
  BY <1>1, <1>2, <1>3, <1>4, <1>5 DEF TypeOK

----------------------------------------------------------------------------
(* The session limit *)

\* Every set of open sessions is finite, and grows by one id at most.
LEMMA OpenFinite == IsFiniteSet(OpenIds) /\ Cardinality(OpenIds) \in Nat
<1>1. OpenIds \subseteq Ids
  BY DEF OpenIds
<1>2. QED
  BY <1>1, FS_Subset, FS_CardinalityType

LEMMA OpenShrinks ==
  ASSUME \A i \in Ids : table[i] = Nobody => table'[i] = Nobody
  PROVE  Cardinality(OpenIds') <= Cardinality(OpenIds) /\ Cardinality(OpenIds') \in Nat
<1>1. OpenIds' \subseteq OpenIds
  BY DEF OpenIds
<1>2. QED
  BY <1>1, OpenFinite, FS_Subset, FS_CardinalityType

LEMMA OpenGrows ==
  ASSUME NEW i \in Ids, Room, \A j \in Ids \ {i} : table'[j] = table[j]
  PROVE  SessionLimit'
<1>1. OpenIds' \subseteq OpenIds \union {i}
  BY DEF OpenIds
<1>2. /\ IsFiniteSet(OpenIds \union {i})
      /\ Cardinality(OpenIds \union {i}) \in {Cardinality(OpenIds), Cardinality(OpenIds) + 1}
  BY OpenFinite, FS_AddElement
<1>3. Cardinality(OpenIds') <= Cardinality(OpenIds \union {i})
      /\ Cardinality(OpenIds') \in Nat /\ Cardinality(OpenIds \union {i}) \in Nat
  BY <1>1, <1>2, FS_Subset, FS_CardinalityType
<1>4. QED
  BY <1>2, <1>3, OpenFinite DEF Room, SessionLimit

\* The table changes for one id: it grows only in Register and Adopt, which
\* have room, and whoever else has found room would hold the creation gate too.
LEMMA LimitStep ==
  ASSUME IInv, NEW r \in Requests, RequestStep(r)
  PROVE  SessionLimit' /\ \A q \in Requests : RoomKept(q)'
<1> USE DEF Fail, Id, Mine, At
<1>a. TypeOK /\ Informed(r) /\ CreationHeld(r) /\ RoomKept(r) /\ SessionLimit
  BY DEF IInv
<1>b. Only(r)
  BY KnowledgeStep
<1>1. CASE Register(r) \/ (Adopt(r) /\ table' # table)
  <2>1. Id(r) \in Ids /\ Room
    BY <1>a, <1>1 DEF Register, Adopt, Informed, RoomKept, FoundRoom
  <2>2. \A j \in Ids \ {Id(r)} : table'[j] = table[j]
    BY <1>a, <1>1 DEF Register, Adopt, Fresh, TypeOK, TableTypes
  <2>3. SessionLimit'
    BY <2>1, <2>2, OpenGrows
  <2>4. req[r].pc \in {"register", "adopt"} /\ creation = r
    BY <1>a, <1>1 DEF Register, Adopt, CreationHeld
  <2>5. ~FoundRoom(r)'
    <3>1. CASE Register(r)
      BY <1>a, <3>1, FinishStep DEF Register, FoundRoom
    <3>2. CASE Adopt(r) /\ table' # table
      <4>1. Kind(r) = "resume"
        BY <1>a, <3>2 DEF Adopt, CreationHeld
      <4>2. Find(r, "gate", r)
        BY <3>2 DEF Adopt
      <4>3. req'[r].pc = "gate" /\ req'[r].kind = "resume"
        BY <1>a, <4>1, <4>2 DEF Find, Become, Task, TypeOK, Kind
      <4>4. QED
        BY <4>3 DEF FoundRoom, Kind
    <3>3. QED
      BY <1>1, <3>1, <3>2
  <2>6. \A q \in Requests \ {r} : ~FoundRoom(q)
    BY <2>4 DEF IInv, CreationHeld, FoundRoom, Kind
  <2>7. QED
    BY <1>b, <2>3, <2>5, <2>6 DEF RoomKept, FoundRoom, Only, Kind
<1>2. CASE \A i \in Ids : table[i] = Nobody => table'[i] = Nobody
  <2>1. Cardinality(OpenIds') <= Cardinality(OpenIds) /\ Cardinality(OpenIds') \in Nat
    BY <1>2, OpenShrinks
  <2>2. SessionLimit' /\ (Room => Room')
    BY <1>a, <2>1, OpenFinite DEF SessionLimit, Room
  <2>3. \A q \in Requests \ {r} : RoomKept(q)'
    BY <1>b, <2>2 DEF IInv, RoomKept, FoundRoom, Only, Kind
  <2>4. RoomKept(r)'
    BY <1>a, <2>2, KnowledgeStep DEF Entered, RoomKept
  <2>5. QED
    BY <2>2, <2>3, <2>4
<1>3. QED
  <2>1. \/ UNCHANGED table \/ Register(r) \/ (Adopt(r) /\ table' # table)
        \/ Withdraw(r) \/ Replay(r) \/ Remove(r)
    BY FrameStep
  <2>2. QED
    BY <1>1, <1>2, <1>a, <2>1 DEF Withdraw, Replay, Remove, TypeOK, TableTypes

----------------------------------------------------------------------------
(* The steps of the invariant *)

LEMMA RequestKeeps ==
  ASSUME IInv, NEW r \in Requests, RequestStep(r)
  PROVE  IInv'
<1>1. TypeOK' /\ threads \subseteq threads'
  BY TypesStep
<1>2. SessionLimit' /\ \A q \in Requests : RoomKept(q)'
  BY LimitStep
<1>3. /\ Only(r) /\ GateSpared(r) /\ Informed(r)' /\ CreationHeld(r)'
  BY KnowledgeStep
<1>4. \A q \in Requests \ {r} : Informed(q)' /\ CreationHeld(q)'
  BY <1>1, <1>3 DEF IInv, Only, GateSpared, Informed, CreationHeld, At, Kind, Id, Mine
<1>5. QED
  BY <1>1, <1>2, <1>3, <1>4 DEF IInv

\* A request begins: it knows its session unless it creates one.
LEMMA BeginKeeps ==
  ASSUME IInv, NEW r \in Requests, NEW k \in AllKinds, NEW i \in Ids \union {Nobody}, Begin(r, k, i)
  PROVE  IInv'
<1> USE DEF At, Kind, Id, Mine
<1>a. TypeOK /\ 0 \in Turns /\ Nobody \in Arcs \union {Nobody} /\ {} \in SUBSET Turns
  BY DEF IInv, Turns
<1>b. /\ UNCHANGED <<table, sessionVars, backendVars, historyVars>>
      /\ k = "new" <=> i = Nobody
  BY DEF Begin
<1>1. PICK step \in {"creation", "which", "lookup"} :
        /\ Become(r, Task(step, k, i, Nobody, 0, {}))
        /\ step = "creation" <=> k \in Creators
  BY DEF Begin
<1>2. /\ Only(r) /\ LockTypes' /\ LocksOwned' /\ creation' = creation
      /\ req'[r].pc = step /\ req'[r].kind = k /\ req'[r].id = i
  BY <1>a, <1>1, BecomeStep DEF Steps
<1>3. TypeOK'
  BY <1>a, <1>b, <1>2 DEF TypeOK, TableTypes, ObjectTypes, BackendTypes, HistoryTypes, Only,
     sessionVars, backendVars, historyVars
<1>4. SessionLimit' /\ (Room => Room')
  BY <1>b DEF IInv, SessionLimit, Room, OpenIds
<1>5. Informed(r)' /\ CreationHeld(r)' /\ RoomKept(r)'
  BY <1>b, <1>1, <1>2 DEF Informed, CreationHeld, RoomKept, FoundRoom, InUse, Rejoining
<1>6. \A q \in Requests \ {r} : Informed(q)' /\ CreationHeld(q)' /\ RoomKept(q)'
  BY <1>b, <1>2, <1>4 DEF IInv, Informed, CreationHeld, RoomKept, FoundRoom, Only, backendVars
<1>7. QED
  BY <1>3, <1>4, <1>5, <1>6 DEF IInv

\* Turns and their notifications touch neither requests, locks nor the table.
LEMMA TurnKeeps ==
  ASSUME IInv, NEW i \in Ids, TurnEnds(i) \/ TurnStarts(i) \/ Deliver(i) \/ Drop(i)
  PROVE  IInv'
<1>a. TypeOK
  BY DEF IInv
<1>1. UNCHANGED <<table, lockVars, req, threads>>
  BY DEF TurnEnds, TurnStarts, Deliver, Drop, Started, Ended
<1>2. BackendTypes'
  <2>1. CASE TurnEnds(i) \/ TurnStarts(i)
    BY <1>a, <2>1, StartedTyped, EndedTyped DEF TurnEnds, TurnStarts, TypeOK
  <2>2. CASE Deliver(i) \/ Drop(i)
    <3>1. news[i] # <<>> /\ news' = [news EXCEPT ![i] = Tail(@)]
          /\ UNCHANGED <<threads, subscribed, turn, turns>>
      BY <2>2 DEF Deliver, Drop
    <3>2. Tail(news[i]) \in Seq(News)
      BY <1>a, <3>1 DEF TypeOK, BackendTypes
    <3>3. QED
      BY <1>a, <3>1, <3>2 DEF TypeOK, BackendTypes
  <2>3. QED
    BY <2>1, <2>2
<1>3. ObjectTypes' /\ HistoryTypes'
  <2>1. CASE TurnEnds(i) \/ TurnStarts(i) \/ Drop(i)
    BY <1>a, <2>1 DEF TurnEnds, TurnStarts, Drop, TypeOK, ObjectTypes, HistoryTypes, sessionVars,
       historyVars
  <2>2. CASE Deliver(i)
    <3>0. Head(news[i]) \in News
      BY <1>a, <2>2 DEF Deliver, TypeOK, BackendTypes
    <3>1. Head(news[i]).of \in Turns /\ 0 \in Turns
      BY <3>0 DEF News, Turns
    <3>2. UNCHANGED <<open, closing>>
      BY <2>2 DEF Deliver
    <3>3. active' \in [Arcs -> Turns] /\ last' \in [Arcs -> Turns]
      <4>1. active \in [Arcs -> Turns] /\ last \in [Arcs -> Turns]
        BY <1>a DEF TypeOK, ObjectTypes
      <4>2. PICK a, n : a = table[i] /\ n = Head(news[i]).of
        OBVIOUS
      <4>3. /\ \/ active' = [active EXCEPT ![a] = n]
               \/ active' = [active EXCEPT ![a] = IF @ = n THEN 0 ELSE @]
            /\ last' = last \/ last' = [last EXCEPT ![a] = n]
        BY <2>2, <4>2 DEF Deliver
      <4>4. QED
        BY <3>1, <4>1, <4>2, <4>3
    <3> DEFINE a == table[i]  n == Head(news[i]).of
    <3>4. seen' \in [Arcs -> SUBSET Turns] /\ over' \in [Arcs -> SUBSET Turns]
      <4>1. seen' \in {seen, [seen EXCEPT ![a] = seen[a] \union {n}]}
            /\ over' \in {over, [over EXCEPT ![a] = over[a] \union {n}]}
        BY <2>2 DEF Deliver
      <4>2. seen \in [Arcs -> SUBSET Turns] /\ over \in [Arcs -> SUBSET Turns] /\ n \in Turns
        BY <1>a, <3>1 DEF TypeOK, HistoryTypes
      <4> HIDE DEF a, n
      <4>3. QED
        BY <4>1, <4>2
    <3>5. QED
      BY <1>a, <3>2, <3>3, <3>4 DEF TypeOK, ObjectTypes, HistoryTypes
  <2>3. QED
    BY <2>1, <2>2
<1>4. QED
  BY <1>1, <1>2, <1>3 DEF IInv, TypeOK, TableTypes, LockTypes, LocksOwned, lockVars, SessionLimit,
     OpenIds, Informed, CreationHeld, RoomKept, FoundRoom, Room, At, Kind, Id, Mine

LEMMA StutterKeeps == IInv /\ UNCHANGED vars => IInv'
  BY DEF IInv, vars, TypeOK, TableTypes, ObjectTypes, LockTypes, LocksOwned, BackendTypes,
     HistoryTypes, sessionVars, lockVars, backendVars, historyVars, SessionLimit, OpenIds,
     Informed, CreationHeld, RoomKept, FoundRoom, Room, At, Kind, Id, Mine

----------------------------------------------------------------------------
(* The theorems *)

\* The inductive invariant: types, what every request knows at its step, the
\* creation gate, and the room behind it.
THEOREM InvariantHolds == Spec => []IInv
<1>1. Init => IInv
  BY Initial
<1>2. IInv /\ [Next]_vars => IInv'
  BY RequestKeeps, BeginKeeps, TurnKeeps, StutterKeeps DEF Next
<1>3. QED
  BY <1>1, <1>2, PTL DEF Spec

\* Every variable keeps its type, and no request that has returned holds a lock
\* (the guards of the handlers in lifecycle.rs and controls.rs).
THEOREM TypeCorrect == Spec => []TypeOK
<1>1. IInv => TypeOK
  BY DEF IInv
<1>2. QED
  BY <1>1, InvariantHolds, PTL

\* Never more sessions than max_sessions (lifecycle.rs 21, 158-161, extension_requests.rs 45-50), for any
\* number of requests and threads.
THEOREM LimitHolds == Spec => []SessionLimit
<1>1. IInv => SessionLimit
  BY DEF IInv
<1>2. QED
  BY <1>1, InvariantHolds, PTL

----------------------------------------------------------------------------
(* The second inductive invariant: objects, turns and what a request knows of *)
(* both, for what a teardown, a resume and a cancellation promise              *)

Rejoins == {"sync", "delivery", "vacant", "detach", "shut", "rejoin", "withdraw", "reopen",
            "resync", "redeliver", "replay", "leave"}
Closes  == {"closing", "clean", "unsubscribe", "shutdown", "remove"}

\* A request has its session to itself: what follows Session.gate.
Holds(r, step) ==
  \/ step \in Rejoins \union Closes \union {"turn", "record"}
  \/ step \in {"admission", "check", "interrupt", "interrupting", "settle"} /\ Kind(r) # "cancel"
  \/ step = "archive" /\ Kind(r) = "archive"
Holding(r) == Holds(r, req[r].pc)

\* What the kind and the step of a request say of each other, and of its locks.
Kept(r) ==
  /\ req[r].pc \in {"idle", "done"} <=> Kind(r) = "none"
  /\ Kind(r) # "none" => req[r].answer = "none"
  /\ req[r].pc \in {"creation", "read", "adopt"} => Mine(r) = Nobody
  /\ req[r].pc \in Rejoins => Kind(r) = "resume"
  /\ req[r].pc \in {"turn", "record"} => Kind(r) = "prompt"
  /\ req[r].pc \in Closes => Kind(r) # "cancel"
  /\ At(r, "which") => Kind(r) = "delete"
  /\ At(r, "register") => Id(r) \in threads
  /\ Holding(r) => Mine(r) \in Arcs /\ gate[Mine(r)] = r
  /\ req[r].pc \in {"interrupt", "interrupting", "settle"} => Mine(r) \in Arcs
  /\ req[r].pc \in {"vacant", "detach"} => delivery[Mine(r)] = r

\* Whose session an object is: what the table says and what requests have looked up.
Uses(r) == Mine(r) # Nobody /\ ~At(r, "register")
Knows(a, i) == table[i] = a \/ \E r \in Requests : Uses(r) /\ Mine(r) = a /\ Id(r) = i

\* A request that has not made its object, if it ever does.
NotMade(r) ==
  \/ req[r].pc \in {"idle", "creation", "limit", "setup", "register", "read", "adopt"}
  \/ Kind(r) \in {"fork", "review"}

OneId  == \A a \in Arcs, i, j \in Ids : Knows(a, i) /\ Knows(a, j) => i = j
Backed == \A a \in Arcs, i \in Ids : Knows(a, i) => i \in threads
Coming == \A r \in Requests : NotMade(r) => seen[r] = {} /\ \A i \in Ids : ~Knows(r, i)

\* A resume finds its session there or gone, never another one of the same id.
Sole(r) ==
  req[r].pc \in Rejoining \ {"adopt"} \/ (At(r, "gate") /\ Kind(r) = "resume") =>
    table[Id(r)] \in {Mine(r), Nobody}

\* A session whose close is past the backend is detached there.
Detached(r) ==
  req[r].pc \in {"shutdown", "remove"} /\ table[Id(r)] = Mine(r) => Id(r) \notin subscribed

\* Turns are numbered as they start, and the start of a running one is the last news.
Numbered ==
  /\ \A i \in Ids : turn[i] <= turns /\ \A k \in DOMAIN news[i] : news[i][k].of <= turns
  /\ \A a \in Arcs : \A t \in seen[a] : t <= turns
LastNews(line, t) ==
  /\ line[Len(line)].what = "started" /\ line[Len(line)].of = t
  /\ \A k \in 1 .. Len(line) - 1 : line[k].of # t
Ordered == \A i \in Ids : turn[i] # 0 /\ news[i] # <<>> => LastNews(news[i], turn[i])

\* A running turn that was announced is the session's, with no news after it.
Shown ==
  \A a \in Arcs, i \in Ids :
    Knows(a, i) => \A t \in seen[a] \ {0} : turn[i] = t => active[a] = t /\ news[i] = <<>>

\* What a request remembers was announced; of that, what may still run is the turn
\* it aims at, then nothing.
Announced(r) == Goal(r) \subseteq (IF Mine(r) = Nobody THEN {} ELSE seen[Mine(r)])
Aimed(r) ==
  req[r].pc \in {"interrupting", "settle"} =>
    \A t \in Goal(r) \ {0} : turn[Id(r)] = t => Aim(r) = t
Stopped(r) ==
  req[r].pc \in Closes \ {"closing"} \/ (At(r, "archive") /\ Kind(r) = "archive") =>
    turn[Id(r)] \notin Goal(r) \ {0}
Vacated(r) == At(r, "detach") => active[Mine(r)] = 0

SInv ==
  /\ \A r \in Requests :
       Kept(r) /\ Sole(r) /\ Detached(r) /\ Announced(r) /\ Aimed(r) /\ Stopped(r) /\ Vacated(r)
  /\ OneId /\ Backed /\ Coming /\ Numbered /\ Ordered /\ Shown

\* What a step does to its own task, and to the locks.
Spares(r) ==
  \A q \in Requests \ {r}, a \in Arcs :
    (gate[a] = q => gate'[a] = q) /\ (delivery[a] = q => delivery'[a] = q)

\* A step that a request may go on to with the locks it has.
Fits(r, step) ==
  /\ Kind(r) # "none" /\ step \notin {"idle", "done", "register", "which", "creation", "read"}
  /\ step = "adopt" => Mine(r) = Nobody
  /\ step \in Rejoins => Kind(r) = "resume"
  /\ step \in {"turn", "record"} => Kind(r) = "prompt"
  /\ step \in Closes => Kind(r) # "cancel"
  /\ Holds(r, step) => Mine(r) \in Arcs /\ gate[Mine(r)] = r
  /\ step \in {"interrupt", "interrupting", "settle"} => Mine(r) \in Arcs
  /\ step \in {"vacant", "detach"} => delivery[Mine(r)] = r

Moved(r, step) ==
  /\ req'[r].pc = step /\ req'[r].kind = Kind(r) /\ req'[r].id = Id(r) /\ req'[r].mine = Mine(r)
  /\ req'[r].goal = Goal(r) /\ req'[r].answer = req[r].answer

LEMMA FinishTask ==
  ASSUME TypeOK, NEW r \in Requests, NEW result, Finish(r, result)
  PROVE  /\ req'[r].pc = "done" /\ req'[r].kind = "none" /\ req'[r].mine = Nobody
         /\ req'[r].goal = {} /\ req'[r].answer = result
         /\ Kept(r)' /\ Spares(r)
<1>1. req'[r] = Returned(result)
  BY DEF Finish, TypeOK
<1>2. /\ req'[r].pc = "done" /\ req'[r].kind = "none" /\ req'[r].mine = Nobody
      /\ req'[r].goal = {} /\ req'[r].answer = result
  BY <1>1 DEF Returned
<1>3. Spares(r)
  BY DEF Finish, Released, TypeOK, LockTypes, Spares
<1>4. Kept(r)'
  BY <1>2 DEF Kept, Holding, Holds, Rejoins, Closes, Kind, Mine, At
<1>5. QED
  BY <1>2, <1>3, <1>4

LEMMA GotoTask ==
  ASSUME TypeOK, NEW r \in Requests, NEW step, Goto(r, step)
  PROVE  Moved(r, step) /\ req'[r].aim = Aim(r)
  BY DEF Goto, TypeOK, Request, Moved, Kind, Id, Mine, Aim, Goal

LEMMA BecomeTask ==
  ASSUME TypeOK, NEW r \in Requests, NEW step, NEW k, NEW i, NEW a, NEW t, NEW g,
         Become(r, Task(step, k, i, a, t, g))
  PROVE  /\ req'[r].pc = step /\ req'[r].kind = k /\ req'[r].id = i /\ req'[r].mine = a
         /\ req'[r].aim = t /\ req'[r].goal = g /\ req'[r].answer = "none"
         /\ UNCHANGED lockVars
<1>1. req'[r] = Task(step, k, i, a, t, g)
  BY DEF Become, TypeOK
<1>2. QED
  BY <1>1 DEF Become, Task

LEMMA ProceedKept ==
  ASSUME TypeOK, NEW r \in Requests, NEW step, Kept(r), Fits(r, step), Proceed(r, step)
  PROVE  Kept(r)' /\ Spares(r)
<1>1. Moved(r, step) /\ UNCHANGED lockVars
  BY GotoTask DEF Proceed
<1>2. Spares(r)
  BY <1>1 DEF lockVars, Spares
<1>3. Kept(r)'
  BY <1>1 DEF Kept, Fits, Moved, Holding, Holds, Kind, Mine, At, lockVars
<1>4. QED
  BY <1>2, <1>3
\* A step keeps what its task's kind, step and locks say of each other.
LEMMA KeptStep ==
  ASSUME IInv, NEW r \in Requests, Kept(r), RequestStep(r)
  PROVE  Kept(r)' /\ Spares(r)
<1> USE DEF At, Fail, Kind, Id, Mine, Aim, Goal
<1>a. TypeOK /\ Informed(r) /\ CreationHeld(r) /\ Kept(r)
  BY DEF IInv
<1>b. \A locks \in {gate, admission, delivery} : locks \in [Arcs -> Requests \union {Nobody}]
  BY <1>a DEF TypeOK, LockTypes
<1>1. CASE TakeCreation(r)
  BY <1>a, <1>b, <1>1, FinishTask, GotoTask, BecomeTask, SMTT(60)
  DEF TakeCreation, Proceed, Find, Note, Cancelled, Attempt, AfterLimit, lockVars, Moved, Kept, Holding, Holds, Rejoins, Closes, Spares,
      Released, InUse, Informed
<1>2. CASE Limit(r)
  BY <1>a, <1>2, FinishTask, ProceedKept
  DEF Limit, Cancelled, Attempt, AfterLimit, Kept, Fits, Holding, Holds, Rejoins, Closes
<1>3. CASE Setup(r)
  BY <1>a, <1>b, <1>3, FinishTask, GotoTask, BecomeTask, SMTT(60)
  DEF Setup, Proceed, Find, Note, Cancelled, Attempt, AfterLimit, lockVars, Moved, Kept, Holding, Holds, Rejoins, Closes, Spares,
      Released, InUse, Informed
<1>4. CASE Register(r)
  BY <1>a, <1>b, <1>4, FinishTask, GotoTask, BecomeTask, SMTT(60)
  DEF Register, Proceed, Find, Note, Cancelled, Attempt, AfterLimit, lockVars, Moved, Kept, Holding, Holds, Rejoins, Closes, Spares,
      Released, InUse, Informed
<1>5. CASE Read(r)
  BY <1>a, <1>5, FinishTask, ProceedKept
  DEF Read, Cancelled, Attempt, AfterLimit, Kept, Fits, Holding, Holds, Rejoins, Closes
<1>6. CASE Adopt(r)
  BY <1>a, <1>b, <1>6, FinishTask, GotoTask, BecomeTask, SMTT(60)
  DEF Adopt, Proceed, Find, Note, Cancelled, Attempt, AfterLimit, lockVars, Moved, Kept, Holding, Holds, Rejoins, Closes, Spares,
      Released, InUse, Informed
<1>7. CASE Synchronize(r)
  BY <1>a, <1>7, FinishTask, ProceedKept
  DEF Synchronize, Cancelled, Attempt, AfterLimit, Kept, Fits, Holding, Holds, Rejoins, Closes
<1>8. CASE TakeDelivery(r)
  BY <1>a, <1>b, <1>8, FinishTask, GotoTask, BecomeTask, SMTT(60)
  DEF TakeDelivery, Proceed, Find, Note, Cancelled, Attempt, AfterLimit, lockVars, Moved, Kept, Holding, Holds, Rejoins, Closes, Spares,
      Released, InUse, Informed
<1>9. CASE Vacant(r)
  BY <1>a, <1>9, FinishTask, ProceedKept
  DEF Vacant, Cancelled, Attempt, AfterLimit, Kept, Fits, Holding, Holds, Rejoins, Closes
<1>10. CASE Detach(r)
  BY <1>a, <1>10, FinishTask, ProceedKept
  DEF Detach, Cancelled, Attempt, AfterLimit, Kept, Fits, Holding, Holds, Rejoins, Closes
<1>11. CASE Shut(r)
  BY <1>a, <1>11, FinishTask, ProceedKept
  DEF Shut, Cancelled, Attempt, AfterLimit, Kept, Fits, Holding, Holds, Rejoins, Closes
<1>12. CASE Rejoin(r)
  BY <1>a, <1>12, FinishTask, ProceedKept
  DEF Rejoin, Cancelled, Attempt, AfterLimit, Kept, Fits, Holding, Holds, Rejoins, Closes
<1>13. CASE Withdraw(r)
  BY <1>a, <1>13, FinishTask DEF Withdraw
<1>14. CASE Reopen(r)
  BY <1>a, <1>b, <1>14, FinishTask, GotoTask, BecomeTask, SMTT(60)
  DEF Reopen, Proceed, Find, Note, Cancelled, Attempt, AfterLimit, lockVars, Moved, Kept, Holding, Holds, Rejoins, Closes, Spares,
      Released, InUse, Informed
<1>15. CASE Replay(r)
  BY <1>a, <1>15, FinishTask, ProceedKept
  DEF Replay, Cancelled, Attempt, AfterLimit, Kept, Fits, Holding, Holds, Rejoins, Closes
<1>16. CASE Leave(r)
  BY <1>a, <1>16, FinishTask DEF Leave
<1>17. CASE TakeAdmission(r)
  BY <1>a, <1>b, <1>17, FinishTask, GotoTask, BecomeTask, SMTT(60)
  DEF TakeAdmission, Proceed, Find, Note, Cancelled, Attempt, AfterLimit, lockVars, Moved, Kept, Holding, Holds, Rejoins, Closes, Spares,
      Released, InUse, Informed
<1>18. CASE Turn(r)
  <2>1. CASE Fail(r) \/ Finish(r, "ok")
    BY <1>a, <2>1, FinishTask
  <2>2. CASE Note(r, "record", turns + 1)
    <3>1. /\ req'[r].pc = "record" /\ req'[r].kind = Kind(r) /\ req'[r].mine = Mine(r)
          /\ req'[r].answer = "none" /\ UNCHANGED lockVars
      BY <1>a, <2>2, BecomeTask DEF Note
    <3>2. QED
      BY <1>a, <1>18, <3>1 DEF Turn, lockVars, Kept, Holding, Holds, Rejoins, Closes, Spares
  <2>3. QED
    BY <1>18, <2>1, <2>2 DEF Turn
<1>19. CASE Record(r)
  BY <1>a, <1>19, FinishTask DEF Record
<1>20. CASE Which(r)
  BY <1>a, <1>20, FinishTask, ProceedKept
  DEF Which, Cancelled, Attempt, AfterLimit, Kept, Fits, Holding, Holds, Rejoins, Closes
<1>21. CASE BeginClosing(r)
  BY <1>a, <1>21, FinishTask, ProceedKept
  DEF BeginClosing, Cancelled, Attempt, AfterLimit, Kept, Fits, Holding, Holds, Rejoins, Closes
<1>22. CASE Interrupt(r)
  <2>1. CASE Finish(r, "ok")
    BY <1>a, <2>1, FinishTask
  <2>2. CASE Kind(r) # "cancel" /\ Proceed(r, "clean")
    BY <1>a, <1>22, <2>2, GotoTask DEF Interrupt, Proceed, lockVars, Moved, Kept, Holding, Holds, Rejoins, Closes, Spares
  <2>3. CASE Note(r, "interrupting", active[Mine(r)])
    <3>1. /\ req'[r].pc = "interrupting" /\ req'[r].kind = Kind(r) /\ req'[r].mine = Mine(r)
          /\ req'[r].answer = "none" /\ UNCHANGED lockVars
      BY <1>a, <2>3, BecomeTask DEF Note
    <3>2. QED
      BY <1>a, <1>22, <3>1 DEF Interrupt, lockVars, Kept, Holding, Holds, Rejoins, Closes, Spares
  <2>4. QED
    BY <1>22, <2>1, <2>2, <2>3 DEF Interrupt, Cancelled
<1>23. CASE Interrupting(r)
  BY <1>a, <1>23, FinishTask, ProceedKept
  DEF Interrupting, Cancelled, Attempt, AfterLimit, Kept, Fits, Holding, Holds, Rejoins, Closes
<1>24. CASE Settle(r)
  BY <1>a, <1>24, FinishTask, ProceedKept
  DEF Settle, Cancelled, Attempt, AfterLimit, Kept, Fits, Holding, Holds, Rejoins, Closes
<1>25. CASE Clean(r)
  BY <1>a, <1>25, FinishTask, ProceedKept
  DEF Clean, Cancelled, Attempt, AfterLimit, Kept, Fits, Holding, Holds, Rejoins, Closes
<1>26. CASE Unsubscribe(r)
  BY <1>a, <1>26, FinishTask, ProceedKept
  DEF Unsubscribe, Cancelled, Attempt, AfterLimit, Kept, Fits, Holding, Holds, Rejoins, Closes
<1>27. CASE Archive(r)
  BY <1>a, <1>27, FinishTask, ProceedKept
  DEF Archive, Cancelled, Attempt, AfterLimit, Kept, Fits, Holding, Holds, Rejoins, Closes
<1>28. CASE Shutdown(r)
  BY <1>a, <1>28, FinishTask, ProceedKept
  DEF Shutdown, Cancelled, Attempt, AfterLimit, Kept, Fits, Holding, Holds, Rejoins, Closes
<1>29. CASE Remove(r)
  BY <1>a, <1>b, <1>29, FinishTask, GotoTask, BecomeTask, SMTT(60)
  DEF Remove, Proceed, Find, Note, Cancelled, Attempt, AfterLimit, lockVars, Moved, Kept, Holding, Holds, Rejoins, Closes, Spares,
      Released, InUse, Informed
<1>30. CASE Lookup(r)
  BY <1>a, <1>b, <1>30, FinishTask, GotoTask, BecomeTask, SMTT(60)
  DEF Lookup, Proceed, Find, Note, Cancelled, Attempt, AfterLimit, lockVars, Moved, Kept, Holding, Holds, Rejoins, Closes, Spares,
      Released, InUse, Informed
<1>31. CASE TakeGate(r)
  BY <1>a, <1>b, <1>31, FinishTask, GotoTask, BecomeTask, SMTT(60)
  DEF TakeGate, Proceed, Find, Note, Cancelled, Attempt, AfterLimit, lockVars, Moved, Kept, Holding, Holds, Rejoins, Closes, Spares,
      Released, InUse, Informed
<1>32. CASE Check(r)
  <2>1. CASE Fail(r)
    BY <1>a, <2>1, FinishTask
  <2>2. CASE Kind(r) = "prompt" /\ Note(r, "turn", active[Mine(r)])
    <3>1. /\ req'[r].pc = "turn" /\ req'[r].kind = Kind(r) /\ req'[r].mine = Mine(r)
          /\ req'[r].answer = "none" /\ UNCHANGED lockVars
      BY <1>a, <2>2, BecomeTask DEF Note
    <3>2. QED
      BY <1>a, <1>32, <2>2, <3>1 DEF Check, lockVars, Kept, Holding, Holds, Rejoins, Closes, Spares
  <2>3. CASE \E step : Fits(r, step) /\ Proceed(r, step)
    BY <1>a, <2>3, ProceedKept
  <2>4. QED
    BY <1>a, <1>32, <2>1, <2>2, <2>3 DEF Check, Kept, Fits, Holding, Holds, Rejoins, Closes, InUse, Informed
<1>33. QED
  BY <1>1, <1>2, <1>3, <1>4, <1>5, <1>6, <1>7, <1>8, <1>9, <1>10, <1>11, <1>12, <1>13, <1>14, <1>15, <1>16, <1>17, <1>18, <1>19, <1>20, <1>21, <1>22, <1>23, <1>24, <1>25, <1>26, <1>27, <1>28, <1>29, <1>30, <1>31, <1>32
  DEF RequestStep, CreationStep, ResumeStep, PromptStep, CloseStep

\* The session a request uses is the one it has looked up, or made.
Learns(r) ==
  /\ Uses(r)' =>
       \/ Uses(r) /\ req'[r].mine = Mine(r) /\ req'[r].id = Id(r) /\ req'[r].goal = Goal(r)
       \/ /\ At(r, "lookup") /\ table[Id(r)] # Nobody
          /\ req'[r].mine = table[Id(r)] /\ req'[r].id = Id(r)
          /\ req'[r].goal = seen[table[Id(r)]]
       \/ /\ At(r, "adopt") /\ req'[r].id = Id(r) /\ req'[r].goal = Goal(r)
          /\ \/ table[Id(r)] # Nobody /\ req'[r].mine = table[Id(r)] /\ UNCHANGED table
             \/ req'[r].mine = r /\ Fresh(r)
  /\ ~Uses(r)' =>
       req'[r].goal = {} \/ (req'[r].mine = Mine(r) /\ req'[r].goal = Goal(r))
  /\ NotMade(r)' => NotMade(r)

LEMMA MovedLearns ==
  ASSUME NEW r \in Requests, NEW step, Moved(r, step), ~At(r, "register"),
         \/ step \notin {"idle", "creation", "limit", "setup", "register", "read", "adopt"}
         \/ NotMade(r)
  PROVE  Learns(r)
  BY DEF Learns, Moved, Uses, NotMade, At, Kind, Id, Mine, Goal

LEMMA FinishLearns ==
  ASSUME TypeOK, NEW r \in Requests, NEW result, Finish(r, result)
  PROVE  Learns(r)
  BY FinishTask DEF Learns, Uses, NotMade, At, Kind, Id, Mine, Goal

LEMMA LearnsStep ==
  ASSUME IInv, NEW r \in Requests, Kept(r), RequestStep(r)
  PROVE  Learns(r)
<1> USE DEF At, Fail
<1>a. TypeOK /\ Informed(r) /\ CreationHeld(r) /\ Kept(r)
  BY DEF IInv
<1>1. CASE TakeCreation(r)
  BY <1>a, <1>1, FinishLearns, MovedLearns, GotoTask
  DEF TakeCreation, Proceed, Cancelled, Attempt, AfterLimit, NotMade, Kind
<1>2. CASE Limit(r)
  BY <1>a, <1>2, FinishLearns, MovedLearns, GotoTask
  DEF Limit, Proceed, Cancelled, Attempt, AfterLimit, NotMade, Kind
<1>3. CASE Setup(r)
  BY <1>a, <1>3, FinishLearns, MovedLearns, GotoTask, BecomeTask, SMTT(60)
  DEF Setup, Proceed, Find, Note, Cancelled, Learns, Uses, NotMade, Kind, Id, Mine, Goal
<1>4. CASE Register(r)
  BY <1>a, <1>4, FinishLearns, MovedLearns, GotoTask
  DEF Register, Proceed, Cancelled, Attempt, AfterLimit, NotMade, Kind
<1>5. CASE Read(r)
  BY <1>a, <1>5, FinishLearns, MovedLearns, GotoTask
  DEF Read, Proceed, Cancelled, Attempt, AfterLimit, NotMade, Kind
<1>6. CASE Adopt(r)
  BY <1>a, <1>6, FinishLearns, MovedLearns, GotoTask, BecomeTask, SMTT(60)
  DEF Adopt, Proceed, Find, Note, Cancelled, Learns, Uses, NotMade, Kind, Id, Mine, Goal
<1>7. CASE Synchronize(r)
  BY <1>a, <1>7, FinishLearns, MovedLearns, GotoTask
  DEF Synchronize, Proceed, Cancelled, Attempt, AfterLimit, NotMade, Kind
<1>8. CASE TakeDelivery(r)
  BY <1>a, <1>8, FinishLearns, MovedLearns, GotoTask
  DEF TakeDelivery, Proceed, Cancelled, Attempt, AfterLimit, NotMade, Kind
<1>9. CASE Vacant(r)
  BY <1>a, <1>9, FinishLearns, MovedLearns, GotoTask
  DEF Vacant, Proceed, Cancelled, Attempt, AfterLimit, NotMade, Kind
<1>10. CASE Detach(r)
  BY <1>a, <1>10, FinishLearns, MovedLearns, GotoTask
  DEF Detach, Proceed, Cancelled, Attempt, AfterLimit, NotMade, Kind
<1>11. CASE Shut(r)
  BY <1>a, <1>11, FinishLearns, MovedLearns, GotoTask
  DEF Shut, Proceed, Cancelled, Attempt, AfterLimit, NotMade, Kind
<1>12. CASE Rejoin(r)
  BY <1>a, <1>12, FinishLearns, MovedLearns, GotoTask
  DEF Rejoin, Proceed, Cancelled, Attempt, AfterLimit, NotMade, Kind
<1>13. CASE Withdraw(r)
  BY <1>a, <1>13, FinishLearns, MovedLearns, GotoTask
  DEF Withdraw, Proceed, Cancelled, Attempt, AfterLimit, NotMade, Kind
<1>14. CASE Reopen(r)
  BY <1>a, <1>14, FinishLearns, MovedLearns, GotoTask
  DEF Reopen, Proceed, Cancelled, Attempt, AfterLimit, NotMade, Kind
<1>15. CASE Replay(r)
  BY <1>a, <1>15, FinishLearns, MovedLearns, GotoTask
  DEF Replay, Proceed, Cancelled, Attempt, AfterLimit, NotMade, Kind
<1>16. CASE Leave(r)
  BY <1>a, <1>16, FinishLearns, MovedLearns, GotoTask
  DEF Leave, Proceed, Cancelled, Attempt, AfterLimit, NotMade, Kind
<1>17. CASE TakeAdmission(r)
  BY <1>a, <1>17, FinishLearns, MovedLearns, GotoTask
  DEF TakeAdmission, Proceed, Cancelled, Attempt, AfterLimit, NotMade, Kind
<1>18. CASE Turn(r)
  BY <1>a, <1>18, FinishLearns, MovedLearns, GotoTask, BecomeTask, SMTT(60)
  DEF Turn, Proceed, Find, Note, Cancelled, Learns, Uses, NotMade, Kind, Id, Mine, Goal
<1>19. CASE Record(r)
  BY <1>a, <1>19, FinishLearns, MovedLearns, GotoTask
  DEF Record, Proceed, Cancelled, Attempt, AfterLimit, NotMade, Kind
<1>20. CASE Which(r)
  BY <1>a, <1>20, FinishLearns, MovedLearns, GotoTask
  DEF Which, Proceed, Cancelled, Attempt, AfterLimit, NotMade, Kind
<1>21. CASE BeginClosing(r)
  BY <1>a, <1>21, FinishLearns, MovedLearns, GotoTask
  DEF BeginClosing, Proceed, Cancelled, Attempt, AfterLimit, NotMade, Kind
<1>22. CASE Interrupt(r)
  BY <1>a, <1>22, FinishLearns, MovedLearns, GotoTask, BecomeTask, SMTT(60)
  DEF Interrupt, Proceed, Find, Note, Cancelled, Learns, Uses, NotMade, Kind, Id, Mine, Goal
<1>23. CASE Interrupting(r)
  BY <1>a, <1>23, FinishLearns, MovedLearns, GotoTask
  DEF Interrupting, Proceed, Cancelled, Attempt, AfterLimit, NotMade, Kind
<1>24. CASE Settle(r)
  BY <1>a, <1>24, FinishLearns, MovedLearns, GotoTask
  DEF Settle, Proceed, Cancelled, Attempt, AfterLimit, NotMade, Kind
<1>25. CASE Clean(r)
  BY <1>a, <1>25, FinishLearns, MovedLearns, GotoTask
  DEF Clean, Proceed, Cancelled, Attempt, AfterLimit, NotMade, Kind
<1>26. CASE Unsubscribe(r)
  BY <1>a, <1>26, FinishLearns, MovedLearns, GotoTask
  DEF Unsubscribe, Proceed, Cancelled, Attempt, AfterLimit, NotMade, Kind
<1>27. CASE Archive(r)
  BY <1>a, <1>27, FinishLearns, MovedLearns, GotoTask
  DEF Archive, Proceed, Cancelled, Attempt, AfterLimit, NotMade, Kind
<1>28. CASE Shutdown(r)
  BY <1>a, <1>28, FinishLearns, MovedLearns, GotoTask
  DEF Shutdown, Proceed, Cancelled, Attempt, AfterLimit, NotMade, Kind
<1>29. CASE Remove(r)
  BY <1>a, <1>29, FinishLearns, MovedLearns, GotoTask
  DEF Remove, Proceed, Cancelled, Attempt, AfterLimit, NotMade, Kind
<1>30. CASE Lookup(r)
  BY <1>a, <1>30, FinishLearns, MovedLearns, GotoTask, BecomeTask, SMTT(60)
  DEF Lookup, Proceed, Find, Note, Cancelled, Learns, Uses, NotMade, Kind, Id, Mine, Goal
<1>31. CASE TakeGate(r)
  BY <1>a, <1>31, FinishLearns, MovedLearns, GotoTask
  DEF TakeGate, Proceed, Cancelled, Attempt, AfterLimit, NotMade, Kind
<1>32. CASE Check(r)
  BY <1>a, <1>32, FinishLearns, MovedLearns, GotoTask, BecomeTask, SMTT(60)
  DEF Check, Proceed, Find, Note, Cancelled, Learns, Uses, NotMade, Kind, Id, Mine, Goal
<1>33. QED
  BY <1>1, <1>2, <1>3, <1>4, <1>5, <1>6, <1>7, <1>8, <1>9, <1>10, <1>11, <1>12, <1>13, <1>14, <1>15, <1>16, <1>17, <1>18, <1>19, <1>20, <1>21, <1>22, <1>23, <1>24, <1>25, <1>26, <1>27, <1>28, <1>29, <1>30, <1>31, <1>32
  DEF RequestStep, CreationStep, ResumeStep, PromptStep, CloseStep

\* What a request's step does to the table, to the backend and to the sessions' turns.
Inserts(r) ==
  /\ req[r].pc \in {"register", "adopt"} /\ NotMade(r) /\ ~NotMade(r)' /\ creation = r
  /\ Id(r) \in Ids /\ Id(r) \in threads /\ table' = [table EXCEPT ![Id(r)] = r]

LEMMA TableStep ==
  ASSUME IInv, NEW r \in Requests, Kept(r), RequestStep(r)
  PROVE  (\A i \in Ids : table'[i] \in {table[i], Nobody}) \/ Inserts(r)
<1> USE DEF At, Fail
<1>a. TypeOK /\ Informed(r) /\ CreationHeld(r) /\ Kept(r) /\ table \in [Ids -> Arcs \union {Nobody}]
  BY DEF IInv, TypeOK, TableTypes
<1>1. CASE UNCHANGED table \/ Withdraw(r) \/ Replay(r) \/ Remove(r)
  BY <1>a, <1>1 DEF Withdraw, Replay, Remove
<1>2. CASE Register(r)
  BY <1>a, <1>2, FinishTask
  DEF Register, Fresh, Inserts, NotMade, CreationHeld, Informed, Kept, Kind, Id
<1>3. CASE Adopt(r) /\ Find(r, "gate", r) /\ Fresh(r)
  <2>1. req'[r].pc = "gate" /\ req'[r].kind = "resume"
    BY <1>a, <1>3, BecomeTask DEF Find, Adopt, CreationHeld
  <2>2. QED
    <3>1. /\ req[r].pc = "adopt" /\ req[r].kind = "resume" /\ creation = r
          /\ req[r].id \in Ids /\ req[r].id \in threads
      BY <1>a, <1>3 DEF Adopt, CreationHeld, Informed, Rejoining, Kind, Id
    <3>2. table' = [table EXCEPT ![req[r].id] = r]
      BY <1>3 DEF Fresh, Id
    <3>3. QED
      BY <2>1, <3>1, <3>2 DEF Inserts, NotMade, Kind, Id
<1>4. QED
  BY <1>1, <1>2, <1>3, FrameStep DEF Adopt

LEMMA BackendStep ==
  ASSUME IInv, NEW r \in Requests, RequestStep(r)
  PROVE  /\ threads \subseteq threads'
         /\ \/ UNCHANGED <<turns, news>> /\ \A i \in Ids : turn'[i] \in {turn[i], 0}
            \/ Id(r) \in Ids /\ Started(Id(r))
         /\ \A i \in subscribed' : i \in subscribed \/ i \notin threads \/ (At(r, "rejoin") /\ i = Id(r))
<1> USE DEF At, Fail
<1>a. TypeOK /\ Informed(r) /\ BackendTypes
  BY DEF IInv, TypeOK
<1>0. threads \subseteq threads'
  BY TypesStep
<1>1. CASE UNCHANGED backendVars
  BY <1>1, <1>0 DEF backendVars
<1>2. CASE Setup(r)
  BY <1>2, <1>0 DEF Setup
<1>3. CASE Detach(r) \/ Leave(r) \/ Unsubscribe(r)
  BY <1>3, <1>0 DEF Detach, Leave, Unsubscribe, Attempt
<1>4. CASE Rejoin(r)
  BY <1>4, <1>0 DEF Rejoin, Attempt
<1>5. CASE Archive(r)
  BY <1>a, <1>5, <1>0 DEF Archive, BackendTypes
<1>6. CASE Turn(r)
  BY <1>a, <1>6, <1>0 DEF Turn, Started, Informed, backendVars
<1>7. QED
  BY <1>1, <1>2, <1>3, <1>4, <1>5, <1>6, FrameStep

LEMMA ActiveStep ==
  ASSUME IInv, NEW r \in Requests, RequestStep(r)
  PROVE  \/ active' = active
         \/ /\ At(r, "record")
            /\ \A a \in Arcs : active[a] # 0 \/ a # Mine(r) => active'[a] = active[a]
<1>1. active \in [Arcs -> Turns]
  BY DEF IInv, TypeOK, ObjectTypes
<1>2. QED
  BY <1>1, FrameStep
  DEF Register, Adopt, Fresh, Shut, Reopen, Record, BeginClosing, Shutdown, sessionVars

\* What is newly known of an object is its maker's own.
LEMMA KnowsStep ==
  ASSUME IInv, SInv, NEW r \in Requests, RequestStep(r), NEW a \in Arcs, NEW i \in Ids, Knows(a, i)'
  PROVE  Knows(a, i) \/ (a = r /\ i = Id(r) /\ Inserts(r))
<1>1. Kept(r) /\ a # Nobody /\ table \in [Ids -> Arcs \union {Nobody}]
  BY DEF SInv, IInv, TypeOK, TableTypes
<1>2. Only(r)
  BY KnowledgeStep
<1>3. CASE table'[i] = a
  BY <1>1, <1>3, TableStep DEF Knows, Inserts
<1>4. ASSUME NEW q \in Requests, Uses(q)', req'[q].mine = a, req'[q].id = i
      PROVE  Knows(a, i) \/ (a = r /\ i = Id(r) /\ Inserts(r))
  <2>1. CASE q # r
    BY <1>2, <1>4, <2>1 DEF Only, Knows, Uses, At, Mine, Id
  <2>2. CASE q = r
    <3>1. Learns(r)
      BY <1>1, LearnsStep
    <3>2. CASE Uses(r) /\ req'[r].mine = Mine(r) /\ req'[r].id = Id(r)
      BY <1>4, <2>2, <3>2 DEF Knows
    <3>3. CASE req'[r].mine = table[Id(r)] /\ req'[r].id = Id(r)
      BY <1>4, <2>2, <3>3 DEF Knows
    <3>4. CASE At(r, "adopt") /\ req'[r].mine = r /\ req'[r].id = Id(r) /\ Fresh(r)
      <4>1. Id(r) \in Ids
        BY <1>4, <2>2, <3>4
      <4>2. table'[Id(r)] = r /\ r \in Arcs
        BY <1>1, <3>4, <4>1 DEF Fresh
      <4>3. QED
        BY <1>1, <1>4, <2>2, <3>4, <4>1, <4>2, TableStep DEF Knows
    <3>5. QED
      BY <1>4, <2>2, <3>1, <3>2, <3>3, <3>4 DEF Learns, Uses, Mine, At
  <2>3. QED
    BY <2>1, <2>2
<1>5. QED
  BY <1>3, <1>4 DEF Knows, Mine, Id

LEMMA IdentityStep ==
  ASSUME IInv, SInv, NEW r \in Requests, RequestStep(r)
  PROVE  OneId' /\ Backed' /\ Coming'
<1>1. /\ OneId /\ Backed /\ Coming /\ Kept(r) /\ Only(r) /\ threads \subseteq threads'
      /\ Requests \subseteq Arcs
  BY KnowledgeStep, BackendStep DEF SInv
<1>2. \A a \in Arcs, i \in Ids :
        Knows(a, i)' => Knows(a, i) \/ (a = r /\ i = Id(r) /\ Inserts(r))
  BY KnowsStep
<1>3. Inserts(r) => \A i \in Ids : ~Knows(r, i)
  BY <1>1 DEF Inserts, Coming
<1>4. OneId'
  BY <1>1, <1>2, <1>3 DEF OneId
<1>5. Backed'
  BY <1>1, <1>2 DEF Backed, Inserts
<1>6. Coming'
  <2>1. ASSUME NEW q \in Requests, NotMade(q)' PROVE NotMade(q) /\ (q = r => ~Inserts(r))
    <3>1. CASE q # r
      BY <1>1, <2>1, <3>1 DEF Only, NotMade, Kind
    <3>2. CASE q = r
      BY <1>1, <2>1, <3>2, LearnsStep DEF Learns, Inserts
    <3>3. QED
      BY <3>1, <3>2
  <2>2. UNCHANGED seen
    BY FrameStep DEF historyVars
  <2>3. QED
    BY <1>1, <1>2, <2>1, <2>2 DEF Coming
<1>7. QED
  BY <1>4, <1>5, <1>6

LEMMA NewsNumbers ==
  ASSUME TypeOK, NEW i \in Ids, NEW k \in DOMAIN news[i]
  PROVE  news[i][k] \in News /\ news[i][k].of \in Nat
<1>1. PICK line \in Seq(News) : line = news[i]
  BY DEF TypeOK, BackendTypes
<1>2. line[k] \in News
  BY <1>1
<1>3. \A e \in News : e.of \in Nat
  BY DEF News, Turns
<1>4. QED
  BY <1>1, <1>2, <1>3

\* A turn that starts has a new number, and its news comes last.
LEMMA StartedOrder ==
  ASSUME TypeOK, Numbered, Ordered, NEW i \in Ids, Started(i), seen' = seen
  PROVE  /\ Numbered' /\ Ordered'
         /\ \A j \in Ids \ {i} : turn'[j] = turn[j] /\ news'[j] = news[j]
         /\ turn'[i] = turns + 1
<1>1. /\ turn \in [Ids -> Turns] /\ turns \in Nat /\ news \in [Ids -> Seq(News)]
      /\ seen \in [Arcs -> SUBSET Turns] /\ Turns \subseteq Nat
  BY DEF TypeOK, BackendTypes, HistoryTypes, Turns
<1>2. PICK e : e = [what |-> "started", of |-> turns + 1]
  OBVIOUS
<1>3. /\ e.what = "started" /\ e.of = turns + 1
  BY <1>2
<1>4. /\ turns' = turns + 1 /\ \A j \in Ids \ {i} : turn'[j] = turn[j] /\ news'[j] = news[j]
      /\ turn'[i] = turns + 1 /\ news'[i] = Append(news[i], e)
  BY <1>1, <1>2 DEF Started
<1>5. PICK line \in Seq(News) : line = news[i]
  BY <1>1
<1>6. /\ \A k \in DOMAIN line : line[k].of <= turns
      /\ \A k \in DOMAIN line : line[k].of \in Nat
  BY <1>1, <1>5, NewsNumbers DEF Numbered
<1>7. /\ Len(Append(line, e)) = Len(line) + 1 /\ Len(line) \in Nat
      /\ Append(line, e)[Len(line) + 1] = e
      /\ \A k \in 1 .. Len(line) : Append(line, e)[k] = line[k] /\ k \in DOMAIN line
      /\ DOMAIN Append(line, e) = 1 .. Len(line) + 1
  BY <1>5
<1>8. Numbered'
  <2>1. \A j \in Ids : turn[j] \in Nat /\ turn[j] <= turns
    BY <1>1 DEF Numbered
  <2>2. \A j \in Ids : turn'[j] <= turns + 1
    <3> SUFFICES ASSUME NEW j \in Ids PROVE turn'[j] <= turns + 1
      OBVIOUS
    <3>1. turn'[j] = turn[j] \/ turn'[j] = turns + 1
      BY <1>4
    <3>2. turn[j] \in Nat /\ turn[j] <= turns /\ turns \in Nat
      BY <1>1, <2>1
    <3>3. QED
      BY <3>1, <3>2
  <2>3. \A j \in Ids \ {i} : \A k \in DOMAIN news[j] : news[j][k].of \in Nat /\ news[j][k].of <= turns
    BY NewsNumbers DEF Numbered
  <2>4. \A k \in 1 .. Len(line) + 1 : Append(line, e)[k].of <= turns + 1
    <3>1. \A k \in 1 .. Len(line) + 1 : k \in 1 .. Len(line) \/ k = Len(line) + 1
      BY <1>7
    <3>2. \A k \in 1 .. Len(line) : Append(line, e)[k].of <= turns + 1
      BY <1>1, <1>6, <1>7
    <3>3. Append(line, e)[Len(line) + 1].of <= turns + 1
      BY <1>1, <1>3, <1>7
    <3>4. QED
      BY <3>1, <3>2, <3>3
  <2>5. \A j \in Ids : \A k \in DOMAIN news'[j] : news'[j][k].of <= turns + 1
    <3>1. \A k \in DOMAIN news'[i] : news'[i][k].of <= turns + 1
      BY <1>4, <1>5, <1>7, <2>4
    <3>2. \A j \in Ids \ {i} : \A k \in DOMAIN news'[j] : news'[j][k].of <= turns + 1
      BY <1>1, <1>4, <2>3
    <3>3. QED
      BY <3>1, <3>2
  <2>6. \A a \in Arcs : \A t \in seen[a] : t \in Nat /\ t <= turns
    BY <1>1 DEF Numbered
  <2>7. \A a \in Arcs : \A t \in seen[a] : t <= turns + 1
    BY <1>1, <2>6
  <2>8. QED
    BY <1>4, <2>2, <2>5, <2>7 DEF Numbered
<1>9. Ordered'
  <2>1. LastNews(Append(line, e), turns + 1)
    <3>1. \A k \in 1 .. Len(line) : line[k].of # turns + 1
      BY <1>1, <1>6, <1>7
    <3>2. QED
      BY <1>3, <1>7, <3>1 DEF LastNews
  <2>2. \A j \in Ids \ {i} : turn[j] # 0 /\ news[j] # <<>> => LastNews(news[j], turn[j])
    BY DEF Ordered
  <2>3. \A j \in Ids : LastNews(news[j], turn[j])' <=> LastNews(news'[j], turn'[j])
    BY DEF LastNews
  <2>4. QED
    BY <1>4, <1>5, <2>1, <2>2, <2>3 DEF Ordered
<1>10. QED
  BY <1>4, <1>8, <1>9

\* A step of a request makes no turn run that was announced before.
LEMMA TurnsStep ==
  ASSUME IInv, SInv, NEW r \in Requests, RequestStep(r)
  PROVE  /\ Numbered' /\ Ordered' /\ seen' = seen
         /\ \A i \in Ids, a \in Arcs : \A t \in seen[a] \ {0} :
              turn'[i] = t => turn[i] = t /\ news'[i] = news[i]
<1>1. /\ turn \in [Ids -> Turns] /\ turns \in Nat /\ news \in [Ids -> Seq(News)]
      /\ seen \in [Arcs -> SUBSET Turns] /\ Turns \subseteq Nat
      /\ TypeOK /\ Numbered /\ Ordered
  BY DEF IInv, SInv, TypeOK, BackendTypes, HistoryTypes, Turns
<1>2. seen' = seen
  BY FrameStep DEF historyVars
<1>3. CASE UNCHANGED <<turns, news>> /\ \A i \in Ids : turn'[i] \in {turn[i], 0}
  <2>1. Numbered'
    BY <1>1, <1>2, <1>3 DEF Numbered
  <2>2. Ordered'
    <3>1. \A j \in Ids : LastNews(news[j], turn[j])' <=> LastNews(news'[j], turn'[j])
      BY DEF LastNews
    <3>2. QED
      BY <1>1, <1>3, <3>1 DEF Ordered
  <2>3. QED
    BY <1>2, <1>3, <2>1, <2>2
<1>4. CASE Id(r) \in Ids /\ Started(Id(r))
  <2>1. \A a \in Arcs : \A t \in seen[a] : t # turns + 1
    BY <1>1 DEF Numbered
  <2>2. QED
    BY <1>1, <1>2, <1>4, <2>1, StartedOrder
<1>5. QED
  BY <1>3, <1>4, BackendStep

LEMMA ShownStep ==
  ASSUME IInv, SInv, NEW r \in Requests, RequestStep(r)
  PROVE  Shown'
<1> SUFFICES ASSUME NEW a \in Arcs, NEW i \in Ids, Knows(a, i)', NEW t \in seen'[a] \ {0},
                    turn'[i] = t
             PROVE  active'[a] = t /\ news'[i] = <<>>
  BY DEF Shown
<1>1. t \in seen[a] /\ turn[i] = t /\ news'[i] = news[i]
  BY TurnsStep
<1>2. Knows(a, i)
  BY <1>1, KnowsStep DEF SInv, Coming, Inserts
<1>3. active[a] = t /\ news[i] = <<>>
  BY <1>1, <1>2 DEF SInv, Shown
<1>4. active'[a] = t
  BY <1>3, ActiveStep
<1>5. QED
  BY <1>1, <1>3, <1>4

\* What the other requests know stays true.
LEMMA OthersStep ==
  ASSUME IInv, SInv, NEW r \in Requests, RequestStep(r), NEW q \in Requests, q # r
  PROVE  Kept(q)' /\ Sole(q)' /\ Detached(q)' /\ Announced(q)' /\ Aimed(q)' /\ Stopped(q)' /\ Vacated(q)'
<1>1. /\ req'[q] = req[q] /\ Spares(r) /\ threads \subseteq threads' /\ seen' = seen
      /\ Kept(q) /\ Kept(r) /\ Informed(q) /\ CreationHeld(q)
      /\ Sole(q) /\ Detached(q) /\ Announced(q) /\ Aimed(q) /\ Stopped(q) /\ Vacated(q) /\ Sole(r)
  BY KnowledgeStep, KeptStep, BackendStep, TurnsStep DEF SInv, IInv, Only
<1>2. Kept(q)'
  <2>1. Holding(q) => Mine(q) \in Arcs /\ gate'[Mine(q)] = q
    BY <1>1 DEF Kept, Spares
  <2>2. req[q].pc \in {"vacant", "detach"} => delivery'[Mine(q)] = q
    BY <1>1, <2>1 DEF Kept, Spares, Holding, Holds, Rejoins
  <2>3. Holding(q)' <=> Holding(q)
    BY <1>1 DEF Holding, Holds, Kind, At
  <2>4. QED
    BY <1>1, <2>1, <2>2, <2>3 DEF Kept, Kind, Mine, Id, At
<1>3. Announced(q)'
  BY <1>1 DEF Announced, Goal, Mine
<1>4. \A t \in Goal(q) \ {0} : Id(q) \in Ids /\ Mine(q) \in Arcs /\ turn'[Id(q)] = t => turn[Id(q)] = t
  BY <1>1, TurnsStep DEF Announced
<1>5. Holding(q) => Id(q) \in Ids /\ Mine(q) \in Arcs /\ gate[Mine(q)] = q
  BY <1>1 DEF Kept, Informed, Holding, Holds, Rejoins, Closes, At
<1>6. Aimed(q)'
  <2>1. req[q].pc \in {"interrupting", "settle"} => Id(q) \in Ids /\ Mine(q) \in Arcs
    BY <1>1 DEF Kept, Informed
  <2>2. QED
    BY <1>1, <1>4, <2>1 DEF Aimed, Goal, Id, Aim
<1>7. Stopped(q)'
  <2>1. req[q].pc \in Closes \ {"closing"} \/ (At(q, "archive") /\ Kind(q) = "archive") => Holding(q)
    BY DEF Holding, Holds, At
  <2>2. QED
    BY <1>1, <1>4, <1>5, <2>1 DEF Stopped, Goal, Id, Kind, At
<1>8. Vacated(q)'
  <2>1. At(q, "detach") => Holding(q)
    BY DEF Holding, Holds, Rejoins, At
  <2>2. At(r, "record") => Mine(r) \in Arcs /\ gate[Mine(r)] = r
    BY <1>1 DEF Kept, Holding, Holds, At
  <2>3. At(q, "detach") => active'[Mine(q)] = active[Mine(q)]
    BY <1>5, <2>1, <2>2, ActiveStep
  <2>4. QED
    BY <1>1, <2>3 DEF Vacated, Mine, At
<1>9. Sole(q)'
  <2> SUFFICES ASSUME req[q].pc \in Rejoining \ {"adopt"} \/ (At(q, "gate") /\ Kind(q) = "resume")
               PROVE  table'[Id(q)] \in {Mine(q), Nobody}
    BY <1>1 DEF Sole, Id, Mine, Kind, At
  <2>1. Id(q) \in Ids /\ creation = q /\ table[Id(q)] \in {Mine(q), Nobody}
    BY <1>1 DEF Sole, Kept, CreationHeld, Informed, Rejoins, Rejoining, At
  <2>2. QED
    BY <1>1, <2>1, TableStep DEF Inserts
<1>10. Detached(q)'
  <2> SUFFICES ASSUME req[q].pc \in {"shutdown", "remove"}, table'[Id(q)] = Mine(q),
                      Id(q) \in subscribed'
               PROVE  FALSE
    BY <1>1 DEF Detached, Id, Mine
  <2>1. Id(q) \in Ids /\ Mine(q) \in Arcs /\ gate[Mine(q)] = q /\ Mine(q) # Nobody
    BY <1>5 DEF Holding, Holds, Closes
  <2>2. Knows(Mine(q), Id(q))
    BY <2>1 DEF Knows, Uses, At
  <2>3. table[Id(q)] = Mine(q)
    <3>1. Inserts(r) => ~Knows(r, Id(q))
      BY <2>1 DEF SInv, Coming, Inserts
    <3>2. table \in [Ids -> Arcs \union {Nobody}]
      BY DEF IInv, TypeOK, TableTypes
    <3>3. QED
      BY <1>1, <2>1, <2>2, <3>1, <3>2, TableStep DEF Inserts
  <2>4. Id(q) \notin subscribed /\ Id(q) \in threads
    BY <1>1, <2>1, <2>2, <2>3 DEF Detached, SInv, Backed
  <2>5. At(r, "rejoin") /\ Id(q) = Id(r)
    BY <2>4, BackendStep
  <2>6. table[Id(r)] \in {Mine(r), Nobody} /\ gate[Mine(r)] = r
    BY <1>1, <2>5 DEF Sole, Kept, Holding, Holds, Rejoins, Rejoining, At
  <2>7. QED
    BY <2>1, <2>3, <2>5, <2>6
<1>11. QED
  BY <1>2, <1>3, <1>6, <1>7, <1>8, <1>9, <1>10

\* A request that returns, or goes on to a step of which nothing more is asked.
Promises(r) == Sole(r) /\ Detached(r) /\ Aimed(r) /\ Stopped(r) /\ Vacated(r)
Plain == {"creation", "limit", "lookup", "check", "setup", "register", "read", "adopt", "withdraw",
          "reopen", "resync", "redeliver", "replay", "leave", "admission", "turn", "record",
          "which", "closing", "interrupt", "done"}

LEMMA PlainPromises ==
  ASSUME NEW r \in Requests, req'[r].pc \in Plain
  PROVE  Promises(r)'
  BY DEF Plain, Promises, Sole, Detached, Aimed, Stopped, Vacated, Rejoining, Closes, At

\* A resume goes on with the session it found.
LEMMA ResumesOn ==
  ASSUME NEW r \in Requests, NEW step \in Rejoining \ {"adopt"}, Moved(r, step), Sole(r),
         req[r].pc \in Rejoining \ {"adopt"} \/ (At(r, "gate") /\ Kind(r) = "resume"),
         table' = table, step = "detach" => active'[Mine(r)] = 0
  PROVE  Promises(r)'
  BY DEF Promises, Moved, Sole, Detached, Aimed, Stopped, Vacated, Rejoining, Closes, At, Kind, Id, Mine

\* A teardown goes on once nothing it was to stop runs.
LEMMA StopsOn ==
  ASSUME NEW r \in Requests, NEW step \in Closes \union {"archive"}, Moved(r, step),
         turn'[Id(r)] \notin Goal(r) \ {0},
         step \in {"shutdown", "remove"} => table' = table /\ (table[Id(r)] = Mine(r) => Id(r) \notin subscribed')
  PROVE  Promises(r)'
  BY DEF Promises, Moved, Sole, Detached, Aimed, Stopped, Vacated, Rejoining, Closes, At, Kind, Id, Mine, Goal

\* The turn that a request stops, of those it remembers.
LEMMA OneRuns ==
  ASSUME IInv, SInv, NEW r \in Requests, Mine(r) \in Arcs, ~At(r, "register"), Id(r) \in Ids,
         NEW t \in Goal(r) \ {0}, turn[Id(r)] = t
  PROVE  active[Mine(r)] = t
<1>1. Nobody \notin Arcs
  OBVIOUS
<1>2. Knows(Mine(r), Id(r)) /\ t \in seen[Mine(r)] \ {0}
  BY <1>1 DEF SInv, Announced, Knows, Uses
<1>3. QED
  BY <1>2 DEF SInv, Shown

LEMMA OwnStep ==
  ASSUME IInv, SInv, NEW r \in Requests, RequestStep(r)
  PROVE  Promises(r)'
<1> USE DEF At, Fail
<1>a. /\ TypeOK /\ Informed(r) /\ CreationHeld(r) /\ Kept(r)
      /\ Sole(r) /\ Detached(r) /\ Announced(r) /\ Aimed(r) /\ Stopped(r) /\ Vacated(r)
  BY DEF IInv, SInv
<1>b. \A result : Finish(r, result) => Promises(r)'
  BY <1>a, FinishTask, PlainPromises DEF Plain
<1>c. \A step \in Plain : Goto(r, step) => Promises(r)'
  BY <1>a, GotoTask, PlainPromises DEF Moved
<1>d. \A step, k, i, a, t, g :
        step \in Plain /\ Become(r, Task(step, k, i, a, t, g)) => Promises(r)'
  BY <1>a, BecomeTask, PlainPromises
<1>1. CASE TakeCreation(r)
  BY <1>b, <1>c, <1>1 DEF TakeCreation, AfterLimit, Plain, Proceed
<1>2. CASE Limit(r)
  BY <1>b, <1>c, <1>2 DEF Limit, AfterLimit, Plain, Proceed
<1>3. CASE Setup(r)
  BY <1>b, <1>d, <1>3 DEF Setup, Note, Plain
<1>4. CASE Register(r)
  BY <1>b, <1>4 DEF Register
<1>5. CASE Read(r)
  BY <1>b, <1>c, <1>5 DEF Read, AfterLimit, Plain, Proceed
<1>6. CASE Adopt(r)
  <2>1. CASE Fail(r)
    BY <1>b, <2>1
  <2>2. CASE Find(r, "gate", table[Id(r)]) /\ table' = table
    <3>1. req'[r].pc = "gate" /\ req'[r].id = Id(r) /\ req'[r].mine = table[Id(r)]
      BY <1>a, <2>2, BecomeTask DEF Find
    <3>2. QED
      BY <2>2, <3>1 DEF Promises, Sole, Detached, Aimed, Stopped, Vacated, Closes, Rejoining, Id, Mine
  <2>3. CASE Find(r, "gate", r) /\ Fresh(r)
    <3>1. req'[r].pc = "gate" /\ req'[r].id = Id(r) /\ req'[r].mine = r
      BY <1>a, <2>3, BecomeTask DEF Find
    <3>2. table'[Id(r)] = r
      BY <1>a, <1>6, <2>3 DEF Adopt, Fresh, Informed, TypeOK, TableTypes
    <3>3. QED
      BY <3>1, <3>2 DEF Promises, Sole, Detached, Aimed, Stopped, Vacated, Closes, Rejoining, Id, Mine
  <2>4. QED
    BY <1>6, <2>1, <2>2, <2>3 DEF Adopt
<1>7. CASE Synchronize(r)
  BY <1>a, <1>b, <1>c, <1>7, GotoTask, ResumesOn DEF Synchronize, Plain, Proceed, Rejoining
<1>8. CASE TakeDelivery(r)
  BY <1>a, <1>b, <1>c, <1>8, GotoTask, ResumesOn DEF TakeDelivery, Plain, Proceed, Rejoining
<1>9. CASE Vacant(r)
  <2>1. CASE Unoccupied(r)
    BY <1>a, <1>b, <1>9, <2>1, GotoTask, ResumesOn DEF Vacant, Plain, Proceed, Rejoining, Unoccupied, sessionVars
  <2>2. CASE ~Unoccupied(r)
    BY <1>b, <1>9, <2>2 DEF Vacant
  <2>3. QED
    BY <2>1, <2>2
<1>10. CASE Detach(r)
  BY <1>a, <1>b, <1>c, <1>10, GotoTask, ResumesOn DEF Detach, Attempt, Plain, Proceed, Rejoining
<1>11. CASE Shut(r)
  BY <1>a, <1>b, <1>c, <1>11, GotoTask, ResumesOn DEF Shut, Plain, Proceed, Rejoining
<1>12. CASE Rejoin(r)
  BY <1>a, <1>b, <1>c, <1>12, GotoTask, ResumesOn DEF Rejoin, Attempt, Plain, Proceed, Rejoining
<1>13. CASE Withdraw(r)
  BY <1>b, <1>13 DEF Withdraw
<1>14. CASE Reopen(r)
  BY <1>b, <1>c, <1>14 DEF Reopen, AfterLimit, Plain, Proceed
<1>15. CASE Replay(r)
  BY <1>b, <1>c, <1>15 DEF Replay, Plain, Proceed
<1>16. CASE Leave(r)
  BY <1>b, <1>16 DEF Leave
<1>17. CASE TakeAdmission(r)
  BY <1>b, <1>c, <1>17 DEF TakeAdmission, AfterLimit, Plain, Proceed
<1>18. CASE Turn(r)
  BY <1>b, <1>d, <1>18 DEF Turn, Note, Plain
<1>19. CASE Record(r)
  BY <1>b, <1>19 DEF Record
<1>20. CASE Which(r)
  <2>1. CASE Proceed(r, "archive")
    <3>1. req'[r].pc = "archive" /\ req'[r].kind = "delete"
      BY <1>a, <1>20, <2>1, GotoTask DEF Which, Proceed, Moved, Kept
    <3>2. QED
      BY <3>1 DEF Promises, Sole, Detached, Aimed, Stopped, Vacated, Closes, Rejoining, Kind
  <2>2. CASE ~Proceed(r, "archive")
    BY <1>b, <1>c, <1>20, <2>2 DEF Which, Plain, Proceed
  <2>3. QED
    BY <2>1, <2>2
<1>21. CASE BeginClosing(r)
  BY <1>b, <1>c, <1>21 DEF BeginClosing, AfterLimit, Plain, Proceed
<1>22. CASE Interrupt(r)
  <2>0. Id(r) \in Ids /\ Mine(r) \in Arcs /\ ~At(r, "register") /\ turn' = turn
    BY <1>a, <1>22 DEF Interrupt, Informed, Kept, backendVars
  <2>1. CASE Finish(r, "ok")
    BY <1>b, <2>1
  <2>2. CASE active[Mine(r)] = 0 /\ Proceed(r, "clean")
    <3>1. turn[Id(r)] \notin Goal(r) \ {0}
      BY <2>0, <2>2, OneRuns
    <3>2. QED
      BY <1>a, <2>0, <2>2, <3>1, GotoTask, StopsOn DEF Proceed, Closes
  <2>3. CASE Note(r, "interrupting", active[Mine(r)])
    <3>1. /\ req'[r].pc = "interrupting" /\ req'[r].id = Id(r) /\ req'[r].goal = Goal(r)
          /\ req'[r].aim = active[Mine(r)]
      BY <1>a, <2>3, BecomeTask DEF Note
    <3>2. \A t \in Goal(r) \ {0} : turn[Id(r)] = t => active[Mine(r)] = t
      BY <2>0, OneRuns
    <3>3. QED
      BY <2>0, <3>1, <3>2 DEF Promises, Sole, Detached, Aimed, Stopped, Vacated, Closes, Rejoining, Id, Goal, Aim
  <2>4. QED
    BY <1>22, <2>1, <2>2, <2>3 DEF Interrupt, Cancelled
<1>23. CASE Interrupting(r)
  <2>1. CASE Fail(r)
    BY <1>b, <2>1
  <2>2. CASE Proceed(r, "settle")
    <3>1. /\ req'[r].pc = "settle" /\ req'[r].id = Id(r) /\ req'[r].goal = Goal(r)
          /\ req'[r].aim = Aim(r) /\ turn' = turn
      BY <1>a, <1>23, <2>2, GotoTask DEF Proceed, Moved, Interrupting, backendVars
    <3>2. QED
      BY <1>a, <1>23, <3>1 DEF Interrupting, Promises, Sole, Detached, Aimed, Stopped, Vacated, Closes, Rejoining, Id, Goal, Aim
  <2>3. QED
    BY <1>23, <2>1, <2>2 DEF Interrupting
<1>24. CASE Settle(r)
  <2>1. CASE Fail(r) \/ Finish(r, "ok")
    BY <1>b, <2>1
  <2>2. CASE Settled(r) /\ Proceed(r, "clean")
    <3>1. Id(r) \in Ids /\ Mine(r) \in Arcs /\ turn' = turn
      BY <1>a, <1>24 DEF Settle, Informed, Kept, backendVars
    <3>2. turn[Id(r)] \notin Goal(r) \ {0}
      BY <1>a, <1>24, <2>2, <3>1, OneRuns DEF Settle, Settled, Aimed
    <3>3. QED
      BY <1>a, <2>2, <3>1, <3>2, GotoTask, StopsOn DEF Proceed, Closes
  <2>3. QED
    BY <1>24, <2>1, <2>2 DEF Settle, Cancelled
<1>25. CASE Clean(r)
  <2>1. turn' = turn /\ turn[Id(r)] \notin Goal(r) \ {0}
    BY <1>a, <1>25 DEF Clean, Stopped, Closes, backendVars
  <2>2. QED
    BY <1>a, <1>b, <1>25, <2>1, GotoTask, StopsOn DEF Clean, Proceed, Closes
<1>26. CASE Unsubscribe(r)
  <2>1. turn' = turn /\ turn[Id(r)] \notin Goal(r) \ {0} /\ table' = table
    BY <1>a, <1>26 DEF Unsubscribe, Attempt, Stopped, Closes
  <2>2. QED
    BY <1>a, <1>b, <1>26, <2>1, GotoTask, StopsOn DEF Unsubscribe, Attempt, Proceed, Closes
<1>27. CASE Archive(r)
  <2>1. CASE /\ subscribed' = subscribed \ {Id(r)} /\ turn' = [turn EXCEPT ![Id(r)] = 0]
             /\ Proceed(r, "shutdown")
    <3>1. turn'[Id(r)] = 0 /\ table' = table
      BY <1>a, <1>27, <2>1 DEF Archive, Informed, TypeOK, BackendTypes
    <3>2. QED
      BY <1>a, <2>1, <3>1, GotoTask, StopsOn DEF Proceed, Closes
  <2>2. CASE Finish(r, "ok") \/ Fail(r)
    BY <1>b, <2>2
  <2>3. QED
    BY <1>27, <2>1, <2>2 DEF Archive
<1>28. CASE Shutdown(r)
  <2>1. /\ turn' = turn /\ turn[Id(r)] \notin Goal(r) \ {0} /\ table' = table
        /\ subscribed' = subscribed /\ (table[Id(r)] = Mine(r) => Id(r) \notin subscribed)
    BY <1>a, <1>28 DEF Shutdown, Stopped, Detached, Closes, backendVars
  <2>2. QED
    BY <1>a, <1>28, <2>1, GotoTask, StopsOn DEF Shutdown, Proceed, Closes
<1>29. CASE Remove(r)
  <2>1. CASE Finish(r, "ok") \/ Fail(r)
    BY <1>b, <2>1
  <2>2. CASE Kind(r) = "delete" /\ Goto(r, "archive")
    <3>1. req'[r].pc = "archive" /\ req'[r].kind = "delete"
      BY <1>a, <2>2, GotoTask DEF Moved
    <3>2. QED
      BY <3>1 DEF Promises, Sole, Detached, Aimed, Stopped, Vacated, Closes, Rejoining, Kind
  <2>3. QED
    BY <1>29, <2>1, <2>2 DEF Remove
<1>30. CASE Lookup(r)
  <2>1. CASE Fail(r)
    BY <1>b, <2>1
  <2>2. CASE Become(r, Task(IF Kind(r) = "cancel" THEN "admission" ELSE "gate", Kind(r), Id(r),
                         table[Id(r)], 0, seen[table[Id(r)]]))
    <3>1. /\ req'[r].pc \in {"admission", "gate"} /\ req'[r].kind = Kind(r)
      BY <1>a, <2>2, BecomeTask
    <3>2. Kind(r) # "resume"
      BY <1>a, <1>30 DEF Lookup, Informed
    <3>3. QED
      BY <3>1, <3>2 DEF Promises, Sole, Detached, Aimed, Stopped, Vacated, Closes, Rejoining, Kind
  <2>3. QED
    BY <1>30, <2>1, <2>2 DEF Lookup
<1>31. CASE TakeGate(r)
  BY <1>a, <1>c, <1>31, GotoTask, ResumesOn DEF TakeGate, Plain, Rejoining
<1>32. CASE Check(r)
  BY <1>b, <1>c, <1>d, <1>32 DEF Check, Note, Plain, Proceed
<1>33. QED
  BY <1>1, <1>2, <1>3, <1>4, <1>5, <1>6, <1>7, <1>8, <1>9, <1>10, <1>11, <1>12, <1>13, <1>14, <1>15, <1>16, <1>17, <1>18, <1>19, <1>20, <1>21, <1>22, <1>23, <1>24, <1>25, <1>26, <1>27, <1>28, <1>29, <1>30, <1>31, <1>32
  DEF RequestStep, CreationStep, ResumeStep, PromptStep, CloseStep

LEMMA AnnouncedStep ==
  ASSUME IInv, SInv, NEW r \in Requests, RequestStep(r)
  PROVE  Announced(r)'
<1>1. Learns(r) /\ Kept(r) /\ Announced(r) /\ seen' = seen
  BY LearnsStep, TurnsStep DEF SInv
<1>2. CASE Uses(r)'
  BY <1>1, <1>2 DEF Learns, Announced, Kept, Uses, Goal, Mine, At
<1>3. CASE ~Uses(r)'
  BY <1>1, <1>3 DEF Learns, Announced, Goal, Mine
<1>4. QED
  BY <1>2, <1>3

LEMMA RequestPromises == ASSUME IInv, SInv, NEW r \in Requests, RequestStep(r) PROVE SInv'
<1>1. /\ Kept(r)' /\ Announced(r)' /\ Promises(r)'
  BY KeptStep, AnnouncedStep, OwnStep DEF SInv
<1>2. \A q \in Requests \ {r} :
        Kept(q)' /\ Sole(q)' /\ Detached(q)' /\ Announced(q)' /\ Aimed(q)' /\ Stopped(q)' /\ Vacated(q)'
  BY OthersStep
<1>3. OneId' /\ Backed' /\ Coming' /\ Numbered' /\ Ordered' /\ Shown'
  BY IdentityStep, TurnsStep, ShownStep
<1>4. QED
  BY <1>1, <1>2, <1>3 DEF SInv, Promises

\* A request that begins knows no session yet.
LEMMA BeginPromises ==
  ASSUME IInv, SInv, NEW r \in Requests, NEW k \in AllKinds, NEW i \in Ids \union {Nobody}, Begin(r, k, i)
  PROVE  SInv'
<1>a. /\ At(r, "idle") /\ UNCHANGED <<table, sessionVars, backendVars, historyVars>>
      /\ TypeOK
  BY DEF Begin, IInv
<1>1. PICK step \in {"creation", "which", "lookup"} :
        /\ Become(r, Task(step, k, i, Nobody, 0, {}))
        /\ step = "which" <=> k = "delete"
  BY DEF Begin
<1>2. /\ req'[r].pc = step /\ req'[r].kind = k /\ req'[r].mine = Nobody /\ req'[r].goal = {}
      /\ req'[r].answer = "none" /\ UNCHANGED lockVars
      /\ \A q \in Requests \ {r} : req'[q] = req[q]
  <2>1. /\ req'[r].pc = step /\ req'[r].kind = k /\ req'[r].mine = Nobody /\ req'[r].goal = {}
        /\ req'[r].answer = "none" /\ UNCHANGED lockVars
    BY <1>a, <1>1, BecomeTask
  <2>2. \A q \in Requests \ {r} : req'[q] = req[q]
    BY <1>a, <1>1 DEF Become, TypeOK
  <2>3. QED
    BY <2>1, <2>2
<1>3. Kept(r)' /\ Announced(r)' /\ ~Uses(r)' /\ NotMade(r)
  BY <1>a, <1>1, <1>2 DEF Kept, Holding, Holds, Rejoins, Closes, Announced, Uses, NotMade, At, Kind, Mine, Goal
<1>4. Promises(r)'
  <2>1. CASE k # "resume" \/ step # "lookup"
    BY <1>2, <2>1 DEF Promises, Sole, Detached, Aimed, Stopped, Vacated, Rejoining, Closes, At, Kind
  <2>2. k = "resume" => step = "creation"
    BY <1>a, <1>1, <1>2 DEF Begin, Become, Task, TypeOK
  <2>3. QED
    BY <1>2, <2>1, <2>2
<1>5. \A q \in Requests \ {r} :
        Kept(q)' /\ Sole(q)' /\ Detached(q)' /\ Announced(q)' /\ Aimed(q)' /\ Stopped(q)' /\ Vacated(q)'
  BY <1>a, <1>2 DEF SInv, Kept, Holding, Holds, Sole, Detached, Announced, Aimed, Stopped, Vacated,
     At, Kind, Id, Mine, Goal, Aim, lockVars, sessionVars, backendVars, historyVars
<1>6. \A a \in Arcs, j \in Ids : Knows(a, j)' => Knows(a, j)
  BY <1>a, <1>2, <1>3 DEF Knows, Uses, At, Mine, Id
<1>7. \A q \in Requests : NotMade(q)' => NotMade(q)
  BY <1>2, <1>3 DEF NotMade, Kind
<1>8. OneId' /\ Backed' /\ Coming'
  BY <1>a, <1>6, <1>7 DEF SInv, OneId, Backed, Coming, backendVars, historyVars
<1>9. Numbered' /\ Ordered' /\ Shown'
  BY <1>a, <1>6 DEF SInv, Numbered, Ordered, LastNews, Shown, sessionVars, backendVars, historyVars
<1>10. QED
  BY <1>3, <1>4, <1>5, <1>8, <1>9 DEF SInv, Promises

\* What turns and their news leave alone.
LEMMA TurnFrame ==
  ASSUME SInv, UNCHANGED <<table, req, lockVars, threads, subscribed>>,
         \A a \in Arcs : seen[a] \subseteq seen'[a],
         \A i \in Ids, a \in Arcs : \A t \in seen[a] \ {0} : turn'[i] = t => turn[i] = t,
         \A r \in Requests : Informed(r) /\ req[r] \in Request
  PROVE  /\ \A r \in Requests :
              Kept(r)' /\ Sole(r)' /\ Detached(r)' /\ Announced(r)' /\ Aimed(r)' /\ Stopped(r)'
         /\ OneId' /\ Backed' /\ \A a, i : Knows(a, i)' <=> Knows(a, i)
<1>1. \A r \in Requests : Kept(r)' /\ Sole(r)' /\ Detached(r)'
  BY DEF SInv, Kept, Holding, Holds, Sole, Detached, At, Kind, Id, Mine, lockVars
<1>2. \A a, i : Knows(a, i)' <=> Knows(a, i)
  BY DEF Knows, Uses, At, Mine, Id
<1>3. OneId' /\ Backed'
  BY <1>2 DEF SInv, OneId, Backed
<1>4. \A r \in Requests : Announced(r)'
  <2>1. ASSUME NEW r \in Requests PROVE Mine(r) \in Arcs \union {Nobody}
    BY DEF Mine, Request
  <2>2. QED
    BY <2>1 DEF SInv, Announced, Goal, Mine
<1>5. \A r \in Requests : Aimed(r)' /\ Stopped(r)'
  <2> SUFFICES ASSUME NEW r \in Requests PROVE Aimed(r)' /\ Stopped(r)'
    OBVIOUS
  <2>1. req[r].pc \notin {"idle", "done", "creation", "limit", "setup"} =>
          \A t \in Goal(r) \ {0} : turn'[Id(r)] = t => turn[Id(r)] = t
    <3>1. Goal(r) # {} => Mine(r) \in Arcs
      BY DEF SInv, Announced, Mine, Request
    <3>2. QED
      BY <3>1 DEF SInv, Announced, Informed
  <2>2. QED
    BY <2>1 DEF SInv, Aimed, Stopped, Closes, At, Kind, Id, Goal, Aim
<1>6. QED
  BY <1>1, <1>2, <1>3, <1>4, <1>5

LEMMA Starts ==
  ASSUME IInv, SInv, NEW i \in Ids, TurnStarts(i)
  PROVE  SInv'
<1>1. /\ Started(i) /\ UNCHANGED <<table, sessionVars, lockVars, req, historyVars, threads, subscribed>>
      /\ turns \in Nat /\ seen \in [Arcs -> SUBSET Turns] /\ TypeOK
      /\ \A r \in Requests : Informed(r) /\ req[r] \in Request
  BY DEF TurnStarts, Started, IInv, TypeOK, BackendTypes, HistoryTypes, Turns
<1>2. /\ Numbered' /\ Ordered' /\ turn'[i] = turns + 1
      /\ \A j \in Ids \ {i} : turn'[j] = turn[j] /\ news'[j] = news[j]
  BY <1>1, StartedOrder DEF SInv, historyVars
<1>3. \A a \in Arcs : \A t \in seen[a] : t # turns + 1
  BY <1>1 DEF SInv, Numbered, Turns
<1>4. \A j \in Ids, a \in Arcs : \A t \in seen[a] \ {0} :
        turn'[j] = t => turn[j] = t /\ news'[j] = news[j]
  BY <1>2, <1>3
<1>5. /\ \A r \in Requests : Kept(r)' /\ Sole(r)' /\ Detached(r)' /\ Announced(r)' /\ Aimed(r)' /\ Stopped(r)'
      /\ OneId' /\ Backed' /\ \A a, j : Knows(a, j)' <=> Knows(a, j)
  BY <1>1, <1>4, TurnFrame DEF historyVars
<1>6. Coming' /\ \A r \in Requests : Vacated(r)'
  BY <1>1, <1>5 DEF SInv, Coming, NotMade, Vacated, At, Kind, Mine, sessionVars, historyVars
<1>7. Shown'
  BY <1>1, <1>4, <1>5 DEF SInv, Shown, sessionVars, historyVars
<1>8. QED
  BY <1>2, <1>5, <1>6, <1>7 DEF SInv

LEMMA Ends ==
  ASSUME IInv, SInv, NEW i \in Ids, TurnEnds(i)
  PROVE  SInv'
<1>1. /\ Ended(i) /\ UNCHANGED <<table, sessionVars, lockVars, req, historyVars, threads, subscribed, turns>>
      /\ turns \in Nat /\ seen \in [Arcs -> SUBSET Turns] /\ TypeOK
      /\ turn \in [Ids -> Turns] /\ news \in [Ids -> Seq(News)] /\ turn[i] # 0
      /\ \A r \in Requests : Informed(r) /\ req[r] \in Request
  BY DEF TurnEnds, Ended, IInv, TypeOK, BackendTypes, HistoryTypes, Turns
<1>2. turn'[i] = 0 /\ \A j \in Ids \ {i} : turn'[j] = turn[j] /\ news'[j] = news[j]
  BY <1>1 DEF Ended
<1>3. \A j \in Ids, a \in Arcs : \A t \in seen[a] \ {0} :
        turn'[j] = t => turn[j] = t /\ news'[j] = news[j]
  BY <1>2
<1>4. /\ \A r \in Requests : Kept(r)' /\ Sole(r)' /\ Detached(r)' /\ Announced(r)' /\ Aimed(r)' /\ Stopped(r)'
      /\ OneId' /\ Backed' /\ \A a, j : Knows(a, j)' <=> Knows(a, j)
  BY <1>1, <1>3, TurnFrame DEF historyVars
<1>5. Coming' /\ \A r \in Requests : Vacated(r)'
  BY <1>1, <1>4 DEF SInv, Coming, NotMade, Vacated, At, Kind, Mine, sessionVars, historyVars
<1>6. Shown'
  BY <1>1, <1>3, <1>4 DEF SInv, Shown, sessionVars, historyVars
<1>7. Numbered'
  <2>1. PICK line \in Seq(News) : line = news[i]
    BY <1>1
  <2>2. PICK e : e = [what |-> "completed", of |-> turn[i]]
    OBVIOUS
  <2>2a. e.of <= turns
    <3>1. turn[i] <= turns /\ e.of = turn[i]
      BY <2>2 DEF SInv, Numbered
    <3>2. QED
      BY <3>1
  <2>3. news'[i] \in {line, Append(line, e)}
    BY <1>1, <2>1, <2>2 DEF Ended
  <2>4. \A k \in DOMAIN line : line[k].of <= turns
    BY <2>1 DEF SInv, Numbered
  <2>5. \A k \in DOMAIN Append(line, e) :
          (k \in DOMAIN line /\ Append(line, e)[k] = line[k]) \/ Append(line, e)[k] = e
    BY <2>1
  <2>6. \A k \in DOMAIN news'[i] : news'[i][k].of <= turns
    <3>1. CASE news'[i] = line
      BY <2>4, <3>1
    <3>2. CASE news'[i] = Append(line, e)
      BY <2>2a, <2>4, <2>5, <3>2
    <3>3. QED
      BY <2>3, <3>1, <3>2
  <2>7. \A j \in Ids : turn'[j] <= turns /\ \A k \in DOMAIN news'[j] : news'[j][k].of <= turns
    <3>1. 0 <= turns /\ turn'[i] <= turns /\ \A k \in DOMAIN news'[i] : news'[i][k].of <= turns
      BY <1>1, <1>2, <2>6
    <3>2. \A j \in Ids \ {i} : turn'[j] <= turns /\ \A k \in DOMAIN news'[j] : news'[j][k].of <= turns
      BY <1>2 DEF SInv, Numbered
    <3>3. QED
      BY <3>1, <3>2
  <2>8. QED
    BY <1>1, <2>7 DEF SInv, Numbered, historyVars
<1>8. Ordered'
  <2>1. \A j \in Ids : LastNews(news[j], turn[j])' <=> LastNews(news'[j], turn'[j])
    BY DEF LastNews
  <2>2. QED
    BY <1>2, <2>1 DEF SInv, Ordered
<1>9. QED
  BY <1>4, <1>5, <1>6, <1>7, <1>8 DEF SInv

\* News that are taken in their order.
LEMMA TakenOrder ==
  ASSUME IInv, SInv, NEW i \in Ids, news[i] # <<>>, news' = [news EXCEPT ![i] = Tail(news[i])],
         UNCHANGED <<turn, turns>>
  PROVE  /\ Ordered' /\ Head(news[i]).of <= turns
         /\ \A j \in Ids : turn'[j] <= turns' /\ \A k \in DOMAIN news'[j] : news'[j][k].of <= turns'
         /\ \A j \in Ids \ {i} : news'[j] = news[j]
         /\ turn[i] # 0 /\ Head(news[i]).of = turn[i] => news'[i] = <<>>
<1>1. /\ turn \in [Ids -> Turns] /\ news \in [Ids -> Seq(News)] /\ Numbered /\ Ordered
  BY DEF IInv, SInv, TypeOK, BackendTypes
<1>2. PICK line \in Seq(News) : line = news[i] /\ line # <<>>
  BY <1>1
<1>3. /\ Len(line) \in Nat \ {0} /\ Tail(line) \in Seq(News) /\ Head(line) = line[1]
      /\ Len(Tail(line)) = Len(line) - 1 /\ DOMAIN line = 1 .. Len(line)
      /\ DOMAIN Tail(line) = 1 .. Len(line) - 1
      /\ \A k \in 1 .. Len(line) - 1 : Tail(line)[k] = line[k + 1]
  BY <1>2
<1>a. Len(line) = 1 <=> Tail(line) = <<>>
  <2>1. PICK rest \in Seq(News) : rest = Tail(line)
    BY <1>3
  <2>2. rest = <<>> <=> Len(rest) = 0
    OBVIOUS
  <2>3. QED
    BY <1>3, <2>1, <2>2
<1>4. news'[i] = Tail(line) /\ \A j \in Ids \ {i} : news'[j] = news[j]
  BY <1>1, <1>2
<1>5. \A k \in 1 .. Len(line) : line[k].of <= turns
  BY <1>1, <1>2, <1>3 DEF Numbered
<1>6. \A k \in DOMAIN Tail(line) : Tail(line)[k].of <= turns
  <2> SUFFICES ASSUME NEW k \in 1 .. Len(line) - 1 PROVE Tail(line)[k].of <= turns
    BY <1>3
  <2>1. k + 1 \in 1 .. Len(line) /\ Tail(line)[k] = line[k + 1]
    BY <1>3
  <2>2. QED
    BY <1>5, <2>1
<1>7. \A j \in Ids : turn'[j] <= turns' /\ \A k \in DOMAIN news'[j] : news'[j][k].of <= turns'
  BY <1>1, <1>4, <1>6 DEF Numbered
<1>8. Head(news[i]).of <= turns
  BY <1>2, <1>3, <1>5
<1>9. turn[i] # 0 => LastNews(line, turn[i])
  BY <1>1, <1>2 DEF Ordered
<1>10. turn[i] # 0 /\ Head(news[i]).of = turn[i] => news'[i] = <<>>
  <2> SUFFICES ASSUME turn[i] # 0, line[1].of = turn[i] PROVE Tail(line) = <<>>
    BY <1>2, <1>3, <1>4
  <2>1. 1 \notin 1 .. Len(line) - 1
    BY <1>9 DEF LastNews
  <2>2. QED
    BY <1>3, <1>a, <2>1
<1>11. turn[i] # 0 /\ Tail(line) # <<>> => LastNews(Tail(line), turn[i])
  <2> SUFFICES ASSUME turn[i] # 0, Tail(line) # <<>> PROVE LastNews(Tail(line), turn[i])
    OBVIOUS
  <2>0. Len(line) # 1
    BY <1>a
  <2>1. PICK n \in Nat : n = Len(line) - 1 /\ n > 0
    <3>1. Len(line) - 1 \in Nat /\ Len(line) - 1 > 0
      BY <1>3, <2>0
    <3>2. QED
      BY <3>1
  <2>2. Tail(line)[n] = line[Len(line)]
    BY <1>3, <2>1
  <2>3. \A k \in 1 .. n - 1 : Tail(line)[k] = line[k + 1] /\ k + 1 \in 1 .. Len(line) - 1
    BY <1>3, <2>1
  <2>4. QED
    BY <1>3, <1>9, <2>1, <2>2, <2>3 DEF LastNews
<1>12. Ordered'
  <2>1. \A j \in Ids : LastNews(news[j], turn[j])' <=> LastNews(news'[j], turn'[j])
    BY DEF LastNews
  <2>2. QED
    BY <1>1, <1>4, <1>11, <2>1 DEF Ordered
<1>13. QED
  BY <1>4, <1>7, <1>8, <1>10, <1>12

LEMMA Drops ==
  ASSUME IInv, SInv, NEW i \in Ids, Drop(i)
  PROVE  SInv'
<1>1. /\ news[i] # <<>> /\ news' = [news EXCEPT ![i] = Tail(news[i])]
      /\ UNCHANGED <<table, sessionVars, lockVars, req, threads, subscribed, turn, turns, historyVars>>
      /\ \A r \in Requests : Informed(r) /\ req[r] \in Request
  BY DEF Drop, IInv, TypeOK
<1>2. /\ Ordered' /\ \A j \in Ids \ {i} : news'[j] = news[j]
      /\ \A j \in Ids : turn'[j] <= turns' /\ \A k \in DOMAIN news'[j] : news'[j][k].of <= turns'
  BY <1>1, TakenOrder
<1>3. /\ \A r \in Requests : Kept(r)' /\ Sole(r)' /\ Detached(r)' /\ Announced(r)' /\ Aimed(r)' /\ Stopped(r)'
      /\ OneId' /\ Backed' /\ \A a, j : Knows(a, j)' <=> Knows(a, j)
  BY <1>1, TurnFrame DEF historyVars
<1>4. Coming' /\ Numbered' /\ \A r \in Requests : Vacated(r)'
  BY <1>1, <1>2, <1>3 DEF SInv, Coming, Numbered, NotMade, Vacated, At, Kind, Mine, sessionVars, historyVars
<1>5. Shown'
  BY <1>1, <1>2, <1>3 DEF SInv, Shown, sessionVars, historyVars
<1>6. QED
  BY <1>2, <1>3, <1>4, <1>5 DEF SInv

\* The notification of a running turn's start is the last, and makes it the session's.
LEMMA Delivers ==
  ASSUME IInv, SInv, NEW i \in Ids, Deliver(i)
  PROVE  SInv'
<1>1. /\ news[i] # <<>> /\ news' = [news EXCEPT ![i] = Tail(news[i])]
      /\ UNCHANGED <<table, lockVars, req, threads, subscribed, turn, turns>>
      /\ \A r \in Requests : Informed(r) /\ req[r] \in Request
      /\ active \in [Arcs -> Turns] /\ seen \in [Arcs -> SUBSET Turns]
      /\ table \in [Ids -> Arcs \union {Nobody}]
  BY DEF Deliver, IInv, TypeOK, ObjectTypes, HistoryTypes, TableTypes
<1>b. PICK n : n = Head(news[i]).of
  OBVIOUS
<1>2. PICK a \in Arcs :
        /\ a = table[i] /\ n = Head(news[i]).of /\ delivery[a] = Nobody
        /\ \/ active' = [active EXCEPT ![a] = n] /\ seen' = [seen EXCEPT ![a] = seen[a] \union {n}]
           \/ active' = [active EXCEPT ![a] = IF @ = n THEN 0 ELSE @] /\ seen' = seen
  BY <1>1, <1>b DEF Deliver, Owned
<1>3. /\ Ordered' /\ \A j \in Ids \ {i} : news'[j] = news[j]
      /\ \A j \in Ids : turn'[j] <= turns' /\ \A k \in DOMAIN news'[j] : news'[j][k].of <= turns'
      /\ n <= turns /\ (turn[i] # 0 /\ n = turn[i] => news'[i] = <<>>)
  BY <1>1, <1>2, TakenOrder
<1>4. /\ \A b \in Arcs : seen[b] \subseteq seen'[b]
      /\ \A b \in Arcs \ {a} : seen'[b] = seen[b] /\ active'[b] = active[b]
      /\ seen'[a] = seen[a] \/ (seen'[a] = seen[a] \union {n} /\ active'[a] = n)
  BY <1>1, <1>2
<1>5. /\ \A r \in Requests : Kept(r)' /\ Sole(r)' /\ Detached(r)' /\ Announced(r)' /\ Aimed(r)' /\ Stopped(r)'
      /\ OneId' /\ Backed' /\ \A b, j : Knows(b, j)' <=> Knows(b, j)
  BY <1>1, <1>4, TurnFrame
<1>6. Knows(a, i)
  BY <1>2 DEF Knows
<1>7. Numbered'
  <2>1. \A b \in Arcs : \A t \in seen'[b] : t \in seen[b] \/ t = n
    BY <1>4
  <2>2. \A b \in Arcs : \A t \in seen[b] : t <= turns
    BY DEF SInv, Numbered
  <2>3. \A b \in Arcs : \A t \in seen'[b] : t <= turns'
    BY <1>1, <1>3, <2>1, <2>2
  <2>4. QED
    BY <1>3, <2>3 DEF Numbered
<1>8. Coming'
  <2>1. \A r \in Requests : NotMade(r)' <=> NotMade(r)
    BY <1>1 DEF NotMade, Kind
  <2>2. \A r \in Requests : NotMade(r) => r # a /\ r \in Arcs
    BY <1>6 DEF SInv, Coming
  <2>3. QED
    BY <1>4, <1>5, <2>1, <2>2 DEF SInv, Coming
<1>9. \A r \in Requests : Vacated(r)'
  <2> SUFFICES ASSUME NEW r \in Requests, At(r, "detach") PROVE active'[Mine(r)] = 0
    BY <1>1 DEF Vacated, At, Mine
  <2>1. Mine(r) \in Arcs /\ delivery[Mine(r)] = r /\ active[Mine(r)] = 0
    BY DEF SInv, Kept, Vacated, Holding, Holds, Rejoins, At
  <2>2. QED
    BY <1>2, <1>4, <2>1
<1>10. Shown'
  <2> SUFFICES ASSUME NEW b \in Arcs, NEW j \in Ids, Knows(b, j), NEW t \in seen'[b] \ {0}, turn[j] = t
               PROVE  active'[b] = t /\ news'[j] = <<>>
    BY <1>1, <1>5 DEF Shown
  <2>1. b = a => j = i
    BY <1>6 DEF SInv, OneId
  <2>2. CASE t \in seen[b]
    <3>1. active[b] = t /\ news[j] = <<>>
      BY <2>2 DEF SInv, Shown
    <3>2. QED
      BY <1>1, <1>3, <1>4, <2>1, <3>1
  <2>3. CASE t \notin seen[b]
    <3>1. b = a /\ t = n /\ active'[a] = n
      BY <1>4, <2>3
    <3>2. QED
      BY <1>3, <2>1, <3>1
  <2>4. QED
    BY <2>2, <2>3
<1>11. QED
  BY <1>3, <1>5, <1>7, <1>8, <1>9, <1>10 DEF SInv

\* Before anything happens.
LEMMA InitialPromises == Init => SInv
<1> SUFFICES ASSUME Init PROVE SInv
  OBVIOUS
<1>a. Nobody \notin Arcs /\ Opened \subseteq Ids /\ Opened \subseteq Arcs
  BY LifecycleAssumption DEF Arcs
<1>1. \A r \in Requests :
        /\ req[r].pc = "idle" /\ req[r].kind = "none" /\ req[r].id = Nobody /\ req[r].mine = Nobody
        /\ req[r].aim = 0 /\ req[r].goal = {}
  BY DEF Init, Idle, Task
<1>2. /\ \A i \in Ids : turn[i] = 0 /\ news[i] = <<>> /\ table[i] \in {i, Nobody}
      /\ \A i \in Ids : table[i] = i => i \in threads
      /\ \A a \in Arcs : seen[a] = {}
      /\ turns = 0
  BY <1>a, LifecycleAssumption DEF Init
<1>3. \A r \in Requests :
        Kept(r) /\ Sole(r) /\ Detached(r) /\ Announced(r) /\ Aimed(r) /\ Stopped(r) /\ Vacated(r)
  BY <1>1 DEF Kept, Holding, Holds, Rejoins, Closes, Sole, Rejoining, Detached, Announced, Aimed,
     Stopped, Vacated, At, Kind, Mine, Goal
<1>4. \A a \in Arcs, i \in Ids : Knows(a, i) => a = i /\ table[i] = i
  BY <1>a, <1>1, <1>2 DEF Knows, Uses, Mine
<1>5. OneId /\ Backed /\ Shown
  BY <1>2, <1>4 DEF OneId, Backed, Shown
<1>6. Coming
  <2>1. \A r \in Requests : r \in Arcs /\ r \notin Ids
    BY LifecycleAssumption DEF Arcs
  <2>2. QED
    BY <1>2, <1>4, <2>1 DEF Coming
<1>7. Numbered
  <2>1. \A i \in Ids : turn[i] <= turns /\ \A k \in DOMAIN news[i] : news[i][k].of <= turns
    BY <1>2
  <2>2. QED
    BY <1>2, <2>1 DEF Numbered
<1>8. Ordered
  BY <1>2 DEF Ordered
<1>9. QED
  BY <1>3, <1>5, <1>6, <1>7, <1>8 DEF SInv

LEMMA StutterPromises == SInv /\ UNCHANGED vars => SInv'
<1> SUFFICES ASSUME SInv, UNCHANGED vars PROVE SInv'
  OBVIOUS
<1>1. UNCHANGED <<table, sessionVars, lockVars, req, threads, subscribed, turn, turns, news, historyVars>>
  BY DEF vars, backendVars
<1>2. \A r \in Requests :
        Kept(r)' /\ Sole(r)' /\ Detached(r)' /\ Announced(r)' /\ Aimed(r)' /\ Stopped(r)' /\ Vacated(r)'
  <2> SUFFICES ASSUME NEW r \in Requests
               PROVE  /\ Kept(r)' /\ Sole(r)' /\ Detached(r)' /\ Announced(r)' /\ Aimed(r)' /\ Stopped(r)'
                      /\ Vacated(r)'
    OBVIOUS
  <2>1. Kept(r)' /\ Sole(r)' /\ Detached(r)'
    BY <1>1 DEF SInv, Kept, Holding, Holds, Sole, Detached, At, Kind, Id, Mine, lockVars
  <2>2. Announced(r)' /\ Aimed(r)' /\ Stopped(r)' /\ Vacated(r)'
    BY <1>1 DEF SInv, Announced, Aimed, Stopped, Vacated, At, Kind, Id, Mine, Goal, Aim, sessionVars, historyVars
  <2>3. QED
    BY <2>1, <2>2
<1>3. \A a, i : Knows(a, i)' <=> Knows(a, i)
  BY <1>1 DEF Knows, Uses, At, Mine, Id
<1>4. \A r : NotMade(r)' <=> NotMade(r)
  BY <1>1 DEF NotMade, Kind
<1>5. OneId' /\ Backed' /\ Coming'
  BY <1>1, <1>3, <1>4 DEF SInv, OneId, Backed, Coming, historyVars
<1>6. Numbered' /\ Ordered' /\ Shown'
  BY <1>1, <1>3 DEF SInv, Numbered, Ordered, LastNews, Shown, sessionVars, historyVars
<1>7. QED
  BY <1>2, <1>5, <1>6 DEF SInv

\* Both invariants hold together: what the requests know of their sessions, and what a
\* teardown, a resume and a cancellation have made sure of at each of their steps
\* (lifecycle.rs 85-256 and 330-430, controls.rs 26-118).
THEOREM PromisesKept == Spec => [](IInv /\ SInv)
<1>1. Init => SInv
  BY InitialPromises
<1>2. IInv /\ SInv /\ [Next]_vars => SInv'
  BY RequestPromises, BeginPromises, Starts, Ends, Drops, Delivers, StutterPromises DEF Next
<1>3. QED
  BY <1>1, <1>2, InvariantHolds, PTL DEF Spec

\* close, delete and archive (lifecycle.rs 354-405, extension_requests.rs 182-300): a request
\* that takes the session object it has itself closed off the table leaves the session
\* detached at the backend, with nothing running that its client had seen.  A request that
\* removes by name another object than it has closed (lifecycle.rs:374) is not spoken of.
THEOREM TearsDown == Spec => TornDown
<1>1. ASSUME IInv /\ SInv, NEW r \in Requests, Remove(r), table[Id(r)] = Mine(r)
      PROVE  Id(r) \notin subscribed /\ turn[Id(r)] \notin Goal(r) \ {0}
  BY <1>1 DEF SInv, Detached, Stopped, Closes, Remove, At
<1>2. IInv /\ SInv /\ [Next]_vars =>
        [\A r \in Requests :
           (Remove(r) /\ table[Id(r)] = Mine(r)) =>
             /\ Id(r) \notin subscribed
             /\ turn[Id(r)] \notin Goal(r) \ {0}]_vars
  BY <1>1
<1>3. QED
  BY <1>2, PromisesKept, PTL DEF Spec, TornDown

\* resume (lifecycle.rs 177-215): what it detaches from the backend is vacant, and stays so
\* until it has: no running turn that was announced to the session is taken from it.
THEOREM SparesForeground == Spec => ResumeSparesForeground
<1>1. ASSUME IInv /\ SInv, NEW r \in Requests, Detach(r)
      PROVE  turn[Id(r)] \notin seen[Mine(r)] \ {0}
  <2>1. At(r, "detach") /\ Kept(r) /\ Vacated(r) /\ Informed(r) /\ Shown
    BY <1>1 DEF IInv, SInv, Detach
  <2>2. Mine(r) \in Arcs /\ Id(r) \in Ids /\ Mine(r) # Nobody /\ active[Mine(r)] = 0
    BY <2>1 DEF Kept, Holding, Holds, Rejoins, Vacated, Informed, At
  <2>3. Knows(Mine(r), Id(r))
    BY <2>1, <2>2 DEF Knows, Uses, At
  <2>4. QED
    BY <2>1, <2>2, <2>3 DEF Shown
<1>2. IInv /\ SInv /\ [Next]_vars =>
        [\A r \in Requests : Detach(r) => turn[Id(r)] \notin seen[Mine(r)] \ {0}]_vars
  BY <1>1
<1>3. QED
  BY <1>2, PromisesKept, PTL DEF Spec, ResumeSparesForeground

\* The two ways a cancellation is answered with success.
LEMMA CancelAnswers ==
  ASSUME IInv, SInv, NEW r \in Requests, Kind(r) = "cancel", RequestStep(r), req'[r].answer = "ok"
  PROVE  (At(r, "interrupt") /\ active[Mine(r)] = 0) \/ (At(r, "settle") /\ Settled(r))
<1> USE DEF At, Fail
<1>a. TypeOK /\ CreationHeld(r) /\ Kept(r) /\ req[r].answer = "none"
  BY DEF IInv, SInv, Kept
<1>b. ~Fail(r)
  BY <1>a, FinishTask
<1>c. \A step : ~Goto(r, step)
  BY <1>a, GotoTask DEF Moved
<1>d. \A step, k, i, a, t, g : ~Become(r, Task(step, k, i, a, t, g))
  BY <1>a, BecomeTask
<1>1. CASE TakeCreation(r)
  BY <1>a, <1>b, <1>c, <1>d, <1>1 DEF TakeCreation, Proceed, Find, Note, Attempt, Cancelled
<1>2. CASE Limit(r)
  BY <1>a, <1>b, <1>c, <1>d, <1>2 DEF Limit, Proceed, Find, Note, Attempt, Cancelled
<1>3. CASE Setup(r)
  BY <1>a, <1>b, <1>c, <1>d, <1>3 DEF Setup, Proceed, Find, Note, Attempt, Cancelled
<1>4. CASE Register(r)
  BY <1>a, <1>b, <1>c, <1>d, <1>4 DEF Register, CreationHeld, Creators
<1>5. CASE Read(r)
  BY <1>a, <1>b, <1>c, <1>d, <1>5 DEF Read, Proceed, Find, Note, Attempt, Cancelled
<1>6. CASE Adopt(r)
  BY <1>a, <1>b, <1>c, <1>d, <1>6 DEF Adopt, Proceed, Find, Note, Attempt, Cancelled
<1>7. CASE Synchronize(r)
  BY <1>a, <1>b, <1>c, <1>d, <1>7 DEF Synchronize, Proceed, Find, Note, Attempt, Cancelled
<1>8. CASE TakeDelivery(r)
  BY <1>a, <1>b, <1>c, <1>d, <1>8 DEF TakeDelivery, Proceed, Find, Note, Attempt, Cancelled
<1>9. CASE Vacant(r)
  BY <1>a, <1>b, <1>c, <1>d, <1>9 DEF Vacant, Proceed, Find, Note, Attempt, Cancelled
<1>10. CASE Detach(r)
  BY <1>a, <1>b, <1>c, <1>d, <1>10 DEF Detach, Proceed, Find, Note, Attempt, Cancelled
<1>11. CASE Shut(r)
  BY <1>a, <1>b, <1>c, <1>d, <1>11 DEF Shut, Proceed, Find, Note, Attempt, Cancelled
<1>12. CASE Rejoin(r)
  BY <1>a, <1>b, <1>c, <1>d, <1>12 DEF Rejoin, Proceed, Find, Note, Attempt, Cancelled
<1>13. CASE Withdraw(r)
  BY <1>a, <1>b, <1>c, <1>d, <1>13 DEF Withdraw, Proceed, Find, Note, Attempt, Cancelled
<1>14. CASE Reopen(r)
  BY <1>a, <1>b, <1>c, <1>d, <1>14 DEF Reopen, Proceed, Find, Note, Attempt, Cancelled
<1>15. CASE Replay(r)
  BY <1>a, <1>b, <1>c, <1>d, <1>15 DEF Replay, Kept, Rejoins, Proceed
<1>16. CASE Leave(r)
  BY <1>a, <1>b, <1>c, <1>d, <1>16 DEF Leave, Proceed, Find, Note, Attempt, Cancelled
<1>17. CASE TakeAdmission(r)
  BY <1>a, <1>b, <1>c, <1>d, <1>17 DEF TakeAdmission, Proceed, Find, Note, Attempt, Cancelled
<1>18. CASE Turn(r)
  BY <1>a, <1>b, <1>c, <1>d, <1>18 DEF Turn, Note, Kept
<1>19. CASE Record(r)
  BY <1>a, <1>b, <1>c, <1>d, <1>19 DEF Record, Kept
<1>20. CASE Which(r)
  BY <1>a, <1>b, <1>c, <1>d, <1>20 DEF Which, Proceed, Find, Note, Attempt, Cancelled
<1>21. CASE BeginClosing(r)
  BY <1>a, <1>b, <1>c, <1>d, <1>21 DEF BeginClosing, Proceed, Find, Note, Attempt, Cancelled
<1>22. CASE Interrupt(r)
  BY <1>a, <1>b, <1>c, <1>d, <1>22 DEF Interrupt, Note, Cancelled, Proceed
<1>23. CASE Interrupting(r)
  BY <1>a, <1>b, <1>c, <1>d, <1>23 DEF Interrupting, Proceed, Find, Note, Attempt, Cancelled
<1>24. CASE Settle(r)
  BY <1>a, <1>b, <1>c, <1>d, <1>24 DEF Settle, Cancelled, Proceed
<1>25. CASE Clean(r)
  BY <1>a, <1>b, <1>c, <1>d, <1>25 DEF Clean, Proceed, Find, Note, Attempt, Cancelled
<1>26. CASE Unsubscribe(r)
  BY <1>a, <1>b, <1>c, <1>d, <1>26 DEF Unsubscribe, Proceed, Find, Note, Attempt, Cancelled
<1>27. CASE Archive(r)
  BY <1>a, <1>b, <1>c, <1>d, <1>27 DEF Archive, Proceed
<1>28. CASE Shutdown(r)
  BY <1>a, <1>b, <1>c, <1>d, <1>28 DEF Shutdown, Proceed, Find, Note, Attempt, Cancelled
<1>29. CASE Remove(r)
  BY <1>a, <1>b, <1>c, <1>d, <1>29 DEF Remove, Kept, Closes
<1>30. CASE Lookup(r)
  BY <1>a, <1>b, <1>c, <1>d, <1>30 DEF Lookup, Proceed, Find, Note, Attempt, Cancelled
<1>31. CASE TakeGate(r)
  BY <1>a, <1>b, <1>c, <1>d, <1>31 DEF TakeGate, Proceed, Find, Note, Attempt, Cancelled
<1>32. CASE Check(r)
  BY <1>a, <1>b, <1>c, <1>d, <1>32 DEF Check, Proceed, Find, Note, Attempt, Cancelled
<1>33. QED
  BY <1>1, <1>2, <1>3, <1>4, <1>5, <1>6, <1>7, <1>8, <1>9, <1>10, <1>11, <1>12, <1>13, <1>14, <1>15, <1>16, <1>17, <1>18, <1>19, <1>20, <1>21, <1>22, <1>23, <1>24, <1>25, <1>26, <1>27, <1>28, <1>29, <1>30, <1>31, <1>32
  DEF RequestStep, CreationStep, ResumeStep, PromptStep, CloseStep

\* cancel (controls.rs 26-118): when it succeeds, nothing its client had seen running when it
\* asked still runs.
THEOREM CancelsForeground == Spec => CancelReaches
<1>1. ASSUME IInv /\ SInv, [Next]_vars, NEW r \in Requests, Kind(r) = "cancel", req'[r].answer = "ok"
      PROVE  turn[Id(r)] \notin Goal(r) \ {0}
  <2>a. TypeOK /\ Kept(r) /\ Aimed(r) /\ Informed(r)
    BY <1>1 DEF IInv, SInv
  <2>1. req[r].answer = "none" /\ req[r].pc \notin {"idle", "done"}
    BY <1>1, <2>a DEF Kept
  <2>2. req' # req
    BY <1>1, <2>1
  <2>3. ~UNCHANGED vars /\ \A i \in Ids : ~TurnEnds(i) /\ ~TurnStarts(i) /\ ~Deliver(i) /\ ~Drop(i)
    BY <2>2 DEF vars, TurnEnds, TurnStarts, Deliver, Drop
  <2>4. \A q \in Requests, k \in AllKinds, i \in Ids \union {Nobody} : ~Begin(q, k, i)
    <3> SUFFICES ASSUME NEW q \in Requests, NEW k \in AllKinds, NEW i \in Ids \union {Nobody}, Begin(q, k, i)
                 PROVE  FALSE
      OBVIOUS
    <3>1. q # r
      BY <2>1 DEF Begin, At
    <3>2. req'[r] = req[r]
      BY <2>a, <3>1 DEF Begin, Become, TypeOK
    <3>3. QED
      BY <1>1, <2>1, <3>2
  <2>5. \A q \in Requests \ {r} : ~RequestStep(q)
    <3> SUFFICES ASSUME NEW q \in Requests \ {r}, RequestStep(q) PROVE FALSE
      OBVIOUS
    <3>1. Only(q)
      BY <1>1, KnowledgeStep
    <3>2. QED
      BY <1>1, <2>1, <3>1 DEF Only
  <2>6. RequestStep(r)
    BY <1>1, <2>3, <2>4, <2>5 DEF Next
  <2>7. (At(r, "interrupt") /\ active[Mine(r)] = 0) \/ (At(r, "settle") /\ Settled(r))
    BY <1>1, <2>6, CancelAnswers
  <2>8. Mine(r) \in Arcs /\ Id(r) \in Ids /\ ~At(r, "register")
    BY <2>a, <2>7 DEF Kept, Informed, At
  <2>9. \A t \in Goal(r) \ {0} : turn[Id(r)] = t => active[Mine(r)] = t
    BY <1>1, <2>8, OneRuns
  <2>10. QED
    BY <2>a, <2>7, <2>9 DEF Aimed, Settled, At
<1>2. IInv /\ SInv /\ [Next]_vars =>
        [\A r \in Requests :
           Kind(r) = "cancel" /\ req'[r].answer = "ok" => turn[Id(r)] \notin Goal(r) \ {0}]_vars
  BY <1>1
<1>3. QED
  BY <1>2, PromisesKept, PTL DEF Spec, CancelReaches

=============================================================================
