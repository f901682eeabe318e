-------------------------- MODULE GngControl_proofs --------------------------
(***************************************************************************)
(* Proofs about GngControl: its type invariant, what the locks exclude,    *)
(* and the promise of pause, that a client which saw the algorithm running *)
(* and paused it finds the worker at rest and sets it going again.         *)
(***************************************************************************)
EXTENDS GngControl, TLAPS

(* How often each thread holds each lock, by where it is; and s is below    *)
(* m_lambda inside the body of the loop that counts it.                     *)
LockPositions ==
  /\ db["worker"] = IF wpc \in {"seedLock", "seeding", "adaptLock", "adapt"}
                    THEN 1 ELSE 0
  /\ graph["worker"] = IF wpc \in {"seeding", "adapt", "grow"} THEN 1 ELSE 0
  /\ db["client"] = IF cpc = "dbHeld" THEN 1 ELSE 0
  /\ cpc = "graphHeld" => graph["client"] > 0

CountBelowLambda == wpc \in {"adaptLock", "adapt"} => s < Lambda

LockInv == TypeOK /\ LockPositions /\ CountBelowLambda

-----------------------------------------------------------------------------
PauseLabels == {"pauseTest", "pauseSet", "pauseNotify", "pauseWait",
                "pauseAgain"}
RunLabels   == {"serverRun", "runTerm", "runTest", "runSet", "runNotify",
                "runWait"}
TermLabels  == {"termTest", "termSet", "termNotify", "termWait", "termAgain"}
NotStarted  == {"none", "start", "startStatus"}
GateLabels  == {"gate", "gateStatus", "gatePark", "gateWait"}

(* Which operation the client is in, and where it will return to. *)
CallShape ==
  /\ cpc \in PauseLabels \cup {"sample"} =>
       /\ op \in {"pause", "save", "saveFailing", "getClustering"}
       /\ ret = Return(op)
  /\ cpc \in RunLabels => ret = "idle" /\ op # "pause"
  /\ cpc = "serverRun" => op \in {"run", "insert"}
  /\ cpc \in TermLabels => op \in {"terminate", "destroy"} /\ ret = Return(op)
  /\ cpc = "saveCheck" => op \in {"save", "saveFailing"}
  /\ cpc \in {"dbLock", "dbHeld"} =>
       op \in {"getClustering", "updateClustering", "insert"}
  /\ cpc \in {"dbLock", "dbHeld"} /\ op = "insert" => ret = "idle"
  /\ cpc = "insertRun" => op = "insert" /\ ret = "idle"

(* A thread that has not set the status yet is a terminated algorithm, and  *)
(* run does not get past its first test then.                               *)
StartShape ==
  /\ wpc \in NotStarted => status = "TERMINATED"
  /\ cpc \in {"runTest", "runSet"} => wpc \notin NotStarted

(* What the status says of where a worker that has started is. *)
StatusShape ==
  status # "RUNNING" /\ wpc \notin NotStarted =>
    wpc \in GateLabels \cup {"gateTerm", "resume", "finish", "done"}

(* A status PAUSED that is about to be left was left for a reason, and a    *)
(* client about to ask for a pause does not undo that.                      *)
PauseHeld ==
  /\ status = "PAUSED" /\ wpc \in {"gateTerm", "resume"} => request # "PAUSED"
  /\ status = "PAUSED" /\ cpc \in {"pauseSet", "pauseAgain"} =>
       request = "PAUSED" /\ wpc \in GateLabels

(* run clears a pause request only after the worker has acted on it. *)
RunAfterPause ==
  /\ status = "TERMINATED" /\ cpc \in {"runTest", "runSet"} =>
       request # "PAUSED" \/ wpc \in {"finish", "done"}
  /\ status = "RUNNING" /\ cpc = "runSet" => request # "PAUSED"

(* Only a terminate can come between the two reads of the request. *)
SecondRead ==
  status = "RUNNING" /\ wpc = "gateStatus" /\ cpc \notin TermLabels =>
    request = "PAUSED"

(* The worker has stopped because of a pause request, or for good. *)
Halted ==
  \/ request = "PAUSED" /\ status = "PAUSED" /\ wpc \in GateLabels
  \/ wpc = "done" /\ status = "TERMINATED"

StillRunning ==
  status = "RUNNING" /\ (wpc = "gateStatus" => request = "PAUSED")

(* The course of a pause, save or get_clustering that found the algorithm   *)
(* running: it runs until it halts, it is halted between the return of      *)
(* pause and the resume, and then it is asked to run.                       *)
Quiescing == was /\ cpc \in PauseLabels => StillRunning \/ Halted

Quiescent ==
  /\ was /\ dbsize > 2
  /\ \/ PausedRegion
     \/ op \in {"save", "getClustering"} /\ cpc \in {"runTerm", "runTest", "runSet"}
  => Halted

Resumed ==
  /\ was /\ dbsize > 2
  /\ op \in {"save", "getClustering"} /\ cpc \in {"runNotify", "runWait", "idle"}
  => request # "PAUSED" \/ (wpc = "done" /\ status = "TERMINATED")

FlagInv == StartShape /\ StatusShape /\ PauseHeld /\ RunAfterPause /\ SecondRead

CourseInv == Quiescing /\ Quiescent /\ Resumed

PauseInv == CallShape /\ FlagInv /\ CourseInv

-----------------------------------------------------------------------------
(* The locks.  Each step of either thread keeps LockInv.                    *)

LEMMA LockInvInit == Init => LockInv
<1> SUFFICES ASSUME Init PROVE LockInv
  OBVIOUS
<1>1. db \in [Threads -> Nat] /\ graph \in [Threads -> Nat]
  BY DEF Init
<1>2. LockPositions /\ CountBelowLambda
  BY DEF Init, LockPositions, CountBelowLambda, Threads
<1>3. nodes \in 0..2 /\ s \in 0..Lambda /\ iteration \in 0..IterCap
  BY SizesAssumption DEF SizesAssumption, Init
<1>4. dbsize \in Nat /\ calls \in Nat
  BY SizesAssumption DEF SizesAssumption, Init
<1> QED
  BY <1>1, <1>2, <1>3, <1>4
  DEF Init, LockInv, TypeOK, WorkerLabels, ClientLabels, Status, AllOps

LEMMA LockInvWorker == LockInv /\ (WorkerStep \/ SpuriousWakeup) => LockInv'
<1> SUFFICES ASSUME LockInv, WorkerStep \/ SpuriousWakeup PROVE LockInv'
  OBVIOUS
<1> USE SizesAssumption
    DEF SizesAssumption, LockInv, TypeOK, LockPositions, CountBelowLambda, WorkerLabels,
        Waiting, Batch, Ended, Status, Threads, Worker, Free, Locked,
        Released, flagVars, lockVars, dataVars, clientVars
<1>1. CASE StartRequest BY <1>1 DEF StartRequest
<1>2. CASE StartStatus BY <1>2 DEF StartStatus
<1>3. CASE Await BY <1>3 DEF Await
<1>4. CASE AwaitGate BY <1>4 DEF AwaitGate
<1>5. CASE AwaitInner BY <1>5 DEF AwaitInner
<1>6. CASE AwaitPark BY <1>6 DEF AwaitPark
<1>7. CASE InitGraph BY <1>7 DEF InitGraph
<1>8. CASE SeedDb BY <1>8 DEF SeedDb
<1>9. CASE SeedGraph BY <1>9 DEF SeedGraph
<1>10. CASE RandomInit BY <1>10 DEF RandomInit
<1>11. CASE LoopTop BY <1>11 DEF LoopTop
<1>12. CASE Gate BY <1>12 DEF Gate
<1>13. CASE GateStatus BY <1>13 DEF GateStatus
<1>14. CASE GatePark BY <1>14 DEF GatePark
<1>15. CASE GateTerm BY <1>15 DEF GateTerm
<1>16. CASE Resume BY <1>16 DEF Resume
<1>17. CASE DrawExample BY <1>17 DEF DrawExample
<1>18. CASE AdaptLock BY <1>18 DEF AdaptLock
<1>19. CASE Adapt BY <1>19 DEF Adapt
<1>20. CASE EndBatch BY <1>20 DEF EndBatch
<1>21. CASE GrowLock BY <1>21 DEF GrowLock
<1>22. CASE Grow BY <1>22 DEF Grow
<1>23. CASE Finish BY <1>23 DEF Finish
<1>24. CASE SpuriousWakeup BY <1>24 DEF SpuriousWakeup
<1> QED
  BY <1>1, <1>2, <1>3, <1>4, <1>5, <1>6, <1>7, <1>8, <1>9, <1>10, <1>11,
     <1>12, <1>13, <1>14, <1>15, <1>16, <1>17, <1>18, <1>19, <1>20, <1>21,
     <1>22, <1>23, <1>24
  DEF WorkerStep
LEMMA LockInvClient ==
  LockInv /\ (ClientStep \/ \E o \in Ops : Call(o)) => LockInv'
<1> SUFFICES ASSUME LockInv, ClientStep \/ \E o \in Ops : Call(o)
             PROVE  LockInv'
  OBVIOUS
<1> USE DEF LockInv, TypeOK, LockPositions, CountBelowLambda, ClientLabels,
            WorkerLabels, Waiting, Batch, Ended, Status, Threads, Client,
            Goto, SetRequest, Notify, NotifyAll, Free, Locked, Released,
            flagVars, lockVars, dataVars, clientVars
<1>1. CASE RunTerm BY <1>1 DEF RunTerm
<1>2. CASE RunTest BY <1>2 DEF RunTest
<1>3. CASE RunSet BY <1>3 DEF RunSet
<1>4. CASE RunNotify BY <1>4 DEF RunNotify
<1>5. CASE RunWait BY <1>5 DEF RunWait
<1>6. CASE PauseTest BY <1>6 DEF PauseTest
<1>7. CASE PauseSet BY <1>7 DEF PauseSet
<1>8. CASE PauseNotify BY <1>8 DEF PauseNotify
<1>9. CASE PauseWait BY <1>9 DEF PauseWait
<1>10. CASE PauseAgain BY <1>10 DEF PauseAgain
<1>11. CASE TermTest BY <1>11 DEF TermTest
<1>12. CASE TermSet BY <1>12 DEF TermSet
<1>13. CASE TermNotify BY <1>13 DEF TermNotify
<1>14. CASE TermWait BY <1>14 DEF TermWait
<1>15. CASE TermAgain BY <1>15 DEF TermAgain
<1>16. CASE Sample BY <1>16 DEF Sample
<1>17. CASE CreateThread BY <1>17 DEF CreateThread
<1>18. CASE ServerRun BY <1>18 DEF ServerRun
<1>19. CASE SaveCheck BY <1>19 DEF SaveCheck
<1>20. CASE LockGraph BY <1>20 DEF LockGraph
<1>21. CASE SaveDone
  <2>1. cpc' \in {"runTerm", "idle"}
    BY <1>21 DEF SaveDone
  <2>2. graph' \in [Threads -> Nat] /\ graph'["worker"] = graph["worker"]
    BY <1>21 DEF SaveDone
  <2> QED
    BY <1>21, <2>1, <2>2 DEF SaveDone
<1>22. CASE NodeRead BY <1>22 DEF NodeRead
<1>23. CASE LockDb BY <1>23 DEF LockDb
<1>24. CASE Clustered BY <1>24 DEF Clustered
<1>25. CASE InsertRun BY <1>25 DEF InsertRun
<1>26. CASE Join BY <1>26 DEF Join
<1>27. ASSUME NEW n \in Inserted, Insert(n) PROVE LockInv'
  BY <1>27, SizesAssumption DEF Insert, SizesAssumption
<1>28. ASSUME NEW o \in Ops, Call(o) PROVE LockInv'
  <2>1. o \in AllOps
    BY OpsAssumption DEF OpsAssumption
  <2>2. Entry(o) \in ClientLabels \ {"dbHeld", "graphHeld"}
    BY <2>1 DEF Entry, AllOps
  <2>3. Return(o) \in {"idle", "join", "saveCheck", "dbLock"}
    BY DEF Return
  <2>4. calls' \in Nat
    BY <1>28 DEF Call
  <2>5. cpc' = Entry(o) /\ ret' = Return(o) /\ op' = o
    BY <1>28 DEF Call
  <2>6. sync' \in BOOLEAN /\ was' \in BOOLEAN
    BY <1>28 DEF Call
  <2>7. UNCHANGED <<wpc, flagVars, dataVars, dbsize, lockVars>>
    BY <1>28 DEF Call
  <2>8. cpc = "idle"
    BY <1>28 DEF Call
  <2> QED
    BY <2>1, <2>2, <2>3, <2>4, <2>5, <2>6, <2>7, <2>8
<1> QED
  BY <1>1, <1>2, <1>3, <1>4, <1>5, <1>6, <1>7, <1>8, <1>9, <1>10, <1>11,
     <1>12, <1>13, <1>14, <1>15, <1>16, <1>17, <1>18, <1>19, <1>20, <1>21,
     <1>22, <1>23, <1>24, <1>25, <1>26, <1>27, <1>28
  DEF ClientStep

LEMMA LockInvStep == LockInv /\ [Next]_vars => LockInv'
<1> SUFFICES ASSUME LockInv, [Next]_vars PROVE LockInv'
  OBVIOUS
<1>1. CASE WorkerStep \/ SpuriousWakeup
  BY <1>1, LockInvWorker
<1>2. CASE ClientStep \/ \E o \in Ops : Call(o)
  BY <1>2, LockInvClient
<1>3. CASE UNCHANGED vars
  BY <1>3 DEF LockInv, TypeOK, LockPositions, CountBelowLambda, vars, state,
              flagVars, lockVars, dataVars, clientVars
<1> QED BY <1>1, <1>2, <1>3 DEF Next

(* Every state reached is well typed; that the locks' counts stay naturals  *)
(* says that no thread unlocks a mutex it does not hold, and the bound on s *)
(* that no batch adapts to more than m_lambda examples.                     *)
THEOREM LocksWellUsed == Spec => []LockInv
<1>1. Init => LockInv
  BY LockInvInit
<1>2. LockInv /\ [Next]_vars => LockInv'
  BY LockInvStep
<1> QED BY <1>1, <1>2, PTL DEF Spec

(* Every flag, label, lock and counter of the protocol keeps its type. *)
THEOREM TypeCorrect == Spec => []TypeOK
<1>1. LockInv => TypeOK
  BY DEF LockInv
<1> QED BY <1>1, LocksWellUsed, PTL

(* A worker that is parked, spinning for data or ended holds no lock. *)
THEOREM RestingWorkerHoldsNothing == Spec => []RestHoldsNothing
<1>1. LockInv => RestHoldsNothing
  BY DEF LockInv, LockPositions, RestHoldsNothing, AtRest, Waiting, Ended
<1> QED BY <1>1, LocksWellUsed, PTL

-----------------------------------------------------------------------------
(* The two locks never deadlock, as long as no client asks for a node that  *)
(* does not exist: getNode leaves the graph locked then, and a client that  *)
(* holds it can go on to wait for the data set.                             *)

ClientUnlocksGraph ==
  /\ op # "getMissingNode"
  /\ graph["client"] = IF cpc = "graphHeld" THEN 1 ELSE 0

LEMMA ClientUnlocksGraphStep ==
  ASSUME "getMissingNode" \notin Ops
  PROVE  LockInv /\ ClientUnlocksGraph /\ [Next]_vars => ClientUnlocksGraph'
<1> SUFFICES ASSUME LockInv, ClientUnlocksGraph, [Next]_vars
             PROVE  ClientUnlocksGraph'
  OBVIOUS
<1> USE DEF ClientUnlocksGraph, LockInv, TypeOK, Threads, Locked, Released
<1>1. CASE WorkerStep
  <2>1. cpc' = cpc /\ op' = op
    BY <1>1 DEF WorkerStep, StartRequest, StartStatus, Await, AwaitGate,
       AwaitInner, AwaitPark, InitGraph, SeedDb, SeedGraph, RandomInit,
       LoopTop, Gate, GateStatus, GatePark, GateTerm, Resume, DrawExample,
       AdaptLock, Adapt, EndBatch, GrowLock, Grow, Finish, clientVars
  <2>2. graph' \in {graph, Locked(graph, "worker"), Released(graph, "worker")}
    BY <1>1 DEF WorkerStep, StartRequest, StartStatus, Await, AwaitGate,
       AwaitInner, AwaitPark, InitGraph, SeedDb, SeedGraph, RandomInit,
       LoopTop, Gate, GateStatus, GatePark, GateTerm, Resume, DrawExample,
       AdaptLock, Adapt, EndBatch, GrowLock, Grow, Finish, lockVars
  <2> QED BY <2>1, <2>2
<1>2. CASE SpuriousWakeup \/ UNCHANGED vars
  BY <1>2 DEF SpuriousWakeup, vars, state, lockVars, clientVars
<1>3. ASSUME NEW o \in Ops, Call(o) PROVE ClientUnlocksGraph'
  <2>1. o \in AllOps \ {"getMissingNode"}
    BY OpsAssumption DEF OpsAssumption
  <2>2. Entry(o) # "graphHeld"
    BY <2>1 DEF Entry, AllOps
  <2> QED BY <1>3, <2>1, <2>2 DEF Call, Client, lockVars
<1>4. CASE ClientStep
  <2> USE DEF Client, Goto, SetRequest, Notify, lockVars
  <2>1. ret # "graphHeld"
    OBVIOUS
  <2>2. CASE RunTerm BY <2>1, <2>2 DEF RunTerm
  <2>3. CASE RunTest BY <2>1, <2>3 DEF RunTest
  <2>4. CASE RunSet BY <2>1, <2>4 DEF RunSet
  <2>5. CASE RunNotify BY <2>1, <2>5 DEF RunNotify
  <2>6. CASE RunWait BY <2>1, <2>6 DEF RunWait
  <2>7. CASE PauseTest BY <2>1, <2>7 DEF PauseTest
  <2>8. CASE PauseSet BY <2>1, <2>8 DEF PauseSet
  <2>9. CASE PauseNotify BY <2>1, <2>9 DEF PauseNotify
  <2>10. CASE PauseWait BY <2>1, <2>10 DEF PauseWait
  <2>11. CASE PauseAgain BY <2>1, <2>11 DEF PauseAgain
  <2>12. CASE TermTest BY <2>1, <2>12 DEF TermTest
  <2>13. CASE TermSet BY <2>1, <2>13 DEF TermSet
  <2>14. CASE TermNotify BY <2>1, <2>14 DEF TermNotify
  <2>15. CASE TermWait BY <2>1, <2>15 DEF TermWait
  <2>16. CASE TermAgain BY <2>1, <2>16 DEF TermAgain
  <2>17. CASE Sample BY <2>1, <2>17 DEF Sample
  <2>18. CASE CreateThread BY <2>1, <2>18 DEF CreateThread
  <2>19. CASE ServerRun BY <2>1, <2>19 DEF ServerRun
  <2>20. CASE SaveCheck BY <2>1, <2>20 DEF SaveCheck
  <2>21. CASE LockGraph BY <2>1, <2>21 DEF LockGraph
  <2>22. CASE SaveDone BY <2>1, <2>22 DEF SaveDone
  <2>23. CASE NodeRead BY <2>1, <2>23 DEF NodeRead
  <2>24. CASE LockDb BY <2>1, <2>24 DEF LockDb
  <2>25. CASE Clustered BY <2>1, <2>25 DEF Clustered
  <2>26. CASE InsertRun BY <2>1, <2>26 DEF InsertRun
  <2>27. CASE Join BY <2>1, <2>27 DEF Join
  <2>28. ASSUME NEW n \in Inserted, Insert(n) PROVE ClientUnlocksGraph'
    BY <2>28 DEF Insert
  <2> QED
    BY <1>4, <2>2, <2>3, <2>4, <2>5, <2>6, <2>7, <2>8, <2>9, <2>10, <2>11,
       <2>12, <2>13, <2>14, <2>15, <2>16, <2>17, <2>18, <2>19, <2>20, <2>21,
       <2>22, <2>23, <2>24, <2>25, <2>26, <2>27, <2>28
    DEF ClientStep
<1> QED BY <1>1, <1>2, <1>3, <1>4 DEF Next

(* Neither thread waits for a lock the other holds while holding one the    *)
(* other waits for, provided that getNode is only asked for nodes that      *)
(* exist.                                                                   *)
THEOREM LocksNeverDeadlock ==
  ASSUME "getMissingNode" \notin Ops
  PROVE  Spec => []NoCircularWait
<1>1. Init => ClientUnlocksGraph
  BY DEF Init, ClientUnlocksGraph, Threads
<1>2. LockInv /\ ClientUnlocksGraph /\ [Next]_vars => ClientUnlocksGraph'
  BY ClientUnlocksGraphStep
<1>3. LockInv /\ ClientUnlocksGraph => NoCircularWait
  BY DEF LockInv, LockPositions, ClientUnlocksGraph, NoCircularWait, Holds,
         WaitsFor
<1> QED BY <1>1, <1>2, <1>3, LocksWellUsed, PTL DEF Spec

-----------------------------------------------------------------------------
(* The flags.  The three parts of PauseInv are preserved one after the      *)
(* other: CallShape by itself, FlagInv given CallShape, CourseInv given     *)
(* both.                                                                    *)

LEMMA PauseInvInit == Init => PauseInv
  BY DEF Init, PauseInv, CallShape, FlagInv, StartShape, StatusShape,
     PauseHeld, RunAfterPause, SecondRead, CourseInv, Quiescing, Quiescent,
     Resumed, PauseLabels, RunLabels, TermLabels, NotStarted

(* A worker's step is none of the client's business, and a client's step    *)
(* moves the worker only out of a wait.                                     *)
LEMMA WorkerLeavesClient ==
  WorkerStep \/ SpuriousWakeup \/ UNCHANGED vars => UNCHANGED clientVars
  BY DEF WorkerStep, StartRequest, StartStatus, Await, AwaitGate,
     AwaitInner, AwaitPark, InitGraph, SeedDb, SeedGraph, RandomInit,
     LoopTop, Gate, GateStatus, GatePark, GateTerm, Resume, DrawExample,
     AdaptLock, Adapt, EndBatch, GrowLock, Grow, Finish, SpuriousWakeup, vars, state

LEMMA CallShapeStep == LockInv /\ CallShape /\ [Next]_vars => CallShape'
<1> SUFFICES ASSUME LockInv, CallShape, [Next]_vars PROVE CallShape'
  OBVIOUS
<1> USE DEF CallShape, PauseLabels, RunLabels, TermLabels, Client, Goto,
            SetRequest, Notify
<1> USE DEF Return
<1>1. CASE RunTerm BY <1>1 DEF RunTerm
<1>2. CASE RunTest BY <1>2 DEF RunTest
<1>3. CASE RunSet BY <1>3 DEF RunSet
<1>4. CASE RunNotify BY <1>4 DEF RunNotify
<1>5. CASE RunWait BY <1>5 DEF RunWait
<1>6. CASE PauseTest BY <1>6 DEF PauseTest
<1>7. CASE PauseSet BY <1>7 DEF PauseSet
<1>8. CASE PauseNotify BY <1>8 DEF PauseNotify
<1>9. CASE PauseWait BY <1>9 DEF PauseWait
<1>10. CASE PauseAgain BY <1>10 DEF PauseAgain
<1>11. CASE TermTest BY <1>11 DEF TermTest
<1>12. CASE TermSet BY <1>12 DEF TermSet
<1>13. CASE TermNotify BY <1>13 DEF TermNotify
<1>14. CASE TermWait BY <1>14 DEF TermWait
<1>15. CASE TermAgain BY <1>15 DEF TermAgain
<1>16. CASE Sample BY <1>16 DEF Sample
<1>17. CASE CreateThread BY <1>17 DEF CreateThread
<1>18. CASE ServerRun BY <1>18 DEF ServerRun
<1>19. CASE SaveCheck BY <1>19 DEF SaveCheck
<1>20. CASE LockGraph BY <1>20 DEF LockGraph
<1>21. CASE SaveDone BY <1>21 DEF SaveDone
<1>22. CASE NodeRead BY <1>22 DEF NodeRead
<1>23. CASE LockDb BY <1>23 DEF LockDb
<1>24. CASE Clustered BY <1>24 DEF Clustered
<1>25. CASE InsertRun BY <1>25 DEF InsertRun
<1>26. CASE Join BY <1>26 DEF Join
<1>27. ASSUME NEW n \in Inserted, Insert(n) PROVE CallShape'
  BY <1>27 DEF Insert
<1>28. ASSUME NEW o \in Ops, Call(o) PROVE CallShape'
  <2>1. o \in AllOps
    BY OpsAssumption DEF OpsAssumption
  <2>2. cpc' = Entry(o) /\ op' = o /\ ret' = Return(o)
    BY <1>28 DEF Call
  <2> QED BY <2>1, <2>2 DEF Entry, Return, AllOps
<1>29. CASE WorkerStep \/ SpuriousWakeup \/ UNCHANGED vars
  BY <1>29, WorkerLeavesClient DEF clientVars
<1> QED
  BY <1>1, <1>2, <1>3, <1>4, <1>5, <1>6, <1>7, <1>8, <1>9, <1>10, <1>11,
     <1>12, <1>13, <1>14, <1>15, <1>16, <1>17, <1>18, <1>19, <1>20, <1>21,
     <1>22, <1>23, <1>24, <1>25, <1>26, <1>27, <1>28, <1>29
  DEF ClientStep, Next

LEMMA FlagInvWorker ==
  LockInv /\ FlagInv /\ (WorkerStep \/ SpuriousWakeup) => FlagInv'
<1> SUFFICES ASSUME LockInv, FlagInv, WorkerStep \/ SpuriousWakeup
             PROVE  FlagInv'
  OBVIOUS
<1> USE DEF FlagInv, StartShape, StatusShape, PauseHeld, RunAfterPause,
            SecondRead, PauseLabels, RunLabels, TermLabels, NotStarted,
            GateLabels, Worker, flagVars, clientVars
<1>types. status \in Status /\ request \in Status
  BY DEF LockInv, TypeOK
<1> USE <1>types DEF Status
<1>1. CASE StartRequest BY <1>1 DEF StartRequest
<1>2. CASE StartStatus BY <1>2 DEF StartStatus
<1>3. CASE Await BY <1>3 DEF Await
<1>4. CASE AwaitGate BY <1>4 DEF AwaitGate
<1>5. CASE AwaitInner BY <1>5 DEF AwaitInner
<1>6. CASE AwaitPark BY <1>6 DEF AwaitPark
<1>7. CASE InitGraph BY <1>7 DEF InitGraph
<1>8. CASE SeedDb BY <1>8 DEF SeedDb
<1>9. CASE SeedGraph BY <1>9 DEF SeedGraph
<1>10. CASE RandomInit BY <1>10 DEF RandomInit
<1>11. CASE LoopTop BY <1>11 DEF LoopTop
<1>12. CASE Gate BY <1>12 DEF Gate
<1>13. CASE GateStatus BY <1>13 DEF GateStatus
<1>14. CASE GatePark BY <1>14 DEF GatePark
<1>15. CASE GateTerm BY <1>15 DEF GateTerm
<1>16. CASE Resume BY <1>16 DEF Resume
<1>17. CASE DrawExample BY <1>17 DEF DrawExample
<1>18. CASE AdaptLock BY <1>18 DEF AdaptLock
<1>19. CASE Adapt BY <1>19 DEF Adapt
<1>20. CASE EndBatch BY <1>20 DEF EndBatch
<1>21. CASE GrowLock BY <1>21 DEF GrowLock
<1>22. CASE Grow BY <1>22 DEF Grow
<1>23. CASE Finish BY <1>23 DEF Finish
<1>24. CASE SpuriousWakeup BY <1>24 DEF SpuriousWakeup
<1> QED
  BY <1>1, <1>2, <1>3, <1>4, <1>5, <1>6, <1>7, <1>8, <1>9, <1>10, <1>11,
     <1>12, <1>13, <1>14, <1>15, <1>16, <1>17, <1>18, <1>19, <1>20, <1>21,
     <1>22, <1>23, <1>24
  DEF WorkerStep

LEMMA FlagInvClient ==
  LockInv /\ CallShape /\ FlagInv /\ (ClientStep \/ \E o \in Ops : Call(o))
    => FlagInv'
<1> SUFFICES ASSUME LockInv, CallShape, FlagInv,
                    ClientStep \/ \E o \in Ops : Call(o)
             PROVE  FlagInv'
  OBVIOUS
<1> USE DEF CallShape, FlagInv, StartShape, StatusShape, PauseHeld,
            RunAfterPause, SecondRead, PauseLabels, RunLabels, TermLabels,
            NotStarted, GateLabels, Client, Goto, SetRequest, Notify,
            NotifyAll, flagVars
<1>types. status \in Status /\ request \in Status
  BY DEF LockInv, TypeOK
<1> USE <1>types DEF Status, Return
<1>1. CASE RunTerm BY <1>1 DEF RunTerm
<1>2. CASE RunTest BY <1>2 DEF RunTest
<1>3. CASE RunSet BY <1>3 DEF RunSet
<1>4. CASE RunNotify BY <1>4 DEF RunNotify
<1>5. CASE RunWait BY <1>5 DEF RunWait
<1>6. CASE PauseTest BY <1>6 DEF PauseTest
<1>7. CASE PauseSet BY <1>7 DEF PauseSet
<1>8. CASE PauseNotify BY <1>8 DEF PauseNotify
<1>9. CASE PauseWait BY <1>9 DEF PauseWait
<1>10. CASE PauseAgain BY <1>10 DEF PauseAgain
<1>11. CASE TermTest BY <1>11 DEF TermTest
<1>12. CASE TermSet BY <1>12 DEF TermSet
<1>13. CASE TermNotify BY <1>13 DEF TermNotify
<1>14. CASE TermWait BY <1>14 DEF TermWait
<1>15. CASE TermAgain BY <1>15 DEF TermAgain
<1>16. CASE Sample BY <1>16 DEF Sample
<1>17. CASE CreateThread BY <1>17 DEF CreateThread
<1>18. CASE ServerRun BY <1>18 DEF ServerRun
<1>19. CASE SaveCheck BY <1>19 DEF SaveCheck
<1>20. CASE LockGraph BY <1>20 DEF LockGraph
<1>21. CASE SaveDone BY <1>21 DEF SaveDone
<1>22. CASE NodeRead BY <1>22 DEF NodeRead
<1>23. CASE LockDb BY <1>23 DEF LockDb
<1>24. CASE Clustered BY <1>24 DEF Clustered
<1>25. CASE InsertRun BY <1>25 DEF InsertRun
<1>26. CASE Join BY <1>26 DEF Join
<1>27. ASSUME NEW n \in Inserted, Insert(n) PROVE FlagInv'
  BY <1>27 DEF Insert
<1>28. ASSUME NEW o \in Ops, Call(o) PROVE FlagInv'
  <2>1. o \in AllOps
    BY OpsAssumption DEF OpsAssumption
  <2>2. cpc = "idle" /\ cpc' = Entry(o) /\ UNCHANGED <<wpc, flagVars>>
    BY <1>28 DEF Call
  <2>3. Entry(o) \notin {"runTest", "runSet", "pauseSet", "pauseAgain"}
    BY <2>1 DEF Entry, AllOps
  <2> QED BY <2>2, <2>3
<1> QED
  BY <1>1, <1>2, <1>3, <1>4, <1>5, <1>6, <1>7, <1>8, <1>9, <1>10, <1>11,
     <1>12, <1>13, <1>14, <1>15, <1>16, <1>17, <1>18, <1>19, <1>20, <1>21,
     <1>22, <1>23, <1>24, <1>25, <1>26, <1>27, <1>28
  DEF ClientStep

LEMMA CourseInvWorker ==
  LockInv /\ FlagInv /\ CourseInv /\ (WorkerStep \/ SpuriousWakeup)
    => CourseInv'
<1> SUFFICES ASSUME LockInv, FlagInv, CourseInv, WorkerStep \/ SpuriousWakeup
             PROVE  CourseInv'
  OBVIOUS
<1> USE DEF CourseInv, Quiescing, Quiescent, Resumed, Halted, StillRunning,
            PausedRegion, PauseLabels, GateLabels, Worker, flagVars,
            clientVars
<1>types. status \in Status /\ request \in Status
  BY DEF LockInv, TypeOK
<1>known. wpc \in NotStarted => status = "TERMINATED"
  BY DEF FlagInv, StartShape
<1>kept. dbsize' = dbsize /\ request' \in {request, "RUNNING"}
  BY DEF WorkerStep, StartRequest, StartStatus, Await, AwaitGate,
     AwaitInner, AwaitPark, InitGraph, SeedDb, SeedGraph, RandomInit,
     LoopTop, Gate, GateStatus, GatePark, GateTerm, Resume, DrawExample,
     AdaptLock, Adapt, EndBatch, GrowLock, Grow, Finish, SpuriousWakeup
<1> USE <1>types, <1>known, <1>kept DEF Status, NotStarted
<1>1. CASE StartRequest BY <1>1 DEF StartRequest
<1>2. CASE StartStatus BY <1>2 DEF StartStatus
<1>3. CASE Await BY <1>3 DEF Await
<1>4. CASE AwaitGate BY <1>4 DEF AwaitGate
<1>5. CASE AwaitInner BY <1>5 DEF AwaitInner
<1>6. CASE AwaitPark BY <1>6 DEF AwaitPark
<1>7. CASE InitGraph BY <1>7 DEF InitGraph
<1>8. CASE SeedDb BY <1>8 DEF SeedDb
<1>9. CASE SeedGraph BY <1>9 DEF SeedGraph
<1>10. CASE RandomInit BY <1>10 DEF RandomInit
<1>11. CASE LoopTop BY <1>11 DEF LoopTop
<1>12. CASE Gate BY <1>12 DEF Gate
<1>13. CASE GateStatus BY <1>13 DEF GateStatus
<1>14. CASE GatePark BY <1>14 DEF GatePark
<1>15. CASE GateTerm BY <1>15 DEF GateTerm
<1>16. CASE Resume BY <1>16 DEF Resume
<1>17. CASE DrawExample BY <1>17 DEF DrawExample
<1>18. CASE AdaptLock BY <1>18 DEF AdaptLock
<1>19. CASE Adapt BY <1>19 DEF Adapt
<1>20. CASE EndBatch BY <1>20 DEF EndBatch
<1>21. CASE GrowLock BY <1>21 DEF GrowLock
<1>22. CASE Grow BY <1>22 DEF Grow
<1>23. CASE Finish BY <1>23 DEF Finish
<1>24. CASE SpuriousWakeup BY <1>24 DEF SpuriousWakeup
<1> QED
  BY <1>1, <1>2, <1>3, <1>4, <1>5, <1>6, <1>7, <1>8, <1>9, <1>10, <1>11,
     <1>12, <1>13, <1>14, <1>15, <1>16, <1>17, <1>18, <1>19, <1>20, <1>21,
     <1>22, <1>23, <1>24
  DEF WorkerStep

LEMMA CourseInvClient ==
  LockInv /\ CallShape /\ FlagInv /\ CourseInv
    /\ (ClientStep \/ \E o \in Ops : Call(o))
  => CourseInv'
<1> SUFFICES ASSUME LockInv, CallShape, FlagInv, CourseInv,
                    ClientStep \/ \E o \in Ops : Call(o)
             PROVE  CourseInv'
  OBVIOUS
<1> USE DEF CallShape, CourseInv, Quiescing, Quiescent, Resumed, Halted,
            StillRunning, PausedRegion, PauseLabels, RunLabels, TermLabels,
            GateLabels, Client, Goto, SetRequest, Notify, NotifyAll, flagVars
<1>types. status \in Status /\ request \in Status
  BY DEF LockInv, TypeOK
<1>known. status = "RUNNING" /\ wpc = "gateStatus" /\ cpc \notin TermLabels =>
        request = "PAUSED"
  BY DEF FlagInv, SecondRead
<1> USE <1>types, <1>known DEF Status, Return
<1>1. CASE RunTerm BY <1>1 DEF RunTerm
<1>2. CASE RunTest BY <1>2 DEF RunTest
<1>3. CASE RunSet BY <1>3 DEF RunSet
<1>4. CASE RunNotify BY <1>4 DEF RunNotify
<1>5. CASE RunWait BY <1>5 DEF RunWait
<1>6. CASE PauseTest BY <1>6 DEF PauseTest
<1>7. CASE PauseSet BY <1>7 DEF PauseSet
<1>8. CASE PauseNotify BY <1>8 DEF PauseNotify
<1>9. CASE PauseWait BY <1>9 DEF PauseWait
<1>10. CASE PauseAgain BY <1>10 DEF PauseAgain
<1>11. CASE TermTest BY <1>11 DEF TermTest
<1>12. CASE TermSet BY <1>12 DEF TermSet
<1>13. CASE TermNotify BY <1>13 DEF TermNotify
<1>14. CASE TermWait BY <1>14 DEF TermWait
<1>15. CASE TermAgain BY <1>15 DEF TermAgain
<1>16. CASE Sample BY <1>16 DEF Sample
<1>17. CASE CreateThread BY <1>17 DEF CreateThread
<1>18. CASE ServerRun BY <1>18 DEF ServerRun
<1>19. CASE SaveCheck BY <1>19 DEF SaveCheck
<1>20. CASE LockGraph BY <1>20 DEF LockGraph
<1>21. CASE SaveDone BY <1>21 DEF SaveDone
<1>22. CASE NodeRead BY <1>22 DEF NodeRead
<1>23. CASE LockDb BY <1>23 DEF LockDb
<1>24. CASE Clustered BY <1>24 DEF Clustered
<1>25. CASE InsertRun BY <1>25 DEF InsertRun
<1>26. CASE Join BY <1>26 DEF Join
<1>27. ASSUME NEW n \in Inserted, Insert(n) PROVE CourseInv'
  BY <1>27 DEF Insert
<1>28. ASSUME NEW o \in Ops, Call(o) PROVE CourseInv'
  BY <1>28 DEF Call
<1> QED
  BY <1>1, <1>2, <1>3, <1>4, <1>5, <1>6, <1>7, <1>8, <1>9, <1>10, <1>11,
     <1>12, <1>13, <1>14, <1>15, <1>16, <1>17, <1>18, <1>19, <1>20, <1>21,
     <1>22, <1>23, <1>24, <1>25, <1>26, <1>27, <1>28
  DEF ClientStep

LEMMA PauseInvStep == LockInv /\ PauseInv /\ [Next]_vars => PauseInv'
<1> SUFFICES ASSUME LockInv, PauseInv, [Next]_vars PROVE PauseInv'
  OBVIOUS
<1> USE DEF PauseInv
<1>1. CallShape'
  BY CallShapeStep
<1>2. CASE WorkerStep \/ SpuriousWakeup
  BY <1>1, <1>2, FlagInvWorker, CourseInvWorker
<1>3. CASE ClientStep \/ \E o \in Ops : Call(o)
  BY <1>1, <1>3, FlagInvClient, CourseInvClient
<1>4. CASE UNCHANGED vars
  <2>1. FlagInv'
    BY <1>4 DEF vars, state, flagVars, clientVars, FlagInv, StartShape, StatusShape,
       PauseHeld, RunAfterPause, SecondRead, PauseLabels
  <2>2. CourseInv'
    BY <1>4 DEF vars, state, flagVars, clientVars, CourseInv, Quiescing, Quiescent,
       Resumed, Halted, StillRunning, PausedRegion
  <2> QED BY <1>1, <2>1, <2>2
<1> QED BY <1>2, <1>3, <1>4 DEF Next

LEMMA PauseInvAlways == Spec => []PauseInv
<1>1. Init => PauseInv
  BY PauseInvInit
<1>2. LockInv /\ PauseInv /\ [Next]_vars => PauseInv'
  BY PauseInvStep
<1> QED BY <1>1, <1>2, LocksWellUsed, PTL DEF Spec

(* isRunning() never says FALSE while a batch is being trained. *)
THEOREM BatchIsVisible == Spec => []BatchShowsRunning
<1>1. LockInv /\ PauseInv => BatchShowsRunning
  BY DEF PauseInv, FlagInv, StatusShape, BatchShowsRunning, Batch, NotStarted,
         GateLabels
<1> QED BY <1>1, LocksWellUsed, PauseInvAlways, PTL

(* A client that saw the algorithm running and paused it, with more than    *)
(* two examples, finds no batch in progress until it asks for a resume.     *)
THEOREM PauseIsEffective == Spec => []PauseQuiesces
<1>1. PauseInv => PauseQuiesces
  BY DEF PauseInv, CourseInv, Quiescent, Halted, PauseQuiesces, Batch,
         GateLabels
<1> QED BY <1>1, PauseInvAlways, PTL

(* save and get_clustering, called on a running algorithm, leave it asked   *)
(* to run, or terminated.                                                   *)
THEOREM SnapshotsResume == Spec => []SnapshotResumes
<1>1. PauseInv => SnapshotResumes
  BY DEF PauseInv, CourseInv, Resumed, SnapshotResumes
<1> QED BY <1>1, PauseInvAlways, PTL
=============================================================================
