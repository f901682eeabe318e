----------------------------- MODULE GngControl -----------------------------
(***************************************************************************)
(* The control protocol of the Growing Neural Gas server: the worker       *)
(* thread that executes GNGAlgorithm::runAlgorithm, and the one client     *)
(* thread (the R session, or a C++ caller) that drives it through          *)
(* GNGServer.                                                              *)
(*                                                                         *)
(* The two threads share m_gng_status (written by the worker only),        *)
(* m_gng_status_request, the condition variable status_change_condition,   *)
(* the data set with its mutex and the graph with its mutex.  The flags    *)
(* are plain enumerations: every read and every write of one is a step of  *)
(* its own here, so the threads interleave between a test and the          *)
(* assignment it guards.  status_change_mutex is locked by the worker      *)
(* alone (no client method takes it), so it excludes nobody and is not a   *)
(* variable; what it would have to protect, the gap between testing the    *)
(* request and waiting, is the steps AwaitPark and GatePark.               *)
(***************************************************************************)
EXTENDS Integers, FiniteSets

CONSTANTS
  Ops,        \* the GNGServer operations the client uses
  Inserted,   \* how many examples one insertExamples call may add
  InitDb,     \* examples in the data set before the client's first call
  InitNodes,  \* how many nodes the graph given to the constructor may have
  MaxIters,   \* what max_iter of the configuration may be; -1 is "no limit"
  Lambda,     \* m_lambda, examples adapted to per iteration
  Spurious,   \* may the condition variable wake up without a notification?
  MaxCalls,   \* bound: calls the client makes; -1 is "no limit"
  MaxDb,      \* bound: examples in the data set
  IterCap     \* bound: iterations are counted up to here

AllOps == {"run", "pause", "terminate", "save", "saveFailing",
           "getClustering", "updateClustering", "insert",
           "getNode", "getMissingNode", "destroy"}

ASSUME OpsAssumption == Ops \subseteq AllOps
ASSUME SizesAssumption ==
  /\ Inserted \subseteq Nat
  /\ InitDb \in Nat /\ MaxDb \in Nat
  /\ InitNodes \subseteq 0..2    \* 2 stands for "two or more"
  /\ Lambda \in Nat
  /\ MaxCalls \in {-1} \cup Nat /\ IterCap \in Nat
  /\ MaxIters \subseteq {-1} \cup 0..IterCap
  /\ Spurious \in BOOLEAN

VARIABLES
  max_iter,   \* of the configuration
  wpc,        \* where the worker is in runAlgorithm
  status,     \* m_gng_status
  request,    \* m_gng_status_request
  s,          \* examples of this iteration already adapted to
  iteration,  \* completed iterations, counted up to IterCap
  nodes,      \* get_number_nodes() as far as runAlgorithm tests it: 0, 1, 2+
  dbsize,     \* GNGDataset::size()
  db,         \* database_mutex: how often each thread has locked it
  graph,      \* grow_mutex, the graph's lock, likewise
  cpc,        \* where the client is inside its call
  op,         \* the client's current or last call
  ret,        \* where run(), pause() and terminate() return to
  sync,       \* the argument of GNGAlgorithm::run
  was,        \* isRunning() as the current call sampled it
  calls       \* calls made so far, counted if they are limited

flagVars   == <<status, request>>
lockVars   == <<db, graph>>
dataVars   == <<s, iteration, nodes>>
clientVars == <<cpc, op, ret, sync, was, calls>>
state == <<wpc, flagVars, dataVars, dbsize, lockVars, clientVars>>
vars == <<state, max_iter>>

Status  == {"RUNNING", "PAUSED", "TERMINATED"}
Threads == {"worker", "client"}

(* Regions of runAlgorithm. *)
Waiting == {"awaitWait", "gateWait"}      \* inside the condition's wait()
Batch   == {"draw", "adaptLock", "adapt", "growLock", "grow"}
Ended   == {"done", "crashed"}            \* the thread function has returned

WorkerLabels ==
  {"none", "start", "startStatus", "await", "awaitGate", "awaitInner",
   "awaitPark", "init", "seed", "seedLock", "seeding", "top", "gate",
   "gateStatus", "gatePark", "gateTerm", "resume", "finish"}
    \cup Waiting \cup Batch \cup Ended

ClientLabels ==
  {"idle", "sample", "serverRun", "runTerm", "runTest", "runSet",
   "runNotify", "runWait", "pauseTest", "pauseSet", "pauseNotify",
   "pauseWait", "pauseAgain", "termTest", "termSet", "termNotify",
   "termWait", "termAgain", "saveCheck", "graphLock", "graphHeld",
   "dbLock", "dbHeld", "insertRun", "join", "destroyed"}

TypeOK ==
  /\ wpc \in WorkerLabels /\ cpc \in ClientLabels
  /\ status \in Status /\ request \in Status
  /\ s \in 0..Lambda /\ iteration \in 0..IterCap /\ nodes \in 0..2
  /\ dbsize \in Nat
  /\ db \in [Threads -> Nat] /\ graph \in [Threads -> Nat]
  /\ op \in AllOps /\ ret \in {"idle", "join", "saveCheck", "dbLock"}
  /\ sync \in BOOLEAN /\ was \in BOOLEAN /\ calls \in Nat

Init ==
  /\ wpc = "none" /\ cpc = "idle"
  /\ status = "TERMINATED" /\ request = "TERMINATED"
  /\ s = 0 /\ iteration = 0 /\ nodes \in InitNodes /\ max_iter \in MaxIters
  /\ dbsize = InitDb
  /\ db = [t \in Threads |-> 0] /\ graph = [t \in Threads |-> 0]
  /\ op = "run" /\ ret = "idle" /\ sync = TRUE /\ was = FALSE /\ calls = 0

-----------------------------------------------------------------------------
(* gmum::recursive_mutex: free for t unless another thread is inside. *)
Free(mutex, t)    == \A u \in Threads \ {t} : mutex[u] = 0
Locked(mutex, t)  == [mutex EXCEPT ![t] = @ + 1]
Released(mutex, t) == [mutex EXCEPT ![t] = @ - 1]

(* A step of a thread moves it from a label to a label. *)
Worker(from, to) == wpc = from /\ wpc' = to
Client(from, to) == cpc = from /\ cpc' = to

(* notify_all releases the worker if it is in wait(), and is lost if not. *)
NotifyAll ==
  wpc' = CASE wpc = "awaitWait" -> "awaitGate"
           [] wpc = "gateWait"  -> "gate"
           [] OTHER             -> wpc

(* A client step that only moves on, from a label to a label. *)
Goto(from, to) ==
  /\ Client(from, to)
  /\ UNCHANGED <<wpc, flagVars, dataVars, dbsize, lockVars, op, ret, sync,
                 was, calls>>

SetRequest(from, to, r) ==
  /\ Client(from, to)
  /\ request' = r
  /\ UNCHANGED <<wpc, status, dataVars, dbsize, lockVars, op, ret, sync,
                 was, calls>>

Notify(from, to) ==
  /\ Client(from, to)
  /\ NotifyAll
  /\ UNCHANGED <<flagVars, dataVars, dbsize, lockVars, op, ret, sync,
                 was, calls>>

-----------------------------------------------------------------------------
(* Seeded faults: each is an action below with a plausible mistake in it,   *)
(* put in its place to see the property it should break fail.  They are no  *)
(* part of Next.                                                            *)

FaultPauseWait == Goto("pauseWait", ret)   \* seeded fault: does not wait

FaultLoopTop ==    \* seeded fault: the iteration limit is not looked at
  /\ Worker("top", "gate")
  /\ UNCHANGED <<flagVars, dataVars, dbsize, lockVars, clientVars>>

FaultGateTerm ==   \* seeded fault: a terminate request is not looked at
  /\ Worker("gateTerm", "resume")
  /\ UNCHANGED <<flagVars, dataVars, dbsize, lockVars, clientVars>>

FaultResume ==   \* seeded fault: the status is left as it was
  /\ Worker("resume", "draw")
  /\ s' = 0
  /\ UNCHANGED <<flagVars, iteration, nodes, dbsize, lockVars, clientVars>>

FaultAdapt ==    \* seeded fault: the data set's lock is not released
  /\ Worker("adapt", "draw")
  /\ s' = s + 1
  /\ graph' = Released(graph, "worker")
  /\ UNCHANGED <<flagVars, iteration, nodes, dbsize, db, clientVars>>

FaultSaveDone ==   \* seeded fault: never resumes
  /\ op \in {"save", "saveFailing"}
  /\ Client("graphHeld", "idle")
  /\ graph' = Released(graph, "client")
  /\ sync' = FALSE /\ ret' = "idle"
  /\ UNCHANGED <<wpc, flagVars, dataVars, dbsize, db, op, was, calls>>

FaultNodeRead ==   \* seeded fault: no return unlocks the graph
  /\ op \in {"getNode", "getMissingNode"}
  /\ Client("graphHeld", "idle")
  /\ UNCHANGED <<wpc, flagVars, dataVars, dbsize, lockVars, op, ret, sync,
                 was, calls>>

-----------------------------------------------------------------------------
(* The worker: runAlgorithm before its main loop. *)

(* m_gng_status = m_gng_status_request = GNG_RUNNING, right to left; the   *)
(* request a client stored before the thread got here is overwritten.      *)
StartRequest ==
  /\ Worker("start", "startStatus")
  /\ request' = "RUNNING"
  /\ UNCHANGED <<status, dataVars, dbsize, lockVars, clientVars>>

StartStatus ==
  /\ Worker("startStatus", "await")
  /\ status' = "RUNNING"
  /\ s' = 0
  /\ UNCHANGED <<request, iteration, nodes, dbsize, lockVars, clientVars>>

(* while (g_db->size() < 2): the worker spins until there are two examples *)
(* and looks at the request on the way, for PAUSED only.                   *)
Await ==
  /\ Worker("await", IF dbsize < 2 THEN "awaitGate" ELSE "init")
  /\ UNCHANGED <<flagVars, dataVars, dbsize, lockVars, clientVars>>

AwaitGate ==
  /\ Worker("awaitGate", IF request = "PAUSED" THEN "awaitInner" ELSE "await")
  /\ UNCHANGED <<flagVars, dataVars, dbsize, lockVars, clientVars>>

(* Inside while (request == PAUSED): reads the request a second time. *)
AwaitInner ==
  /\ \/ /\ request = "TERMINATED"
        /\ Worker("awaitInner", "done")
        /\ status' = "TERMINATED"
     \/ /\ request # "TERMINATED"
        /\ Worker("awaitInner", "awaitPark")
        /\ UNCHANGED status
  /\ UNCHANGED <<request, dataVars, dbsize, lockVars, clientVars>>

AwaitPark ==
  /\ Worker("awaitPark", "awaitWait")
  /\ UNCHANGED <<flagVars, dataVars, dbsize, lockVars, clientVars>>

(* An empty graph is seeded, a graph of one node throws BasicException,    *)
(* which _run catches: the thread ends and the status stays RUNNING.       *)
InitGraph ==
  /\ Worker("init", CASE nodes = 0 -> "seed"
                      [] nodes = 1 -> "crashed"
                      [] OTHER     -> "top")
  /\ UNCHANGED <<flagVars, dataVars, dbsize, lockVars, clientVars>>

(* randomInit under both locks, the data set's first. *)
SeedDb ==
  /\ Worker("seed", "seedLock")
  /\ Free(db, "worker") /\ db' = Locked(db, "worker")
  /\ UNCHANGED <<flagVars, dataVars, dbsize, graph, clientVars>>

SeedGraph ==
  /\ Worker("seedLock", "seeding")
  /\ Free(graph, "worker") /\ graph' = Locked(graph, "worker")
  /\ UNCHANGED <<flagVars, dataVars, dbsize, db, clientVars>>

RandomInit ==
  /\ Worker("seeding", "top")
  /\ nodes' = 2
  /\ graph' = Released(graph, "worker") /\ db' = Released(db, "worker")
  /\ UNCHANGED <<flagVars, s, iteration, dbsize, clientVars>>

-----------------------------------------------------------------------------
(* The worker: the main loop. *)

IterationsLeft == max_iter = -1 \/ iteration < max_iter

LoopTop ==
  /\ Worker("top", IF IterationsLeft THEN "gate" ELSE "finish")
  /\ UNCHANGED <<flagVars, dataVars, dbsize, lockVars, clientVars>>

Gate ==
  /\ Worker("gate", IF request = "PAUSED" THEN "gateStatus" ELSE "gateTerm")
  /\ UNCHANGED <<flagVars, dataVars, dbsize, lockVars, clientVars>>

(* m_gng_status = m_gng_status_request: a second read of the request, so   *)
(* not necessarily the PAUSED that the loop condition saw.                 *)
GateStatus ==
  /\ Worker("gateStatus", "gatePark")
  /\ status' = request
  /\ UNCHANGED <<request, dataVars, dbsize, lockVars, clientVars>>

GatePark ==
  /\ Worker("gatePark", "gateWait")
  /\ UNCHANGED <<flagVars, dataVars, dbsize, lockVars, clientVars>>

GateTerm ==
  /\ Worker("gateTerm", IF request = "TERMINATED" THEN "finish" ELSE "resume")
  /\ UNCHANGED <<flagVars, dataVars, dbsize, lockVars, clientVars>>

(* m_gng_status = GNG_RUNNING, after status_change_mutex was unlocked. *)
Resume ==
  /\ Worker("resume", "draw")
  /\ status' = "RUNNING"
  /\ s' = 0
  /\ UNCHANGED <<request, iteration, nodes, dbsize, lockVars, clientVars>>

(* for (s = 0; s < m_lambda; ++s): draw an example under the data set's    *)
(* lock, then adapt the graph under both.                                  *)
DrawExample ==
  /\ s < Lambda
  /\ Worker("draw", "adaptLock")
  /\ Free(db, "worker") /\ db' = Locked(db, "worker")
  /\ UNCHANGED <<flagVars, dataVars, dbsize, graph, clientVars>>

AdaptLock ==
  /\ Worker("adaptLock", "adapt")
  /\ Free(graph, "worker") /\ graph' = Locked(graph, "worker")
  /\ UNCHANGED <<flagVars, dataVars, dbsize, db, clientVars>>

Adapt ==
  /\ Worker("adapt", "draw")
  /\ s' = s + 1
  /\ graph' = Released(graph, "worker") /\ db' = Released(db, "worker")
  /\ UNCHANGED <<flagVars, iteration, nodes, dbsize, clientVars>>

EndBatch ==
  /\ s >= Lambda
  /\ Worker("draw", "growLock")
  /\ UNCHANGED <<flagVars, dataVars, dbsize, lockVars, clientVars>>

GrowLock ==
  /\ Worker("growLock", "grow")
  /\ Free(graph, "worker") /\ graph' = Locked(graph, "worker")
  /\ UNCHANGED <<flagVars, dataVars, dbsize, db, clientVars>>

(* addNewNode and the error decay, under the graph's lock only. *)
Grow ==
  /\ Worker("grow", "top")
  /\ graph' = Released(graph, "worker")
  /\ iteration' = IF iteration < IterCap THEN iteration + 1 ELSE iteration
  /\ UNCHANGED <<flagVars, s, nodes, dbsize, db, clientVars>>

Finish ==
  /\ Worker("finish", "done")
  /\ status' = "TERMINATED"
  /\ UNCHANGED <<request, dataVars, dbsize, lockVars, clientVars>>

(* A condition variable may wake its waiter without a notification. *)
SpuriousWakeup ==
  /\ Spurious
  /\ Worker("awaitWait", "awaitGate") \/ Worker("gateWait", "gate")
  /\ UNCHANGED <<flagVars, dataVars, dbsize, lockVars, clientVars>>

WorkerStep ==
  \/ StartRequest \/ StartStatus \/ Await \/ AwaitGate \/ AwaitInner
  \/ AwaitPark \/ InitGraph \/ SeedDb \/ SeedGraph \/ RandomInit
  \/ LoopTop \/ Gate \/ GateStatus \/ GatePark \/ GateTerm \/ Resume
  \/ DrawExample \/ AdaptLock \/ Adapt \/ EndBatch \/ GrowLock \/ Grow
  \/ Finish

-----------------------------------------------------------------------------
(* The client: GNGAlgorithm's run, pause and terminate. *)

(* run(synchronized) *)
RunTerm   == Goto("runTerm", IF status = "TERMINATED" THEN ret ELSE "runTest")
RunTest   == Goto("runTest", IF status # "RUNNING" THEN "runSet" ELSE "runWait")
RunSet    == SetRequest("runSet", "runNotify", "RUNNING")
RunNotify == Notify("runNotify", "runWait")
RunWait   == /\ ~(dbsize > 2 /\ sync /\ status = "PAUSED")
             /\ Goto("runWait", ret)

(* pause(true): the wait loop stores the request again on every turn. *)
PauseTest   == Goto("pauseTest",
                    IF status # "PAUSED" THEN "pauseSet" ELSE "pauseWait")
PauseSet    == SetRequest("pauseSet", "pauseNotify", "PAUSED")
PauseNotify == Notify("pauseNotify", "pauseWait")
PauseWait   == Goto("pauseWait", IF dbsize > 2 /\ status = "RUNNING"
                                 THEN "pauseAgain" ELSE ret)
PauseAgain  == SetRequest("pauseAgain", "pauseWait", "PAUSED")

(* terminate(true) *)
TermTest   == Goto("termTest",
                   IF status # "TERMINATED" THEN "termSet" ELSE "termWait")
TermSet    == SetRequest("termSet", "termNotify", "TERMINATED")
TermNotify == Notify("termNotify", "termWait")
TermWait   == Goto("termWait",
                   IF status = "RUNNING" THEN "termAgain" ELSE ret)
TermAgain  == SetRequest("termAgain", "termWait", "TERMINATED")

-----------------------------------------------------------------------------
(* The client: the operations of GNGServer. *)

(* Where an operation starts, and where a pause or a terminate inside it   *)
(* returns to.                                                             *)
Entry(o) ==
  CASE o = "run"                              -> "serverRun"
    [] o \in {"pause", "save", "saveFailing", "getClustering"} -> "sample"
    [] o \in {"terminate", "destroy"}         -> "termTest"
    [] o \in {"insert", "updateClustering"}   -> "dbLock"
    [] o \in {"getNode", "getMissingNode"}    -> "graphLock"

Return(o) ==
  CASE o \in {"save", "saveFailing"} -> "saveCheck"
    [] o = "getClustering"           -> "dbLock"
    [] o = "destroy"                 -> "join"
    [] OTHER                         -> "idle"

Call(o) ==
  /\ Client("idle", Entry(o))
  /\ MaxCalls = -1 \/ calls < MaxCalls
  /\ o = "insert" => \A n \in Inserted : dbsize + n <= MaxDb
  /\ op' = o /\ ret' = Return(o) /\ sync' = TRUE /\ was' = FALSE
  /\ calls' = IF MaxCalls = -1 THEN calls ELSE calls + 1
  /\ UNCHANGED <<wpc, flagVars, dataVars, dbsize, lockVars>>

(* isRunning(), read by pause, save and get_clustering before anything     *)
(* else; only get_clustering skips the pause when it is false.             *)
Sample ==
  /\ was' = (status = "RUNNING")
  /\ Client("sample", IF op = "getClustering" /\ ~was' THEN "dbLock"
                                                       ELSE "pauseTest")
  /\ UNCHANGED <<wpc, flagVars, dataVars, dbsize, lockVars, op, ret, sync,
                 calls>>

(* GNGServer::run creates the thread the first time. *)
CreateThread ==
  /\ wpc = "none"
  /\ Client("serverRun", "idle")
  /\ wpc' = "start"
  /\ UNCHANGED <<flagVars, dataVars, dbsize, lockVars, op, ret, sync, was,
                 calls>>

ServerRun == wpc # "none" /\ Goto("serverRun", "runTerm")

(* save: ASSERT(!isRunning()) is at this label. *)
SaveCheck == Goto("saveCheck", "graphLock")

LockGraph ==
  /\ Client("graphLock", "graphHeld")
  /\ Free(graph, "client") /\ graph' = Locked(graph, "client")
  /\ UNCHANGED <<wpc, flagVars, dataVars, dbsize, db, op, ret, sync, was,
                 calls>>

(* The graph has been written out: save resumes without waiting, unless    *)
(* writing threw, when it returns at once.                                 *)
SaveDone ==
  /\ op \in {"save", "saveFailing"}
  /\ Client("graphHeld", IF op = "save" /\ was THEN "runTerm" ELSE "idle")
  /\ graph' = Released(graph, "client")
  /\ sync' = FALSE /\ ret' = "idle"
  /\ UNCHANGED <<wpc, flagVars, dataVars, dbsize, db, op, was, calls>>

(* getNode unlocks the graph, unless the node does not exist: that return  *)
(* comes before the unlock.                                                *)
NodeRead ==
  /\ op \in {"getNode", "getMissingNode"}
  /\ Client("graphHeld", "idle")
  /\ graph' = IF op = "getNode" THEN Released(graph, "client") ELSE graph
  /\ UNCHANGED <<wpc, flagVars, dataVars, dbsize, db, op, ret, sync, was,
                 calls>>

LockDb ==
  /\ Client("dbLock", "dbHeld")
  /\ Free(db, "client") /\ db' = Locked(db, "client")
  /\ UNCHANGED <<wpc, flagVars, dataVars, dbsize, graph, op, ret, sync, was,
                 calls>>

(* updateClustering searches the graph under the data set's lock only. *)
Clustered ==
  /\ op \in {"getClustering", "updateClustering"}
  /\ Client("dbHeld", IF was THEN "runTerm" ELSE "idle")
  /\ db' = Released(db, "client")
  /\ ret' = "idle"
  /\ UNCHANGED <<wpc, flagVars, dataVars, dbsize, graph, op, sync, was, calls>>

Insert(n) ==
  /\ op = "insert"
  /\ Client("dbHeld", "insertRun")
  /\ dbsize' = dbsize + n
  /\ db' = Released(db, "client")
  /\ UNCHANGED <<wpc, flagVars, dataVars, graph, op, ret, sync, was, calls>>

(* RinsertLabeledExamples starts the algorithm if it is not running. *)
InsertRun == Goto("insertRun", IF status # "RUNNING" THEN "serverRun" ELSE "idle")

(* ~GNGServer joins the thread, if there is one, after terminate. *)
Join == wpc \in Ended \cup {"none"} /\ Goto("join", "destroyed")

ClientStep ==
  \/ RunTerm \/ RunTest \/ RunSet \/ RunNotify \/ RunWait
  \/ PauseTest \/ PauseSet \/ PauseNotify \/ PauseWait \/ PauseAgain
  \/ TermTest \/ TermSet \/ TermNotify \/ TermWait \/ TermAgain
  \/ Sample \/ CreateThread \/ ServerRun \/ SaveCheck \/ LockGraph
  \/ SaveDone \/ NodeRead \/ LockDb \/ Clustered
  \/ \E n \in Inserted : Insert(n)
  \/ InsertRun \/ Join

Next ==
  /\ WorkerStep \/ ClientStep \/ SpuriousWakeup \/ \E o \in Ops : Call(o)
  /\ UNCHANGED max_iter

Spec == Init /\ [][Next]_vars

(* The operating system runs both threads; whether the client makes        *)
(* another call, and whether a wait ends by itself, nobody promises.       *)
FairSpec == Spec /\ WF_state(WorkerStep) /\ WF_state(ClientStep)

-----------------------------------------------------------------------------
(* Safety *)

(* isRunning() is FALSE only while nothing is being trained: whenever the   *)
(* worker is inside the batch of runAlgorithm the status is RUNNING.        *)
BatchShowsRunning == wpc \in Batch => status = "RUNNING"

AtRest == Waiting \cup Ended \cup {"none", "await", "awaitGate", "awaitInner",
                                   "awaitPark", "gate", "gatePark"}

(* A worker that waits for a request, spins for data or has ended holds     *)
(* neither lock of the server, so a paused or finished algorithm never      *)
(* blocks insertExamples, save or getNode; and locks, counters and labels   *)
(* keep their types.                                                        *)
RestHoldsNothing ==
  /\ TypeOK
  /\ wpc \in AtRest => db["worker"] = 0 /\ graph["worker"] = 0

WaitsFor(t, m) ==
  IF t = "worker"
  THEN wpc \in (IF m = "db" THEN {"seed", "draw"}
                           ELSE {"seedLock", "adaptLock", "growLock"})
  ELSE cpc = (IF m = "db" THEN "dbLock" ELSE "graphLock")

Holds(t, m) == (IF m = "db" THEN db[t] ELSE graph[t]) > 0

(* The two threads never wait for each other, one holding the data set's    *)
(* lock and the other the graph's: "fined grained locks are necessary to    *)
(* prevent deadlocks" in runAlgorithm.                                      *)
NoCircularWait ==
  ~ \E m1, m2 \in {"db", "graph"} :
      /\ Holds("worker", m1) /\ WaitsFor("client", m1)
      /\ Holds("client", m2) /\ WaitsFor("worker", m2)

PausedRegion ==
  \/ op = "pause" /\ cpc = "idle"
  \/ /\ op \in {"save", "saveFailing"}
     /\ cpc \in {"saveCheck", "graphLock", "graphHeld"}
  \/ op = "getClustering" /\ cpc \in {"dbLock", "dbHeld"}

(* A client that saw the algorithm running and paused it, with more than    *)
(* two examples in the data set, finds the worker outside the batch from    *)
(* the moment pause returns until it asks for a resume: what save and       *)
(* get_clustering read does not change under them.                          *)
PauseQuiesces == was /\ dbsize > 2 /\ PausedRegion => wpc \notin Batch

(* save and get_clustering, called on a running algorithm, do not return    *)
(* leaving it asked to pause, unless it has ended meanwhile.                *)
SnapshotResumes ==
  op \in {"save", "getClustering"} /\ cpc = "idle" /\ was /\ dbsize > 2
    => request # "PAUSED" \/ status = "TERMINATED"

-----------------------------------------------------------------------------
(* Liveness, under FairSpec *)

(* The worker gets every lock it waits for: no operation of the client      *)
(* keeps one.                                                               *)
LocksGranted ==
  \A m \in {"db", "graph"} : WaitsFor("worker", m) ~> ~WaitsFor("worker", m)

(* With max_iter set and a client that does not pause, training that has    *)
(* found its data ends, and performs every iteration unless it is asked to  *)
(* terminate; the R driver of offline training busy-waits for that.         *)
TrainsToTheEnd ==
  max_iter # -1 /\ wpc = "init"
    ~> wpc = "done" /\ (iteration = max_iter \/ request = "TERMINATED")

(* A terminate that found the algorithm running ends the worker, if the     *)
(* client does not pause it.                                                *)
TerminateEnds == cpc = "termAgain" ~> wpc \in Ended

(* The destructor returns, thread joined, when max_iter is set and there    *)
(* are two examples: training then ends even if terminate came too early.   *)
DestroyReturns == max_iter # -1 /\ op = "destroy" ~> cpc = "destroyed"

(* "Algorithm should start. Run is synchronized": run(true) returns.        *)
RunReturns == cpc = "runWait" ~> cpc # "runWait"

=============================================================================
