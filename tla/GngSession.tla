------------------------------- MODULE GngSession -------------------------------
(***************************************************************************)
(* An R session with one server: what .GNG does to configure, feed, start  *)
(* and, offline, wait for the worker, what convertToIGraph does to hold    *)
(* it, and the error statistics that the worker writes into a ring and R   *)
(* reads.  R is a single thread.                                           *)
(*                                                                         *)
(* The handshake of run, pause and terminate with the worker is the        *)
(* subject of GngControl; here a waiting worker sees a changed request.    *)
(* m_lambda is 1 and a mean error is one of a few values.  .GNG always     *)
(* takes gng.dataset.bagging, where an example is drawn at random: a draw  *)
(* changes nothing here, in randomInit as in adapt.                        *)
(***************************************************************************)
EXTENDS Integers, SequencesExt

CONSTANTS
  MaxIters,    \* max.iter given offline; it is -1 online
  Rows,        \* numbers of examples given, and bound on the data set
  Means,       \* values of a mean error
  Capacity,    \* of m_mean_error
  Window,      \* of .GNG: the last errors it looks at, less one
  Patience,    \* of .GNG: initial_patience
  Few, Many,   \* examples after which a mean error may and must be reported
  IterCap      \* bound on m_iteration online

ASSUME SessionAssumption ==
  /\ MaxIters \subseteq Nat /\ Rows \subseteq Nat /\ IsFiniteSet(Rows)
  /\ Means \subseteq Nat \ {0} /\ IsFiniteSet(Means)
  /\ Capacity \in Nat /\ Capacity > Window /\ Window \in Nat \ {0}
  /\ Patience \in Nat /\ Few \in Nat /\ Many \in Nat /\ Few <= Many
  /\ IterCap \in Nat \ {0}

VARIABLES
  arg,         \* arguments of the call of GNG
  size,        \* examples in the data set
  seeded,      \* get_number_nodes() # 0
  wpc, status, request, iteration, count,    \* the worker; count is of examples
  ring, stat_lock,                           \* m_mean_error, m_statistics_mutex
  latest,      \* auxiliary: the last Capacity means reported
  rpc, result, \* R: where it is, and what it was told
  driver,      \* R: the variables of the offline loop of .GNG
  was_running  \* R: of convertToIGraph

worker == <<wpc, iteration, count, ring, stat_lock, latest, seeded>>
R == <<rpc, result, driver, was_running>>
vars == <<arg, size, worker, status, request, R>>

Online == arg.max_iter = -1

Huge == 1 + Max(Means)    \* best_so_far = 1e10

Arguments ==
  {a \in [max_iter : MaxIters \cup {-1}, rows : Rows, optimized : BOOLEAN,
           range : {"inside", "above", "below", "both"}] :    \* of the data, to the box
     a.optimized \/ a.range = "inside"}

Init ==
  /\ arg \in Arguments
  /\ size = 0 /\ seeded = FALSE
  /\ wpc = "none" /\ status = "TERMINATED" /\ request = "TERMINATED"
  /\ iteration = 0 /\ count = 0
  /\ ring = [array |-> [i \in 0..(Capacity - 1) |-> 0], head |-> 1, tail |-> 0, contents |-> 0]
  /\ stat_lock = FALSE /\ latest = <<>>
  /\ rpc = "configure" /\ result = <<>> /\ was_running = FALSE
  /\ driver = [iter |-> 0, error_index |-> -1, best |-> Huge, patience |-> Patience]

-----------------------------------------------------------------------------
(* The worker. *)

Go(a, b) == wpc = a /\ wpc' = b

Start ==    \* runAlgorithm
  /\ Go("start", "wait")
  /\ status' = "RUNNING" /\ request' = "RUNNING"
  /\ UNCHANGED <<arg, size, seeded, iteration, count, ring, stat_lock, latest, R>>

(* The loop that waits for two examples, where a pause is obeyed without    *)
(* being shown in the status, and randomInit.                               *)
Await ==
  /\ \/ Go("wait", "parked") /\ size < 2 /\ request = "PAUSED"
     \/ Go("parked", "wait") /\ request # "PAUSED"
  /\ UNCHANGED <<arg, size, seeded, status, request, iteration, count, ring, stat_lock, latest, R>>

Seed ==
  /\ Go("wait", "gate") /\ size >= 2
  /\ seeded' = TRUE
  /\ UNCHANGED <<arg, size, status, request, iteration, count, ring, stat_lock, latest, R>>

IterationsLeft == Online \/ iteration < arg.max_iter

Halt ==
  /\ wpc = "gate" /\ request = "PAUSED" /\ status # "PAUSED" /\ IterationsLeft
  /\ status' = "PAUSED"
  /\ UNCHANGED <<arg, size, worker, request, R>>

FaultFinish ==    \* the status is left as it was
  /\ Go("gate", "done")
  /\ ~IterationsLeft \/ request = "TERMINATED"
  /\ UNCHANGED <<status, arg, size, seeded, request, iteration, count, ring, stat_lock, latest, R>>

Finish ==
  /\ Go("gate", "done")
  /\ ~IterationsLeft \/ request = "TERMINATED"
  /\ status' = "TERMINATED"
  /\ UNCHANGED <<arg, size, seeded, request, iteration, count, ring, stat_lock, latest, R>>

Batch ==
  /\ Go("gate", "report") /\ IterationsLeft /\ request = "RUNNING"
  /\ status' = "RUNNING" /\ count' = Min({count + 1, Many + 1})
  /\ UNCHANGED <<arg, size, seeded, request, iteration, ring, stat_lock, latest, R>>

(* The mean error is reported when there were enough examples since the     *)
(* last time, or fewer and a tenth of a second has passed.                  *)
NoReport ==
  /\ Go("report", "grow") /\ count <= Many
  /\ UNCHANGED <<arg, size, seeded, status, request, iteration, count, ring, stat_lock, latest, R>>

FaultReport ==    \* without the lock
  /\ Go("report", "store") /\ count > Few
  /\ UNCHANGED <<stat_lock, arg, size, seeded, status, request, iteration, count, ring, latest, R>>

Report ==
  /\ Go("report", "store") /\ count > Few /\ ~stat_lock
  /\ stat_lock' = TRUE
  /\ UNCHANGED <<arg, size, seeded, status, request, iteration, count, ring, latest, R>>

next_tail == IF ring.tail + 1 = Capacity THEN 0 ELSE ring.tail + 1

(* push_back: in a full ring the oldest is written over and the head moved, *)
(* which for a moment makes it one shorter.                                 *)
Store(m) ==
  /\ Go("store", "tail")
  /\ ring' = [ring EXCEPT !.array[next_tail] = m,
       !.head = IF ring.contents = Capacity THEN (@ + 1) % Capacity ELSE @,
       !.contents = IF @ = Capacity THEN @ - 1 ELSE @]
  /\ latest' = LET s == Append(latest, m) IN IF Len(s) > Capacity THEN Tail(s) ELSE s
  /\ UNCHANGED <<arg, size, seeded, status, request, iteration, count, stat_lock, R>>

increment_tail ==
  /\ Go("tail", "grow")
  /\ ring' = [ring EXCEPT !.contents = @ + 1, !.tail = next_tail]
  /\ count' = 0 /\ stat_lock' = FALSE
  /\ UNCHANGED <<arg, size, seeded, status, request, iteration, latest, R>>

Grow ==    \* the end of an iteration
  /\ Go("grow", "gate")
  /\ iteration' = IF Online THEN Min({iteration + 1, IterCap}) ELSE iteration + 1
  /\ UNCHANGED <<arg, size, seeded, status, request, count, ring, stat_lock, latest, R>>

Worker ==
  \/ Start \/ Await \/ Seed \/ Halt \/ Finish \/ Batch \/ NoReport \/ Report
  \/ increment_tail \/ Grow \/ \E m \in Means : Store(m)

-----------------------------------------------------------------------------
(* R.  At(a) is where an action begins. *)

At(a) == rpc = a

isRunning == status = "RUNNING"

(* GNGConfiguration::check_correctness, of what is modelled. *)
check_correctness == Online \/ arg.max_iter > 2

Configure ==    \* .GNG up to the constructor
  /\ At("configure")
  /\ rpc' = IF (arg.optimized /\ ~Online /\ arg.range = "both") \/ ~check_correctness
            THEN "stopped"
            ELSE IF Online /\ arg.rows = 0 THEN "idle" ELSE "insert"
  /\ UNCHANGED <<arg, size, worker, status, request, result, driver, was_running>>

(* RinsertLabeledExamples refuses data outside the box, and starts a worker *)
(* that is not running: GNGServer::run, and GNGAlgorithm::run.              *)
Refused == arg.optimized /\ arg.range # "inside"

insertExamples(n) == size' = size + n

Run ==    \* creates the thread, or asks the algorithm to run
  /\ wpc' = IF wpc = "none" THEN "start" ELSE wpc
  /\ request' = IF wpc # "none" /\ status = "PAUSED" THEN "RUNNING" ELSE request

Insert(n, next) ==
  /\ rpc' = next
  /\ IF Refused THEN UNCHANGED <<size, wpc, request>>
     ELSE /\ insertExamples(n)
          /\ IF isRunning THEN UNCHANGED <<wpc, request>> ELSE Run
  /\ UNCHANGED <<arg, status, iteration, count, ring, stat_lock, latest, seeded,
                 result, driver, was_running>>

InsertFirst == At("insert") /\ Insert(arg.rows, "run")

InsertMore ==    \* a server that is run is waited for, as in run(server)
  /\ At("idle")
  /\ \E n \in Rows \ {0} :
       /\ size + n <= Max(Rows)
       /\ Insert(n, IF Refused \/ isRunning THEN "idle" ELSE "run_wait")

RunCall(next) ==
  /\ Run /\ rpc' = next
  /\ UNCHANGED <<arg, size, status, iteration, count, ring, stat_lock, latest, seeded,
                 result, driver, was_running>>

(* run(server), which waits for a worker with more than two examples. *)
RunServer == At("run") /\ RunCall("run_wait")

RunWait ==
  /\ At("run_wait") /\ (size > 2 => status # "PAUSED")
  /\ rpc' = IF Online THEN "idle" ELSE "startup"
  /\ UNCHANGED <<arg, size, worker, status, request, result, driver, was_running>>

(* while(server$getCurrentIteration() == 0 || server$.isRunning()){}        *)
Startup ==
  /\ \/ At("startup") /\ iteration # 0 /\ rpc' = "startup_running"
     \/ At("startup_running") /\ rpc' = IF isRunning THEN "startup" ELSE "loop"
  /\ UNCHANGED <<arg, size, worker, status, request, result, driver, was_running>>

LoopTop ==
  /\ At("loop")
  /\ IF driver.iter = 0 \/ isRunning
     THEN rpc' = "errors" /\ driver' = [driver EXCEPT !.iter = iteration]
     ELSE rpc' = "leave" /\ UNCHANGED driver
  /\ UNCHANGED <<arg, size, worker, status, request, result, was_running>>

(* getMeanErrorStatistics; a single value stands for an empty ring. *)
Contents == [i \in 1..ring.contents |-> ring.array[(ring.head + i - 1) % Capacity]]

Statistics == IF ring.contents = 0 THEN <<Huge>> ELSE Contents

(* The errors are looked at when there are more than Window; the loop is    *)
(* left when they have not improved, the error index has gone down by more  *)
(* than four and patience is at its end.  min.improvement is taken as the   *)
(* least improvement there is.                                              *)
LoopErrors ==
  /\ At("errors") /\ ~stat_lock
  /\ result' = Statistics
  /\ LET n == Len(Statistics)
         best_previously == Min({Statistics[i] : i \in (n - Window)..n})
         stagnates == /\ driver.error_index - ring.contents > 4
                      /\ best_previously >= driver.best
         patience == IF stagnates THEN driver.patience - 1 ELSE Patience
     IN  IF n <= Window THEN rpc' = "loop" /\ UNCHANGED driver
         ELSE IF stagnates /\ patience <= 0
         THEN rpc' = "leave" /\ driver' = [driver EXCEPT !.patience = patience]
         ELSE /\ rpc' = "loop"
              /\ driver' = [driver EXCEPT !.patience = patience,
                              !.error_index = ring.contents,
                              !.best = Min({best_previously, @})]
  /\ UNCHANGED <<arg, size, worker, status, request, was_running>>

(* if(server$.isRunning()) terminate(server), which asks until it stops. *)
Leave ==
  /\ At("leave")
  /\ IF isRunning THEN request' = "TERMINATED" /\ UNCHANGED rpc
                  ELSE rpc' = "returned" /\ UNCHANGED request
  /\ UNCHANGED <<arg, size, worker, status, result, driver, was_running>>

Offline ==    \* and what GNG() does online before it returns
  \/ Configure \/ InsertFirst \/ RunServer \/ RunWait \/ Startup \/ LoopTop \/ LoopErrors
  \/ Leave

(* What the session does with a server that trains online. *)

Ask ==    \* errorStatistics, whose last value is meanError
  /\ At("idle") /\ ~stat_lock
  /\ rpc' = "told" /\ result' = Statistics
  /\ UNCHANGED <<arg, size, worker, status, request, driver, was_running>>

AskIndex ==    \* getGNGErrorIndex takes no lock
  /\ At("idle")
  /\ rpc' = "told_index" /\ result' = <<ring.contents>>
  /\ UNCHANGED <<arg, size, worker, status, request, driver, was_running>>

Told ==
  /\ rpc \in {"told", "told_index"} /\ rpc' = "idle" /\ result' = <<>>
  /\ UNCHANGED <<arg, size, worker, status, request, driver, was_running>>

(* convertToIGraph pauses a server that runs; pause gives up waiting after  *)
(* two seconds when there are too few examples for GNGAlgorithm to wait.    *)
Convert ==
  /\ At("idle")
  /\ was_running' = isRunning
  /\ rpc' = IF isRunning THEN "pausing" ELSE "convert"
  /\ request' = IF isRunning THEN "PAUSED" ELSE request
  /\ UNCHANGED <<arg, size, worker, status, result, driver>>

Paused ==
  /\ At("pausing") /\ (size > 2 => ~isRunning) /\ rpc' = "convert"
  /\ UNCHANGED <<arg, size, worker, status, request, result, driver, was_running>>

(* An empty graph is returned without running the server again. *)
ReadGraph ==
  /\ At("convert") /\ rpc' = IF seeded /\ was_running THEN "resume" ELSE "idle"
  /\ UNCHANGED <<arg, size, worker, status, request, result, driver, was_running>>

Resume == At("resume") /\ RunCall("run_wait")

Next == Worker \/ Offline \/ InsertMore \/ Ask \/ AskIndex \/ Told \/ Convert
        \/ Paused \/ ReadGraph \/ Resume

Spec == Init /\ [][Next]_vars

(* The worker's thread and R's are scheduled, and R returns from a call. *)
FairSpec == Spec /\ WF_vars(Worker) /\ WF_vars(Offline \/ Paused \/ ReadGraph \/ Resume)

-----------------------------------------------------------------------------
(* R is told the means that were reported last, oldest first and all of     *)
(* them, however its call falls between the writes of the worker; the index *)
(* that is read without the lock is at most one behind.                     *)
StatisticsAreLatest ==
  [][/\ rpc = "idle" /\ rpc' = "told" => result' = IF latest = <<>> THEN <<Huge>> ELSE latest
     /\ rpc = "idle" /\ rpc' = "told_index" =>
          result'[1] \in {Len(latest) - 1, Len(latest)}]_vars

(* Offline, a call of GNG whose examples were taken, and are two or more,   *)
(* returns, although .GNG waits for the worker in a loop that only ends     *)
(* when an iteration was seen and the status is not RUNNING any more.       *)
OfflineReturns ==
  At("startup") /\ size >= 2 ~> At("returned")


(* A session that waits for more examples has a worker that trains on when  *)
(* there are two.                                                           *)
OnlineTrains ==
  At("idle") /\ size >= 2 /\ wpc \in {"wait", "parked"} ~> wpc = "gate"

(* GNG returns, or stops with an error, whatever it was given. *)
AlwaysReturns == <>(rpc \in {"returned", "stopped", "idle"})
=============================================================================
