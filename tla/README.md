# Growing Neural Gas: formal model

This directory models the control and graph logic of the `gmum` Growing Neural
Gas package (`src/src/gng`, `src/inst/include/gng`, driven from `src/R`): TLA+
modules translated from the C++ source, TLC configurations that check them on
small instances, and TLAPS proofs of the properties that matter for every value
of the constants.  Paths below are relative to the repository.

## 1. The system

A `GNGServer` owns a data set, a graph and a `GNGAlgorithm`.  R (or a C++
caller) calls the server from one thread, *the client*; `GNGServer::run` creates
a second one, *the worker*, which executes `GNGAlgorithm::runAlgorithm` until it
ends.

| component | state | operations | what is hard | what makes it correct | module |
|---|---|---|---|---|---|
| control protocol (`gng_algorithm.cpp` 640-832, 870-895) | `m_gng_status`, `m_gng_status_request`, condition variable, two recursive mutexes, iteration count | `runAlgorithm`, `run`, `pause`, `terminate`, `get_clustering`, `updateClustering` | two threads read and write plain flags; the waits are not protected by the mutex of the notifier; a status lags behind its request | a pause that was granted holds, locks are released and never taken crosswise, terminate and the destructor end, offline training ends by itself | `GngControl` |
| server (`gng_server.cpp`) | thread handle, pointers | `run`, `pause`, `terminate`, `save`, `getNode`, `insertExamples`, `getClustering`, destructor | early returns with a lock held or an algorithm paused | snapshots resume, no lock is leaked | `GngControl`, `GngSession` |
| graph pool (`gng_graph.h/.hpp`, `gng_node.h`) | slots, free list, `nodes`, `maximum_index`, edge lists, `edgesCount` | `newNode`, `deleteNode`, `addUDEdge`, `removeUDEdge`, `resizeGraph`, `serialize`, `load` | everything is stored twice: edges, counts, membership; slots are reused; loading rebuilds only part | counts equal what they count, free slots are clean, edges are symmetric | `GraphPool` |
| training (`gng_algorithm.cpp` `randomInit`, `adapt`, `addNewNode`, `LargestErrorNodes`, `utilityCriterionCheck`) | the graph, ages, errors, utilities | one `adapt` per example, one `addNewNode` per `m_lambda` of them | a list erased from while it is walked; nodes deleted as a side effect; grid, index and heap kept in step by hand | every edge made older once and none too old, no node in sight orphaned, `max_nodes` kept | `GngTraining`; `LazyErrorHeap`, `UniformGrid`, `HnswIndex` for what it does to these |
| lazy error heap (`gng_lazy_error_heap.h`, `heap.h`) | heap, node pointers, list of pending nodes | `insertLazy`, `updateLazy`, `update`, `insert`, `extractMax` | errors of different cycles are compared; entries outlive their node | the node it picks has the largest error of today, none is lost that has edges | `LazyErrorHeap` |
| uniform grid (`uniform_grid.h/.hpp`) | cells with nodes | `insert`, `remove`, `findNearest`, `check_grow`, `purge` | nodes are found by their positions; graph and grid are told separately; growth; when a ring search may stop | graph and grid part in known ways only, growth brings them together; finds the nearest | `UniformGrid` |
| approximate index (`inst/include/hnsw/index.hpp`) | layers of links both ways with distances, levels | `insert`, `remove`, `move`, `search` | relinking on removal, distances that go stale | `hnsw_index::check()`, few links, true distances | `HnswIndex` |
| hash table (`hopscotch-map-1.4.0`) | buckets with neighbourhood bitmaps, overflow list | `insert`, `erase`, `find`, `rehash` | hops, overflow, rehash in the middle of an insertion | it is a set of keys | `HopscotchHash` |
| data set (`gng_dataset.h`) | examples | `insertExamples`, `drawExample` | inserts between draws | its lock; draws are random (`gng.R:652`) and leave nothing behind | `GngControl`, `GngSession` |
| statistics (`circular_buffer.h`) | ring of mean errors | `push_back`, three readers | overwriting while another thread reads | R is told the newest, in order | `GngSession` |
| configuration (`gng_configuration.cpp`) | parameters | `check_correctness`, `serialize`, `deserialize` | - | - | in part in `GngSession` |
| R driver (`R/gng.R`) | loop variables of `.GNG`, `was_running` | `GNG`, `run`, `pause`, `convertToIGraph`, statistics | busy waiting for a running worker; early returns; indexes of a graph with holes | an offline call returns; an exported graph is the graph | `GngSession`, `GraphPool` |
| Rcpp module, logging, distance kernels | - | - | - | - | - |

They interact as follows.  The client reads and writes the two flags, notifies
the condition variable, and takes the data set's mutex (`insertExamples`,
`updateClustering`), the graph's (`save`, `getNode`) or that of the statistics.
The worker takes the data set's and then the graph's for every `adapt`, the
graph's alone for `addNewNode`, and the statistics' alone to report.  Under these
locks training calls the pool, and with it the grid, the index or the heap; the
index keeps its nodes and levels in hash tables.  No client method changes the
graph.

## 2. Modules

| module | models | extends |
|---|---|---|
| `GngControl` | worker and client, statement by statement where they can interleave | - |
| `GraphPool` | `RAMGNGGraph`: each method an operator from pool to pool, each call an action; the index map of `convertToIGraph` | - |
| `NodeStore` | abstract specification: what a `GNGGraph` promises, nodes with names and undirected edges | - |
| `GngTraining` | what the worker does to the graph inside its locks, one step per call on the pool | `GraphPool` |
| `LazyErrorHeap` | `GNGLazyErrorHeap` over `Heap`, and the operations of training on it | - |
| `UniformGrid` | cells, growth and the ring search | - |
| `HnswIndex` | `hnsw_index` as `GNGAlgorithm` configures it | - |
| `HopscotchHash` | `hopscotch_hash`, in which the index keeps nodes and levels | - |
| `KeySet` | abstract specification: what a hash table promises, a set of keys and the call that goes on | - |
| `GngSession` | an R session: `.GNG`, `convertToIGraph`, statistics | - |
| `GngControl_proofs`, `GngTraining_proofs` (with those about `GraphPool`), `GngSession_proofs`, `LazyErrorHeap_proofs`, `UniformGrid_proofs`, `HnswIndex_proofs`, `HopscotchHash_proofs` | theorems | the module, TLAPS |
| `DataFacts` | lemmas about sets, sequences and recursion that several of the proofs use | TLAPS |
| `MCGngControl`, `MCLazyErrorHeap`, `MCHnswIndex` | names for constants, symmetry | the module |

Refinement: `GraphPool` implements `NodeStore` under the mapping
`live <- pool.occupied`, `links <- LinksOf(pool)` (`ImplementsStore`), and
`GngTraining` implements `GraphPool`'s `PoolSpec` with the pool as it is
(`KeepsPoolContract`), hence `NodeStore`.  `HopscotchHash` implements `KeySet`
under `keys <- Contents`, what a lookup finds, and `call <- Call`, the key that
the call going on is to put in (`ImplementsKeySet`).  `GngControl`
treats `adapt` and `addNewNode` as single steps inside their lock regions;
`GngTraining` is what happens in them.  `LazyErrorHeap`, `UniformGrid` and
`HnswIndex` take training as their environment, with its calls on the graph and
on the heap, the grid or the index in the order of the code: it inserts, moves
and deletes any nodes at any time.

### GngControl

`wpc` and `cpc` are the positions of the two threads.  Every read and every
write of a flag is one action, because the flags are unprotected: the start
(`StartRequest`, `StartStatus`) is two steps, the line
`m_gng_status = m_gng_status_request` after the test of the request is
`GateStatus`, a second read, and the gap between that test and `wait` is
`AwaitPark` / `GatePark`.  `NotifyAll` releases the worker only if it is in
`wait`; otherwise it is lost.  `status_change_mutex` is locked by the worker
only, so it excludes nobody and is no variable.  `Spurious` lets the condition
variable wake up by itself, as POSIX allows.

The client makes one call after another; `Call(o)` starts one of `Ops`, and the
labels of `run`, `pause` and `terminate` are shared by the operations that call
them, `ret` being the place to return to.  `saveFailing` is `save` when writing
throws; `getMissingNode` is `getNode` for an index without a node.  The nodes
are counted as far as `runAlgorithm` looks at them: none, one, two or more.
Memory is taken to be sequentially consistent and reads and writes of an
enumeration atomic, as on the platforms the package is built for.

### GraphPool

A pool is a record of the fields of the class; a method is an operator on it, so
callers that make several calls under one lock can be composed of them.  The
actions restrict the arguments as the callers in `GNGAlgorithm` do (no loop, no
double edge, deletion only at `edgesCount` 0).  Edge lists are sets: no
operation depends on their order, and the edge and its `rev` are the two
directed pairs.  `existsNode` is `i < nodes && occupied[i]` as in
`gng_graph.hpp:66`; that it compares an index with a count of nodes is part of
the model, and of everything that depends on it.  `Reloaded` is `serialize`
followed by `load`: which nodes and edges are written, and that `load` adds
edges on top of the `edgesCount` it has read.  `ExportIndex` and `Exported` are
the index map and the edges of `convertToIGraph`, for the nodes in sight.

### GngTraining

`randomInit`, then batches of `Lambda` calls of `adapt` and one `addNewNode`.
Positions, errors and utilities are choices: any two candidates may be the
nearest, any visible node may have the largest error or the least utility.  Ages
are kept.  Every call that changes the pool is a step of its own; `SetPool` is
that call together with the ages, of which removed edges take theirs along.

The scan of `adapt` walks the winner's list by an iterator and erases from it.
The pool has a set for the list, so the scan begins with some order of it
(`edges`), and `edg` is the position of the iterator in that: `Age` does `++edg`
unless the edge has to go, `Expire` erases it and has the position of the next
one, `Lonely` breaks off or does the `--edg` and `++edg` of a turn that erased.
`aged` is an auxiliary variable with the edges this scan has made older;
`ScanMeetsEachEdge` and `ScanEnds` are about the walk.  If the first edge of the
list is erased, `--edg` steps before the beginning, which the language does not
define; the list is a vector and the position is taken to come back.  Searches
with fewer than two candidates never return in the code, and have no successor
here.  The uniform grid, the index and the lazy heap are not in this module.

### LazyErrorHeap

The heap is the code's array, from 1 where the code's begins at 0: an entry has
its error, its node and its key, which is how `remove` finds it through
`m_buffer`.  `moveUp`, `moveDown` and the two ways to take an entry out are the
loops of `heap.h`.  The list `L` and `m_isonlist` are as in the code.  A node's
error is kept with the cycle it is of, and `Current` is what `fixErrorNew` makes
of it; the entries of the heap keep the error they were entered with.  The graph
may be loaded: it begins with two nodes or more, each with or without edges, and
the constructor lists them with the errors they were saved with.  (`serialize`
writes nodes in sight only, so all of a loaded graph are; edges it may have to
free slots are left out.)  Adapting raises one node's error, joins it to another
and may take the last edge of others.  Of these it deletes some (`D`), of which
the heap learns nothing; some stay without edges (`B`), because `deleteNode`
refuses a node `existsNode` does not see, or because a loaded node's
`edgesCount` does not reach 0.  `bare` are the nodes without edges; `stale` is an
auxiliary variable that remembers the entries left behind by deleted nodes.
After picking a deleted node, or one without edges, the code uses an
uninitialised pointer: `PickedNone` and `PickedWild` are what can come of it,
and the second has no successor.  A node that was picked so is in neither heap
nor list until it wins or is a neighbour again: these are `lost`.

### UniformGrid

A space of `Dim` dimensions with integer coordinates, a grid of `dim^Dim` lists
of nodes, a cell length that growing divides by 1.5.  `remove` erases the first
node at the position it is given, so the grid cannot tell coinciding nodes apart
and may lose the wrong one.  The steps are those of training, each with what it
does to the graph and to the grid: `Delete` takes a node out of the grid and then
asks `deleteNode`, which refuses one out of sight; `Discard` is
`LargestErrorNodes`, which deletes from the graph only; `Grow` is
`resizeUniformGrid`, which enters the nodes in sight and no other.  So there are
live nodes that are not in the grid (`Missing`) and slots in it that have no node
(`Dead`), which a search can find and `Move` and `Delete` then work on.  Once
something is in the grid twice or in a wrong cell (`~Orderly`) the model follows
it only until the grid is made anew.
`findNearest` is the search ring by ring (`scanCorners`), with the two nearest
so far, the distance to the cell's nearest wall and the stopping rule of the
code; each axis scans its two faces and leaves out what earlier axes have
scanned (`Ring`).  Positions
lie in the box: the session checks that (`gng_server.cpp:408-422`) and training
moves nodes towards examples.

### HnswIndex

`out` and `inc` are the links of every layer both ways, `out` with the distance
stored.  Insertion descends from a node of the top level by greedy search,
collects the best `Ef` on each layer of the new node, links to the diverse ones
and offers each of them a link back (`TryAddLink`, with its replacement rule);
removal detaches the node and compensates every peer, in any order of the
incoming links.  Hash maps are functions, ties between distances do not occur
(the places are chosen so), and levels are choices instead of random numbers.

### HopscotchHash and KeySet

A table is a record with its buckets; a bucket has its key, the bitmap of the
neighbourhood and the overflow bit of its home, as the code does.  In the code
`insert_impl` and `rehash_impl` call each other: a rehash inserts the old keys
one by one in a new table, and any of these insertions may rehash that table in
turn.  The model is this recursion with its stack: `table` is the table that is
being worked on, `label`, `todo` and `hole` are where `insert_impl` is, with
which key and which empty bucket, and `calls` has for every rehash going on the
table it began with, the bucket it has come to and what is to be done after it.
A step is one turn of a loop: `Load` and `Grow` are the two reasons to rehash,
`Swap` is one hop (the hops stay when the insertion finds no place after all),
`PlaceInBucket` and `PlaceInList` end an insertion, `RehashNext` takes the next
key of the old table and `RehashEnd` is `new_map.swap`.  `Contents` is what
lookups find in the table of the last call, which is what a caller has until the
outermost rehash is over.  An iterator is its bucket and what is left of the
list; `LoopFindsAll` is the loop of `hnsw_index::check` and the choice of the
first key of the top level.  The policy throws an error for more than
`max_bucket_count()` buckets; here such a step has no successor.

### GngSession

R is one thread: it configures, inserts, runs and, offline, waits in two loops.
`Startup` is the busy-wait of `gng.R:697` in two reads, `LoopTop`, `LoopErrors`
and `Leave` the loop after it with its patience, `Convert` to `Resume` the pause
around `convertToIGraph`.  The worker is the loop of `runAlgorithm` with one
example per iteration, and the trigger and the two halves of `push_back`
(`Store`, `increment_tail`) for the statistics; `getGNGErrorIndex` reads without
the lock and may come in between.  Draws from the data set are random
(`gng.R:652`) and change nothing.  The handshake itself is the subject of
`GngControl`: here a waiting worker sees a changed request at some time.

## 3. Runs

A run asks several questions of one instance where one instance answers them.

| run | instance | checks |
|---|---|---|
| `control_safety` | all operations but the lookup of a missing node, any number of calls, 0-4 examples, graphs of 0, 1, 2+ nodes, no iteration limit | `BatchShowsRunning`, `RestHoldsNothing` (of which the types are a part), `NoCircularWait`, `PauseQuiesces`, `SnapshotResumes` |
| `control_liveness` | `max_iter` -1 and 3, two or more examples, no pausing operation, 5 calls | `TerminateEnds`, `LocksGranted`, `TrainsToTheEnd`, `DestroyReturns` (liveness) |
| `control_lost_wakeup` | `run` and `pause`, 3 calls, no spurious wake-up | violation of `RunReturns`, section 6 |
| `graph_reload` | pool of 2 slots, doubled once, save and load at any moment | `FreeHeadIsFree`, `MaximumIndexCoversNodes`, `EdgesSymmetric`, `CountZeroMeansNoEdges`, `ExportKeepsGraph` |
| `training_exact` | exact search, 4 nodes, 2 calls of `adapt` per batch | `WinnerKeepsNeighbour`, `EdgesStayYoung`, `ScanMeetsEachEdge`, `OrphansAreRemoved`; of the pool under training `FreeListIsComplete`, `CountsExact`, `ImplementsStore` |
| `training_utility` | utility criterion, `max_nodes` 3, one slot more in the pool, 4 calls per batch | `KeepsPoolContract`, `NodesBounded`, `ScanEnds` (liveness) |
| `lazy_heap` | 4 slots, new and loaded graphs, 2 calls of `adapt` per cycle, 2 cycles after the first, errors halved every cycle (`Decay`) | `HeapOK`, `NodesQueued`, `PicksLargest`, `ExtractAdvances` (action property) |
| `hnsw_index` | 5 keys on 5 places, 2 levels, `max_links` 1 (2 on the lowest layer) | `Check`, `LinksBounded`, `StoredDistances` |
| `uniform_grid` | 3 slots, nodes on 9 positions in a plane of 3 by 3 cells, 16 queries | `FindsNearest` |
| `grid_growth` | 4 slots, nodes on 3 positions of a line, 3 cell lengths | `GridStaysSound` (action property) |
| `hopscotch` | 7 keys of which 5 share a home at first, neighbourhood 4, 16 buckets, 128 at most | `TableOK`, `LoopFindsAll` (the iterator), `CallsEnd` (liveness), `ImplementsKeySet` |
| `session` | offline with `max_iter` 2 (refused) and 5, online, 0-3 rows, a ring of 3 | `StatisticsAreLatest`, `OfflineReturns` (liveness) |

Each property of a passing run has a seeded fault (the operators `Fault...` in
the modules, which no specification uses): put in the place of the definition it
imitates, it breaks the property under the run's own configuration.

### Bounds

*Control.*  Calls are unlimited in the safety run; the liveness run allows 5,
because a client that calls without end may keep a lock busy for ever under weak
fairness, which says nothing of the code.  Five calls are enough for insert,
run, terminate and destroy in any order, with one to spare.  `MaxDb` leaves room
below and above the two limits the code tests (fewer than 2, more than 2).
`Lambda` is 1 or 2: the loop over `s` has one shape.  `max_iter` is 3, the
least the configuration accepts (`check_correctness` rejects 2).  With
`max_iter` unlimited `iteration` is counted up to `IterCap` only; nothing reads
it then.

*Pool.*  Two slots doubled to four are enough for a full free list, a resize,
holes below and above a node, and a reload of each; `MaxCount` bounds the
`edgesCount` of graphs that are saved, which grows by every reload.

*Training.*  The pool is the same.  `MaxAge` is 1 in `training_exact`,
which scales `max_age` down: the configuration asks for 3 or
more, but ages up to 3 on four nodes make too many states.  The code compares an
age with `m_max_age` in one place, and the theorems below hold for every
`MaxAge`.  `training_utility` uses 3, so that the configuration is legal.
`MinNodes` is 10 in the code; it is 3 in the run with utility, where it has to be
reached, and 10 where nothing looks at it.  A list of three edges, of which any
may expire, is the longest a pool of four has: the iterator meets an erased edge
at the beginning, in the middle and at the end.

*Lazy heap.*  Four slots are enough for entries of three cycles, stale entries,
nodes lost without edges
and a node that takes a slot again; the heap they make has three levels at most,
so `MCLazyErrorHeap` also evaluates insertion, removal and extraction on every
sequence of `N` = 7 errors (`HeapIsCorrect`).  The two amounts make errors equal
and unequal; `MaxErr` bounds what adapt may raise an error to.

*Grid.*  `uniform_grid` keeps one cell length, 4, which gives 3 cells per axis:
the search ends in its own cell, after one ring and after two, and queries lie on
both sides of walls, at corners and on the boundary.  Three slots make a nearest,
a second and one to be passed over, together with slots that have no node.
`grid_growth` asks about membership, for which one dimension will do, and needs
more nodes: cell lengths 9, 6 and 4 (`LastL`) give one cell, 2 and 3, and with
four slots there are nodes out of sight when the grid grows.

*Index.*  With two links on the lowest layer and one above, five nodes fill
every list and replace, which is where the rules differ.  At most two nodes are
above level 1 (`MaxUpper`).  At most one node has been moved, among
at most three (`MaxMoved`, `MaxWith`), which is enough to have a stale distance
compared with a true one.

*Hash table.*  Five of the keys have home 0 in 16 buckets with neighbourhoods of
4, so the neighbourhood overflows; keys 1 and 2 are what hops can move; growing
parts them, a rehash may rehash again, and shrinking brings them together.
`MaxExponent` is 7 and stands for the 63 of `max_bucket_count()`: no call of the
run asks for more than 128 buckets, or it would stop there and be a deadlock.
`hopscotch_hash` asks for a neighbourhood of at most 62 and uses 62 by default;
4, the least its bitmap is made for, is the same code with fewer buckets.

*Session.*  A ring of 3 for the code's 1000, a window of 2 errors for its 6 and a
patience of 2 for 3: the ring fills and wraps, and the window fits.  A mean error
may be reported after more than 5 examples per node and must be after 15; `Few` 0
and `Many` 1 let the first batch report or not and make the second report.
`IterCap` bounds the iterations counted online, where the session only asks
whether there was one.

### Deadlock and fairness

Deadlock is not checked in the control runs: the client may stop calling, and a
paused or finished worker waits for good.  It is not checked in the training
runs either: a search with fewer than two candidates has no step, and the pool
stops at `MaxPoolSize`.  The heap's run ends with its last cycle, and the grid
and the index may be used no more; a session ends when `GNG` returned or
stopped.  Deadlock is checked in `graph_reload` and in `hopscotch`, where it
says that a call is never at a place where the code has no way on.

`FairSpec` of `GngControl` is weak fairness of the worker and of the client
inside a call: the operating system schedules both threads, and every lock is
held for a bounded time.  Nothing is assumed of the client making another call,
nor of a spurious wake-up coming.  `FairSpec` of `GngTraining` is weak fairness
of the worker, which is sequential there.  `FairSpec` of `GngSession` is weak
fairness of the worker's thread and of R inside a call; what the session calls
next, and whether it calls at all, is left open.  `Spec` of `HopscotchHash` has
weak fairness of `Work`, the steps of a call that goes on: they are those of one
function in one thread, which waits for nobody.

## 4. Proofs

TLAPS checks 41 theorems for all values of the constants that satisfy the named
assumptions of the modules (`OpsAssumption`, `SizesAssumption`,
`PoolAssumption`, `TrainingAssumption`, `SessionAssumption`, `HeapAssumption`,
`DecayAssumption`, `GridAssumption`, `IndexAssumption`, `TableAssumption`), among
them every bound of the runs.  Most of these say what kind of number a parameter is.  The others:
slots are not -1, with which the code's searches mark that they have found
nobody; a cell length is at least 1 and its bound no more than the first length;
`Ef` is at least 2; an error decays to no more than it was, and not at all
within its cycle (`check_correctness` lets `beta` be at most 1).

*Recursion.*  The searches, the moves in the heap and the folds of the community
modules are recursive functions, and the library's induction theorems cannot be
used.  `DataFacts` replaces them by facts about sets: a set of numbers that is
not empty has a least one (`LeastOf`, from the well-foundedness of inclusion of
finite sets), so a set that contains 0 and successors is all of `Nat`
(`SetInduction`), and functions with a given first value and step exist
(`Iteration`; `IterationRests` for one that comes to rest as its measure falls;
`PickRecursion` for recursion over the subsets of a finite set, which is how the
folds are defined).  A recursive definition is a CHOOSE of the function that
satisfies an equation; with a witness from these lemmas the equation holds, and
an invariant of the loop follows with `PickInduction`, `StaysIn` or `EndAlike`.
The module also says what `Min`, `Max`, `RemoveAt`, `Append`, `SetToSeq` and the
cardinality operators return.

*GngControl.*  `LockInv` says where each lock is held (`LockPositions`) and that
`s < Lambda` in the body of the loop: `LocksWellUsed` proves it inductive and
`TypeCorrect` and `RestingWorkerHoldsNothing` follow.  `LocksNeverDeadlock` is
proved for clients that do not look up missing nodes (an ASSUME of the theorem;
with it TLC finds the counterexample, section 6): the client
then holds the graph only at the one label where it waits for nothing.
`PauseInv` is needed for the pause: that the status is PAUSED says little by
itself, since the worker may be about to leave its wait.  It relates the label
of the worker, both flags and the label of the client: a paused status about to
be left has a request that is not PAUSED, and only a client that called run can
have made it so.  It gives `BatchIsVisible`, `PauseIsEffective`,
`SnapshotsResume`.

*GraphPool.*  Invariants of a pool are predicates of the record, and each method
has a lemma that it keeps them.  `PoolInv` has the free list as a set closed
under `next_free`, disjoint from `occupied`, with at most one predecessor for
every slot and no edges at any, the index bound, symmetry, and `edgesCount` *at least* the number of edges, which is
what survives a reload.  It gives the first four properties of `graph_reload`,
and with `ExportApart`, which says that the numbers the export gives are ranks
of the nodes in sight and so differ, the fifth, `ExportIsTheGraph`.
`ExactInv` adds, for graphs that were not loaded, equality of the counts and
that edges join nodes; it gives `CountsAreExact`,
`EdgesEndAtNodes` and the step simulation behind `PoolImplementsStore`.
That no slot is lost cannot be had from `FreeListInv`, whose set may hold a
cycle the head never reaches: `ChainInv` says that there is a sequence from the
head to the end of the list which follows `next_free` and runs through every
free slot once.  `NoSlotIsLost` follows, since the list as the property walks it
is that sequence (`FreeChainFollows`).

*GngTraining.*  `TrainInv` is `PoolInv`, `ExactInv`, the ages (both directions
of an edge agree and are at most `MaxAge` but for the edge being removed), and
for every label what the local variables name.  `ListShape` says it of the scan:
the list has each edge of the winner once, those before the iterator and no
others have been made older, and while an edge is being removed the iterator is
at its place, so that `ListErased` finds the same of the list without it.  The
invariant is inductive and gives type correctness, `TrainingUsesPoolWell`,
`WinnerStaysLinked`, `AgesAgree`, `ScanMeetsEachEdgeHolds`, `GraphStaysSmall`,
`NoOrphanIsLeft`, and through the pool's theorems `TrainingCountsWell` and the
refinement `TrainingImplementsStore`.

*GngSession.*  `RingInv` relates the ring to the auxiliary `latest`: element `i`
is at the subscript `i - 1` after the head, modulo the capacity, the ring's count
is the length of `latest` or, between the two halves of `push_back`, one less,
and the lock is held from the decision to report to the end of `push_back`
(`LockShape`).  `RingHoldsLatest` proves it inductive for every `Capacity`; the
work is in `StoreKeepsRing`, for a ring with room and for a full one whose head
moves, over a handful of lemmas about subscripts.  A reader that takes the lock
then sees neither half alone, and one that does not is at most one behind:
`StatisticsAreTrue`.

*LazyErrorHeap.*  First the binary heap by itself: moving up and down keeps the
entries, their keys and their number, comes to rest (`MovedUp`, `MovedDown`) and
repairs an order that is broken at one place only (`Restored`), hence
`HeapInserts`, `HeapRemoves` and `HeapExtracts` say which entries there are
afterwards.  `HeapInv` then adds to the queue's shape that every node is in the
heap or on the list but those lost, and that heap and list are not both empty
when a largest error is asked for (`Queued`; the node that won last is on the
list, whatever was lost), and what an entry is worth (`EntriesBound`): no
less than the node's error, exactly the error if that is of this cycle, and for
a slot taken again nothing at all, but then the new node's error is not of this
cycle.  The last is why a wrong entry can be picked from the heap but is found
out before its node is split.  `HeapOKHolds`, `NodesQueuedHolds`,
`PicksLargestHolds` and `ExtractAdvancesHolds` follow.

*UniformGrid.*  `TypeCorrect` says that the cells cover the box however often
the grid has grown.  `GridStaysSoundHolds` takes a step at a time: in an orderly
grid the cells list a set of slots (`OrderlyLists`), each once in the cell of its
position; insertion adds one slot to it (`InCellLists`) and, where no two are in
one place, removal takes away the one meant, since the first at distance zero is
the only one (`DropFromLists`).  So what a step does to the slots in the grid can
be compared with what it does to the graph; growing needs none of this
(`GrowRepairs`).  `FindsNearestHolds`
needs the search for what it is: `Best` says that the two found are the best of
a set of nodes, `OfferBest` that offering one more node keeps it so, and from
there it goes up through the loop over a cell (`ScanCellBest`), over a ring
(`ScanCornersBest`) and over the rings (`RingsBest`).  The geometry is
`NearNext`, that a ring adds exactly the cells one further away although axes
leave corners out; `RingEmpty`, that behind an empty ring there is no cell; and
`Far`, that a node in no cell seen is at least as far as the distance to the
nearest wall and the rings together, which is the code's reason to stop.

*HnswIndex.*  `IndexInv` says of every layer that links join different members
of the layer, that a link out is known at its other end (`Answered`), that
stored distances are those of the places except at moved nodes (`True`), and
that no list has more than one link over its limit (`Bounded`; the code does
exceed it by one, `index.hpp:217`); and that no two nodes
are in one place, that `levels` lists who is where.  Each operation has a lemma
about the layer it makes (`LinkGood`, `UnlinkGood`, `TryAddLinkGood`,
`SetLinksGood`, `DetachGood`, `CompensateGood`), and `JoinGood` and `RelinkGood`
put them together along the loops.  The searches matter to it only in that they
stay in the layer (`GreedyIn`, `SearchLevelIn`): a link to a node that is not of
the layer could be made in no other way.  `CheckHolds`, `LinksBoundedHolds` and
`StoredDistancesHolds` follow.

*HopscotchHash.*  `Good` is what is true of one table, besides its shape: the
bitmaps of the homes are exact (`Exact`), keys are near their homes (`Near`),
homes know of the list (`Told`), no key is in two places (`Once`), all are
counted, and the load is not exceeded.  Each operator on tables has a lemma that
it keeps `Good` and says which keys there are afterwards (`InsertsInBucket`,
`InsertsInOverflow`, `ErasesFromBucket`, `ErasesFromOverflow`, `Hops`,
`TakesOver`, `FindsEmpty`).  That is not inductive: when the innermost rehash
ends, the invariant must know what the one below it had come to.  `Chain` says
it of the whole stack: every table in it is `Good`, the key that waits there is
not in it, and the keys of the table above together with the one that waits
there are exactly those its rehash has taken so far (`Fills`), so that at the
end none is missing; the lemmas `ChainPush`, `ChainNext` and `ChainPop` are
about the stack alone.  `Fills` also says that the new table is at least twice
the old one when the rehash makes room, without which the load would be exceeded
after it (`HasRoom`).  `Inv` adds what the labels mean and where `hole` may be,
and gives `TableOKHolds`.  For the refinement, `StepKeeps` says of each step
that lookups find what they found: only the return of the outermost insertion
and the end of the outermost rehash may change that, and then by the key of the
call (`RehashKeeps`, `ReturnKeeps`).  `LoopFindsAllHolds` follows the iterator:
`Ahead` is what a loop has still to meet, a step takes the key it is at out of
it and no other (`Advances`), and so the loop ends after as many steps as there
are keys (`LoopMeetsAll`).

Only model-checked: liveness (no prover here does fairness and ENABLED), which
is `TerminateEnds`, `LocksGranted`, `TrainsToTheEnd`, `DestroyReturns`,
`ScanEnds`, `OfflineReturns` and `CallsEnd`.  Every other
property of every passing run is a theorem.

## 5. What is not modelled

Real positions, distances and errors (integers stand for them), and utilities
(choices); training composed with the heap, the cells and the index; drawing examples in sequence or by
probability, which `.GNG` never selects; mapped values and allocation failures of the
hash table, and its `sc` variants, which nothing uses; the formats of
files; predict, nodeDistance, recall counters and path lengths, which only read;
memory reordering by compiler or processor; the Windows emulation of condition
variables; R's plotting, presets, centroids and predictComponent; the vendored
`matplotlibcpp.h`.

## 6. Where the code and what it says of itself differ

One has a run whose counterexample TLC prints:

- `control_lost_wakeup`: `run` stores its request and notifies without
  `status_change_mutex` (`gng_algorithm.cpp:793-794`); between the worker's test
  and its wait (687-689) the notification is lost and `run(true)` waits for
  ever, "Run is synchronized" (797).

Nine can be reproduced by a change of a configuration, given in brackets:

- `GNGServer::getNode` returns for a node that does not exist without unlocking
  the graph (`gng_server.cpp:334-339`); the next insert and the worker then wait
  for each other (`"getMissingNode"` added to `Ops` of `control_safety`,
  `NoCircularWait` fails).  `convertToIGraph` makes such lookups whenever the
  graph has a hole (`gng.R:1068-1082`).
- adapt deletes a node whose last edge aged out, but `deleteNode` refuses one
  `existsNode` does not see (`gng_graph.hpp:66,177`); it comes back in sight
  without edges, which the debug check (`gng_algorithm.cpp:726-732`) reports as
  an error (`NoIsolatedNodes` in `training_exact`).
- `LargestErrorNodes` deletes a node from the graph and not from the grid or the
  index (`gng_algorithm.cpp:615-617`); the search goes on finding the free slot,
  and the edges a later adapt would give it are what newNode's assertion
  (`gng_graph.hpp:147`) forbids (the invariant `Dead = {}` added to
  `grid_growth` fails).
- adapt takes a node out of the grid before `deleteNode` refuses it
  (`gng_algorithm.cpp:497, 511`), and a grid made anew leaves out what
  `existsNode` does not see (591-593): live nodes that no search finds (the
  invariant `Missing = {}` added to `grid_growth` fails).
- The lazy heap may pick a node without edges, for which addNewNode returns
  (`gng_algorithm.cpp:263`) or follows an uninitialised pointer; the node has
  left the heap and is on no list (the invariant `lost = {}` added to
  `lazy_heap` fails).
- The approximate search may find one node, which is then both nearest
  (`gng_algorithm.cpp:924-925`): removals can leave a node without links
  (`SearchFindsTwo` in `hnsw_index`).
- `convertToIGraph` pauses a running server and returns an empty graph without
  running it again (`gng.R:1056-1058`): a server that waits for its second
  example is left paused (`OnlineTrains` in `session`).
- The check of the range needs the data to be above and below it
  (`gng.R:621`); data on one side are refused later, with a message in the log,
  and the call of GNG waits for ever at 697 (`AlwaysReturns` in `session`).
- The lazy heap is not told of deletions: it may pick a free slot and return an
  uninitialised neighbour (`gng_algorithm.cpp:44-60`), and `insert` keeps an
  entry of a slot taken again with the old error
  (`gng_lazy_error_heap.h:109`) (`PicksLargest` without its `stale`).

Others follow from the models or were met while writing them:

- A pause before the thread has executed `gng_algorithm.cpp:651` returns at once
  and is overwritten there; the assertion after the pause in `save`
  (`gng_server.cpp:212`) can fail for that reason.
- `get_clustering`, "pauses algorithm" (`gng_algorithm.h:87-88`), does not pause
  one that is not running yet and searches the graph while it grows.
- A worker that waits for data parks with status RUNNING (658-664), so
  `pause(true)` does not return once there are three examples; and it looks at a
  terminate only when paused, so `terminate(true)` does not return before there
  are two.
- `terminate` notifies only if its first look finds the status not TERMINATED
  (826-828); a worker that starts and parks after that look stays parked, and
  the destructor waits in join.
- `existsNode`, "True if exists node in the graph" (`gng_graph.h:58-60`),
  compares with the number of nodes: after node 0 of three is deleted, node 2 is
  there and not seen.  With fewer than two nodes in sight the exact search
  (`gng_algorithm.cpp:1001,1019`) runs past the arrays.  An edge to a node out of
  sight is exported as one to the vertex with the number of its slot, which
  stands for another node or for none (`gng.R:1064`); `ExportKeepsGraph` has the
  premise that there are none.
- A scan of adapt that erases the first edge steps the iterator before the
  beginning of the list (`gng_algorithm.cpp:532`), which is undefined, if
  harmless with a pointer for an iterator.
- `load` takes over a node count that includes nodes it does not load
  (`gng_graph.hpp:350`), and counts every edge twice (377, 388), so a loaded
  node is never deleted for want of edges.
- `UniformGrid::remove` erases the first node at distance zero
  (`uniform_grid.hpp:287`); `purge` overwrites the threshold and the growth
  factor (50-53).
- `random_level` takes the logarithm of 0 for a sample of 0
  (`hnsw/index.hpp:467-468`); `remove` adds a compensating link without asking
  for room (217), so that a peer may have one link too many; the average path
  length looks up node numbers 0 to size - 1 (379, 422), which removals make
  missing.
- `getConstructionRecall` leaves the first node out of what it compares with
  (`gng_server.cpp:523-530`) and reads graph and index without their locks.
- `min.improvement`, "Controls stopping criterion" (`gng.R:339-340`), controls
  nothing: the loop that uses it (700-736) starts when training is over (697).
- `predictComponent` keeps components until `run` is called, while the worker
  changes the graph (`gng.R:853-860, 898-900`); `getNodes` asks for nodes 1 to
  `getNumberNodes` (968); `getQuantizationError` ends its last batch too early
  (989).
- `circular_buffer::at_checked` always throws (389; unused); drawing by
  probability does not end when every probability is 0 (`gng_dataset.h:132-135`).
- `check_correctness` says that `max_age` should be in `[2,10000]` and rejects 2
  (`gng_configuration.cpp:161-162`).

## 7. Plan

Done: all the modules of section 2, and proofs of every safety property of every
run.  Next:

1. `GngTraining` started from loaded graphs (`PoolInv` without `ExactInv`).
2. `GngTraining` composed with `LazyErrorHeap`, with `UniformGrid` and with
   `HnswIndex`, so that what a search finds and whom the heap picks decide over
   the edges: the graph, which these three now have as a set of nodes, would be
   the pool.
3. `GngLifecycle`: the protocol a caller of run, pause and terminate may rely
   on, and `GngControl` shown to implement it under the conditions it needs.
