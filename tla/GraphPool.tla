------------------------------ MODULE GraphPool ------------------------------
(***************************************************************************)
(* RAMGNGGraph: the graph as a pool of node slots.  A slot is free or      *)
(* occupied; free slots are chained through next_free, first_free being    *)
(* the head; when there is none left the pool doubles.  Every node keeps   *)
(* its own list of edges, so an undirected edge is stored twice, and a     *)
(* count of them in edgesCount next to the list.                           *)
(*                                                                         *)
(* A pool is a record, and each method of the class is an operator from    *)
(* the pool before it to the pool after it, so that the callers that make  *)
(* several calls under one lock can be composed of them.  The actions      *)
(* apply them the way GNGAlgorithm does: it adds an edge only between two  *)
(* nodes that have none (it asks isEdge first, or one node is new) and     *)
(* deletes a node only once its edgesCount is 0.                           *)
(*                                                                         *)
(* Positions, errors and utilities are not part of the model, nor the      *)
(* order of an edge list, which no operation depends on.                   *)
(***************************************************************************)
EXTENDS Integers, FiniteSets

CONSTANTS
  PoolSize,    \* initial_pool_size
  MaxPoolSize, \* bound: the pool does not grow beyond this
  MaxCount     \* bound: no graph with a larger edgesCount is saved

ASSUME PoolAssumption ==
  /\ PoolSize \in Nat \ {0}
  /\ MaxPoolSize \in Nat /\ PoolSize <= MaxPoolSize
  /\ MaxCount \in Nat

VARIABLE pool

Nil == -1

Slots(p) == 0..(p.size - 1)

(* The fields of the class.  edgesCount means something for an occupied     *)
(* slot only: newNode sets it, GNGNode's constructor does not.              *)
HasFields(p) ==
  DOMAIN p = {"size", "occupied", "next_free", "first_free", "nodes",
              "maximum_index", "adj", "edgesCount"}

FieldTypes(p) ==
  /\ p.size \in Nat \ {0}
  /\ p.occupied \subseteq Slots(p)
  /\ p.next_free \in [Slots(p) -> Slots(p) \cup {Nil}]
  /\ p.first_free \in Slots(p) \cup {Nil}
  /\ p.nodes \in Nat
  /\ p.maximum_index \in Slots(p) \cup {Nil}
  /\ p.adj \in [Slots(p) -> SUBSET Slots(p)]
  /\ p.edgesCount \in [Slots(p) -> Nat]

IsPool(p) == HasFields(p) /\ FieldTypes(p)

PoolTypeOK == IsPool(pool)

-----------------------------------------------------------------------------
(* What the methods read. *)

(* A slot counts as a node only if its index is below the number of nodes,  *)
(* so a node above a hole in the pool can be out of sight.                  *)
existsNode(p, i) == i < p.nodes /\ i \in p.occupied

isEdge(p, a, b) == b \in p.adj[a]

(* serialize writes the nodes existsNode sees, and the header and the free  *)
(* list as they are; an edge is added again from the lower of its ends.     *)
Kept(p) == {i \in Slots(p) : existsNode(p, i)}

Linked(p, i, j) == i < j /\ i \in Kept(p) /\ j \in p.adj[i]

-----------------------------------------------------------------------------
(* Seeded faults: each is an operator below with a plausible mistake in it. *)

FaultResize(p) ==    \* the last slot's next_free does not end the list
  [p EXCEPT !.size       = 2 * p.size,
            !.next_free  = [i \in 0..(2 * p.size - 1) |->
                              IF i < p.size - 1 THEN p.next_free[i]
                              ELSE IF i = 2 * p.size - 1 THEN p.size ELSE i + 1],
            !.first_free = p.size,
            !.adj        = [i \in 0..(2 * p.size - 1) |->
                              IF i < p.size THEN p.adj[i] ELSE {}],
            !.edgesCount = [i \in 0..(2 * p.size - 1) |->
                              IF i < p.size THEN p.edgesCount[i] ELSE 0]]

FaultDeleteChain(p, x) ==    \* the slot is not put before the old head
  IF ~existsNode(p, x) THEN p
  ELSE [p EXCEPT !.nodes         = @ - 1,
                 !.maximum_index = IF @ = x THEN @ - 1 ELSE @,
                 !.occupied      = @ \ {x},
                 !.first_free    = x]

FaultDeleteIndex(p, x) ==    \* the index steps down for any node
  IF ~existsNode(p, x) THEN p
  ELSE [p EXCEPT !.nodes         = @ - 1,
                 !.maximum_index = @ - 1,
                 !.occupied      = @ \ {x},
                 !.next_free     = [@ EXCEPT ![x] = p.first_free],
                 !.first_free    = x]

FaultDeleteCount(p, x) ==    \* nodes is not decremented
  IF ~existsNode(p, x) THEN p
  ELSE [p EXCEPT !.maximum_index = IF @ = x THEN @ - 1 ELSE @,
                 !.occupied      = @ \ {x},
                 !.next_free     = [@ EXCEPT ![x] = p.first_free],
                 !.first_free    = x]

FaultAdd(p, a, b) ==    \* the edge is counted at one end only
  [p EXCEPT
     !.adj        = [p.adj EXCEPT ![a] = @ \cup {b}, ![b] = @ \cup {a}],
     !.edgesCount = [p.edgesCount EXCEPT ![a] = @ + 1]]

FaultRemove(p, a, b) ==    \* the reverse edge stays in the other list
  IF ~isEdge(p, a, b) THEN p
  ELSE [p EXCEPT
          !.adj        = [p.adj EXCEPT ![a] = @ \ {b}],
          !.edgesCount = [p.edgesCount EXCEPT ![a] = @ - 1, ![b] = @ - 1]]

FaultLoadedCount(p, i) ==    \* edgesCount is neither read nor counted up
  0

-----------------------------------------------------------------------------
(* The methods of the class. *)

NewPool ==
  [size          |-> PoolSize,
   occupied      |-> {},
   next_free     |-> [i \in 0..(PoolSize - 1) |->
                        IF i = PoolSize - 1 THEN Nil ELSE i + 1],
   first_free    |-> 0,
   nodes         |-> 0,
   maximum_index |-> Nil,
   adj           |-> [i \in 0..(PoolSize - 1) |-> {}],
   edgesCount    |-> [i \in 0..(PoolSize - 1) |-> 0]]

resizeGraph(p) ==
  [p EXCEPT !.size       = 2 * p.size,
            !.next_free  = [i \in 0..(2 * p.size - 1) |->
                              IF i < p.size - 1 THEN p.next_free[i]
                              ELSE IF i = 2 * p.size - 1 THEN Nil ELSE i + 1],
            !.first_free = p.size,
            !.adj        = [i \in 0..(2 * p.size - 1) |->
                              IF i < p.size THEN p.adj[i] ELSE {}],
            !.edgesCount = [i \in 0..(2 * p.size - 1) |->
                              IF i < p.size THEN p.edgesCount[i] ELSE 0]]

(* The slot is taken from the head of the free list. *)
takeSlot(p) ==
  [p EXCEPT !.occupied      = @ \cup {p.first_free},
            !.maximum_index = IF p.first_free > @ THEN p.first_free ELSE @,
            !.edgesCount    = [@ EXCEPT ![p.first_free] = 0],
            !.first_free    = p.next_free[@],
            !.nodes         = @ + 1]

newNode(p) == takeSlot(IF p.first_free = Nil THEN resizeGraph(p) ELSE p)

(* A node existsNode does not see is not deleted.  maximum_index steps down *)
(* by one only, to a slot that may be free.                                 *)
deleteNode(p, x) ==
  IF ~existsNode(p, x) THEN p
  ELSE [p EXCEPT !.nodes         = @ - 1,
                 !.maximum_index = IF @ = x THEN @ - 1 ELSE @,
                 !.occupied      = @ \ {x},
                 !.next_free     = [@ EXCEPT ![x] = p.first_free],
                 !.first_free    = x]

addUDEdge(p, a, b) ==
  [p EXCEPT
     !.adj        = [p.adj EXCEPT ![a] = @ \cup {b}, ![b] = @ \cup {a}],
     !.edgesCount = [p.edgesCount EXCEPT ![a] = @ + 1, ![b] = @ + 1]]

removeUDEdge(p, a, b) ==
  IF ~isEdge(p, a, b) THEN p
  ELSE [p EXCEPT
          !.adj        = [p.adj EXCEPT ![a] = @ \ {b}, ![b] = @ \ {a}],
          !.edgesCount = [p.edgesCount EXCEPT ![a] = @ - 1, ![b] = @ - 1]]

LoadedEdges(p, i) == {j \in Slots(p) : Linked(p, i, j) \/ Linked(p, j, i)}

(* load counts the edges it adds on top of the edgesCount it has read.      *)
LoadedCount(p, i) ==
  (IF i \in Kept(p) THEN p.edgesCount[i] ELSE 0)
    + Cardinality(LoadedEdges(p, i))

Reloaded(p) ==
  [p EXCEPT !.occupied   = Kept(p),
            !.adj        = [i \in Slots(p) |-> LoadedEdges(p, i)],
            !.edgesCount = [i \in Slots(p) |-> LoadedCount(p, i)]]

-----------------------------------------------------------------------------
(* What convertToIGraph makes of a pool.  Nodes in sight are numbered in    *)
(* their order, unless the last index says that there is no hole; any other *)
(* slot keeps its own number.                                               *)
ExportIndex(p, i) ==
  IF p.maximum_index + 1 # p.nodes /\ existsNode(p, i)
  THEN Cardinality({j \in Kept(p) : j < i}) ELSE i

(* Of each node in sight the edges to neighbours after it. *)
EdgesAfter(p) ==
  {e \in Kept(p) \X Slots(p) : e[1] < e[2] /\ isEdge(p, e[1], e[2])}

FaultExported(p) ==    \* neighbours keep their number
  {{ExportIndex(p, e[1]), e[2]} : e \in EdgesAfter(p)}

Exported(p) ==
  {{ExportIndex(p, e[1]), ExportIndex(p, e[2])} : e \in EdgesAfter(p)}

-----------------------------------------------------------------------------
PoolInit == pool = NewPool

NewNode ==
  /\ pool.first_free = Nil => 2 * pool.size <= MaxPoolSize
  /\ pool' = newNode(pool)

DeleteNode(x) ==
  /\ x \in pool.occupied /\ pool.edgesCount[x] = 0
  /\ pool' = deleteNode(pool, x)

AddUDEdge(a, b) ==
  /\ a \in pool.occupied /\ b \in pool.occupied /\ a # b
  /\ ~isEdge(pool, a, b)
  /\ pool' = addUDEdge(pool, a, b)

RemoveUDEdge(a, b) ==
  /\ a \in pool.occupied /\ isEdge(pool, a, b)
  /\ pool' = removeUDEdge(pool, a, b)

(* gngSave, and gngLoad of the file into the graph of another server, which *)
(* is the one followed from here on.                                        *)
Reload ==
  /\ \A x \in Slots(pool) : pool.edgesCount[x] <= MaxCount
  /\ pool' = Reloaded(pool)

PoolNext ==
  \/ NewNode
  \/ \E x \in Slots(pool) : DeleteNode(x)
  \/ \E a, b \in Slots(pool) : AddUDEdge(a, b) \/ RemoveUDEdge(a, b)

PoolSpec == PoolInit /\ [][PoolNext]_pool

ReloadSpec == PoolInit /\ [][PoolNext \/ Reload]_pool

-----------------------------------------------------------------------------
(* Safety that also holds of a graph that was loaded *)

(* newNode asserts that the slot it takes has no edges (gng_graph.hpp:147), *)
(* and it never takes one that is occupied.                                 *)
FreeHeadIsFree ==
  pool.first_free # Nil =>
    pool.first_free \notin pool.occupied /\ pool.adj[pool.first_free] = {}

(* Loops over 0..get_maximum_index() miss no node, although deleteNode only *)
(* steps the index down by one.                                             *)
MaximumIndexCoversNodes == \A x \in pool.occupied : x <= pool.maximum_index

(* An edge is in both its ends' lists, so following rev from either end     *)
(* comes back.                                                              *)
EdgesSymmetric ==
  \A a, b \in Slots(pool) : isEdge(pool, a, b) <=> isEdge(pool, b, a)

(* deleteNode asserts that the node has no edges left (gng_graph.hpp:179);  *)
(* its callers only know that edgesCount is 0.                              *)
CountZeroMeansNoEdges ==
  \A x \in pool.occupied : pool.edgesCount[x] = 0 => pool.adj[x] = {}

(* No edge leads to a slot that holds no node (its position is null then).  *)
(* A loaded graph has such edges when the saved one had a node out of sight.*)
EdgesJoinNodes == \A x \in Slots(pool) : pool.adj[x] \subseteq pool.occupied

(* As long as every node is in sight and no edge leads out of the graph, R  *)
(* is given the graph there is: nodes that differ have different numbers,   *)
(* and exactly the pairs with an edge are joined ("Warning: This is a hack. *)
(* If there is a bug look for it here", gng.R:1064).  A neighbour out of    *)
(* the graph keeps the number of its slot, which may be the one that some   *)
(* node in sight is given.                                                  *)
ExportKeepsGraph ==
  Kept(pool) = pool.occupied /\ EdgesJoinNodes =>
    \A a, b \in pool.occupied : a # b =>
      /\ ExportIndex(pool, a) # ExportIndex(pool, b)
      /\ isEdge(pool, a, b) <=>
           {ExportIndex(pool, a), ExportIndex(pool, b)} \in Exported(pool)

-----------------------------------------------------------------------------
(* Safety of a graph that was not loaded *)

(* The n-th slot of the free list, Nil after its end. *)
FreeChain[n \in Nat] ==
  IF n = 0 THEN pool.first_free
  ELSE IF FreeChain[n - 1] = Nil THEN Nil
  ELSE pool.next_free[FreeChain[n - 1]]

(* The free list ends, and holds every slot that is not occupied: the pool  *)
(* never grows while it has room and no deleted slot is lost.               *)
FreeListIsComplete ==
  /\ FreeChain[pool.size] = Nil
  /\ {FreeChain[n] : n \in Slots(pool)} \ {Nil} = Slots(pool) \ pool.occupied

(* The counts are what they say.  get_number_nodes() is the number of       *)
(* nodes; edgesCount is the number of edges, so that adapt, which deletes a *)
(* node when the count reaches 0, deletes exactly the isolated ones.        *)
CountsExact ==
  /\ pool.nodes = Cardinality(pool.occupied)
  /\ \A x \in pool.occupied : pool.edgesCount[x] = Cardinality(pool.adj[x])

-----------------------------------------------------------------------------
(* A graph that is not loaded is a NodeStore. *)

LinksOf(p) == UNION {{{a, b} : b \in p.adj[a]} : a \in Slots(p)}

Store == INSTANCE NodeStore
           WITH Names <- 0..(MaxPoolSize - 1), live <- pool.occupied,
                links <- LinksOf(pool)

ImplementsStore == Store!Spec
=============================================================================
