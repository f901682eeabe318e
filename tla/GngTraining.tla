----------------------------- MODULE GngTraining -----------------------------
(***************************************************************************)
(* What the worker of GNGAlgorithm does to the graph while it holds the    *)
(* locks: randomInit once, then batches of m_lambda calls of adapt, each   *)
(* batch followed by addNewNode.  The graph is the pool of GraphPool, and  *)
(* every call that changes it is a step here, so that this module also     *)
(* says whether its callers keep to what a pool asks of them.              *)
(*                                                                         *)
(* Positions, errors and utilities are abstracted: any two nodes the       *)
(* search can see may be the nearest ones, any node addNewNode can see may *)
(* have the largest error and any node the smallest utility.  Ages are     *)
(* kept, because removing edges and nodes hangs on them.  The pool has a   *)
(* set for a node's list of edges; the list that adapt scans is put in     *)
(* some order when the scan begins.                                        *)
(*                                                                         *)
(* Covered is the exact search, without the lazy heap; the uniform grid    *)
(* and what training does to it are the subject of UniformGrid.            *)
(***************************************************************************)
EXTENDS GraphPool, SequencesExt

CONSTANTS
  MaxNodes,   \* m_max_nodes
  MaxAge,     \* m_max_age
  Lambda,     \* m_lambda
  Utility,    \* m_utility_option == BasicUtility
  MinNodes    \* utilityCriterionCheck removes no node below this (10)

ASSUME TrainingAssumption ==
  /\ MaxNodes \in Nat /\ MaxNodes >= 2 /\ MaxAge \in Nat
  /\ Lambda \in Nat \ {0} /\ MinNodes \in Nat
  /\ Utility \in BOOLEAN

VARIABLES
  pc,     \* where the worker is
  s,      \* calls of adapt in this batch
  age,    \* of every GNGEdge, named by its list's node and its nr
  n0, n1, \* nearest_0 and nearest_1, or addNewNode's two largest errors
  nr,     \* the node at the other end of a removed edge, or the new node
  edges,  \* nearest_0's list in the scan: the other ends of its edges
  edg,    \* the iterator: a position in edges, or the one after the last
  aged    \* auxiliary: the edges of nearest_0 that this scan made older

scanVars == <<edges, edg, aged>>
vars == <<pool, pc, s, age, n0, n1, nr, scanVars>>

Labels == {"seed0", "seed1", "search", "link", "scan", "expire", "orphan",
           "lonely", "cull", "strip", "grow", "split", "join0", "join1",
           "rest"}

Ends(p) == {e \in Slots(p) \X Slots(p) : e[2] \in p.adj[e[1]]}

Node == Slots(pool) \cup {Nil}

TypeOK ==
  /\ PoolTypeOK
  /\ pc \in Labels /\ s \in 0..Lambda
  /\ age \in [Ends(pool) -> Nat]
  /\ edges \in Seq(Slots(pool)) /\ edg \in Nat /\ aged \subseteq Slots(pool)
  /\ n0 \in Node /\ n1 \in Node /\ nr \in Node

Init ==
  /\ PoolInit
  /\ pc = "seed0" /\ s = 0 /\ age = [e \in {} |-> 0]
  /\ n0 = Nil /\ n1 = Nil /\ nr = Nil
  /\ edges = <<>> /\ edg = 1 /\ aged = {}

-----------------------------------------------------------------------------
(* What a search for the two nearest nodes can return. *)
Visible == {x \in Slots(pool) : existsNode(pool, x)}

Rev(e) == <<e[2], e[1]>>

(* The pool becomes p: removed edges take their ages along, new ones are 0. *)
SetPool(p) ==
  /\ pool' = p
  /\ age' = [e \in Ends(p) |-> IF e \in DOMAIN age THEN age[e] ELSE 0]

(* The bound on the pool's size. *)
Room == pool.first_free = Nil => 2 * pool.size <= MaxPoolSize

Goto(from, to) == pc = from /\ pc' = to

(* The local variables of adapt and addNewNode go out of scope. *)
Return ==
  /\ n0' = Nil /\ n1' = Nil /\ nr' = Nil
  /\ edges' = <<>> /\ edg' = 1 /\ aged' = {}

-----------------------------------------------------------------------------
(* Seeded faults: each is an operator below with a plausible mistake in it. *)

FaultAge ==    \* the edge to nearest_1 grows older too
  LET n == edges[edg]
      v == age[<<n0, n>>] + 1
  IN  /\ edg <= Len(edges)
      /\ Goto("scan", IF v > MaxAge THEN "expire" ELSE "scan")
      /\ age' = [age EXCEPT ![<<n0, n>>] = v, ![<<n, n0>>] = v]
      /\ aged' = aged \cup {n}
      /\ IF v > MaxAge THEN nr' = n /\ UNCHANGED edg ELSE edg' = edg + 1 /\ UNCHANGED nr
      /\ UNCHANGED <<pool, s, n0, n1, edges>>

FaultAgeRev ==    \* rev does not grow older
  LET n == edges[edg]
      v == IF n = n1 THEN 0 ELSE age[<<n0, n>>] + 1
  IN  /\ edg <= Len(edges)
      /\ Goto("scan", IF v > MaxAge THEN "expire" ELSE "scan")
      /\ age' = [age EXCEPT ![<<n0, n>>] = v]
      /\ aged' = aged \cup {n}
      /\ IF v > MaxAge THEN nr' = n /\ UNCHANGED edg ELSE edg' = edg + 1 /\ UNCHANGED nr
      /\ UNCHANGED <<pool, s, n0, n1, edges>>

FaultAgeAgain ==    \* the iterator is stepped back though nothing was erased
  LET n == edges[edg]
      v == IF n = n1 THEN 0 ELSE age[<<n0, n>>] + 1
      w == IF n = n1 THEN 0 ELSE age[<<n, n0>>] + 1
  IN  /\ edg <= Len(edges)
      /\ Goto("scan", IF v > MaxAge THEN "expire" ELSE "scan")
      /\ age' = [age EXCEPT ![<<n0, n>>] = v, ![<<n, n0>>] = w]
      /\ aged' = aged \cup {n}
      /\ IF v > MaxAge THEN nr' = n /\ UNCHANGED edg ELSE edg' = (edg - 1) + 1 /\ UNCHANGED nr
      /\ UNCHANGED <<pool, s, n0, n1, edges>>

FaultLonely ==    \* the iterator is not stepped back
  /\ Goto("lonely", "scan")
  /\ IF pool.edgesCount[n0] = 0 /\ ~Utility
     THEN SetPool(deleteNode(pool, n0)) /\ edg' = Len(edges) + 1
     ELSE /\ edg' = IF edg <= Len(edges) THEN edg + 1 ELSE edg
          /\ UNCHANGED <<pool, age>>
  /\ nr' = Nil
  /\ UNCHANGED <<s, n0, n1, edges, aged>>

FaultOrphan ==    \* the winner's count is looked at, not the other end's
  /\ Goto("orphan", "lonely")
  /\ IF pool.edgesCount[n0] = 0 /\ ~Utility
     THEN SetPool(deleteNode(pool, nr))
     ELSE UNCHANGED <<pool, age>>
  /\ UNCHANGED <<s, n0, n1, nr, scanVars>>

(* adapt returns to the loop over s. *)
EndAdapt ==
  /\ s' = s + 1
  /\ pc' = IF s + 1 < Lambda THEN "search" ELSE "grow"
  /\ Return

FaultCulled ==    \* the edges are not removed first
  /\ pc = "strip"
  /\ SetPool(deleteNode(pool, nr))
  /\ EndAdapt

FaultGrow(x, y) ==    \* m_max_nodes < get_number_nodes() stops growing
  /\ pool.nodes <= MaxNodes /\ pool.edgesCount[x] # 0
  /\ Room
  /\ Goto("grow", "split")
  /\ SetPool(newNode(pool))
  /\ n0' = x /\ n1' = y
  /\ nr' = CHOOSE n \in pool'.occupied : n \notin pool.occupied
  /\ UNCHANGED <<s, scanVars>>

-----------------------------------------------------------------------------
(* randomInit *)

Seed0 ==
  /\ Room /\ Goto("seed0", "seed1")
  /\ SetPool(newNode(pool))
  /\ UNCHANGED <<s, n0, n1, nr, scanVars>>

Seed1 ==
  /\ Room /\ Goto("seed1", "search")
  /\ SetPool(newNode(pool))
  /\ UNCHANGED <<s, n0, n1, nr, scanVars>>

-----------------------------------------------------------------------------
(* adapt *)

(* _getNearestNeurons.  With fewer than two nodes in sight the loops of the *)
(* exact search do not end: the worker gets no further.                     *)
Search(a, b) ==
  /\ a # b
  /\ Goto("search", "link")
  /\ n0' = a /\ n1' = b
  /\ UNCHANGED <<pool, s, age, nr, scanVars>>

(* A new edge is the last one of the list. *)
Link ==
  /\ Goto("link", "scan")
  /\ IF isEdge(pool, n0, n1)
     THEN UNCHANGED <<pool, age>> /\ edges' \in SetToSeqs(pool.adj[n0])
     ELSE /\ SetPool(addUDEdge(pool, n0, n1))
          /\ edges' \in {Append(q, n1) : q \in SetToSeqs(pool.adj[n0])}
  /\ edg' = 1 /\ aged' = {}
  /\ UNCHANGED <<s, n0, n1, nr>>

(* The edge at the iterator grows older, but the one to nearest_1 is new    *)
(* again.  ++edg, unless it has to go.                                      *)
Age ==
  LET n == edges[edg]
      v == IF n = n1 THEN 0 ELSE age[<<n0, n>>] + 1
      w == IF n = n1 THEN 0 ELSE age[<<n, n0>>] + 1
  IN  /\ edg <= Len(edges)
      /\ Goto("scan", IF v > MaxAge THEN "expire" ELSE "scan")
      /\ age' = [age EXCEPT ![<<n0, n>>] = v, ![<<n, n0>>] = w]
      /\ aged' = aged \cup {n}
      /\ IF v > MaxAge THEN nr' = n /\ UNCHANGED edg ELSE edg' = edg + 1 /\ UNCHANGED nr
      /\ UNCHANGED <<pool, s, n0, n1, edges>>

(* removeUDEdge erases it from both lists and returns the place of the one  *)
(* that follows.                                                            *)
Expire ==
  /\ Goto("expire", "orphan")
  /\ SetPool(removeUDEdge(pool, n0, nr))
  /\ edges' = RemoveAt(edges, edg) /\ aged' = aged \ {nr}
  /\ UNCHANGED <<s, n0, n1, nr, edg>>

(* A node whose last edge went is removed, if existsNode sees it.           *)
Orphan ==
  /\ Goto("orphan", "lonely")
  /\ IF pool.edgesCount[nr] = 0 /\ ~Utility
     THEN SetPool(deleteNode(pool, nr))
     ELSE UNCHANGED <<pool, age>>
  /\ UNCHANGED <<s, n0, n1, nr, scanVars>>

(* The same for the winner, "shouldn't happen", which ends the scan.  Else  *)
(* --edg and ++edg, unless it is at the end.                                *)
Lonely ==
  /\ Goto("lonely", "scan")
  /\ IF pool.edgesCount[n0] = 0 /\ ~Utility
     THEN SetPool(deleteNode(pool, n0)) /\ edg' = Len(edges) + 1
     ELSE /\ edg' = IF edg <= Len(edges) THEN (edg - 1) + 1 ELSE edg
          /\ UNCHANGED <<pool, age>>
  /\ nr' = Nil
  /\ UNCHANGED <<s, n0, n1, edges, aged>>

ScanDone ==
  /\ pc = "scan" /\ edg > Len(edges)
  /\ IF Utility THEN pc' = "cull" /\ Return /\ UNCHANGED s ELSE EndAdapt
  /\ UNCHANGED <<pool, age>>

(* utilityCriterionCheck: the least useful node loses its edges and goes,   *)
(* if existsNode sees it and it is bad enough.                              *)
Cull(x) ==
  /\ pool.nodes >= MinNodes
  /\ Goto("cull", "strip")
  /\ nr' = x
  /\ UNCHANGED <<pool, s, age, n0, n1, scanVars>>

Spare == pc = "cull" /\ EndAdapt /\ UNCHANGED <<pool, age>>

Strip(n) ==
  /\ Goto("strip", "strip")
  /\ SetPool(removeUDEdge(pool, nr, n))
  /\ UNCHANGED <<s, n0, n1, nr, scanVars>>

Culled ==
  /\ pc = "strip" /\ pool.adj[nr] = {}
  /\ SetPool(deleteNode(pool, nr))
  /\ EndAdapt

-----------------------------------------------------------------------------
(* addNewNode, when LargestErrorNodes finds x and its neighbour y.          *)

Grow(x, y) ==
  /\ pool.nodes < MaxNodes /\ pool.edgesCount[x] # 0
  /\ Room
  /\ Goto("grow", "split")
  /\ SetPool(newNode(pool))
  /\ n0' = x /\ n1' = y
  /\ nr' = CHOOSE n \in pool'.occupied : n \notin pool.occupied
  /\ UNCHANGED <<s, scanVars>>

(* LargestErrorNodes deletes a largest node that has no edges, and nothing  *)
(* is added.                                                                *)
Discard(x) ==
  /\ pool.nodes < MaxNodes /\ pool.edgesCount[x] = 0
  /\ Goto("grow", "rest")
  /\ SetPool(deleteNode(pool, x))
  /\ UNCHANGED <<s, n0, n1, nr, scanVars>>

Full ==
  /\ pool.nodes >= MaxNodes
  /\ Goto("grow", "rest")
  /\ UNCHANGED <<pool, s, age, n0, n1, nr, scanVars>>

Split ==
  /\ Goto("split", "join0")
  /\ SetPool(removeUDEdge(pool, n0, n1))
  /\ UNCHANGED <<s, n0, n1, nr, scanVars>>

Join0 ==
  /\ Goto("join0", "join1")
  /\ SetPool(addUDEdge(pool, n0, nr))
  /\ UNCHANGED <<s, n0, n1, nr, scanVars>>

Join1 ==
  /\ Goto("join1", "rest")
  /\ SetPool(addUDEdge(pool, nr, n1))
  /\ Return
  /\ UNCHANGED s

(* The next batch begins. *)
Rest ==
  /\ Goto("rest", "search")
  /\ s' = 0
  /\ UNCHANGED <<pool, age, n0, n1, nr, scanVars>>

-----------------------------------------------------------------------------
Next ==
  \/ Seed0 \/ Seed1
  \/ \E a, b \in Visible : Search(a, b)
  \/ Link \/ Age \/ Expire \/ Orphan \/ Lonely \/ ScanDone
  \/ (\E x \in Visible : Cull(x)) \/ Spare
  \/ (\E n \in IF nr = Nil THEN {} ELSE pool.adj[nr] : Strip(n)) \/ Culled
  \/ (\E x \in Visible : \E y \in pool.adj[x] : Grow(x, y))
  \/ (\E x \in Visible : Discard(x))
  \/ Full \/ Split \/ Join0 \/ Join1 \/ Rest

Spec == Init /\ [][Next]_vars

(* The worker, once it holds the locks, is not stopped. *)
FairSpec == Spec /\ WF_vars(Next)

-----------------------------------------------------------------------------
(* Safety *)

Scanning == {"scan", "expire", "orphan", "lonely"}

(* The branch of adapt that "shouldn't happen" does not: the winner keeps   *)
(* its edge to the second nearest node through the whole scan.              *)
WinnerKeepsNeighbour ==
  pc \in Scanning => isEdge(pool, n0, n1) /\ pool.edgesCount[n0] # 0

(* An edge and its rev have the same age, and it is at most m_max_age       *)
(* whenever no adapt is under way.                                          *)
EdgesStayYoung ==
  \A e \in DOMAIN age :
    age[e] = age[Rev(e)] /\ (pc # "expire" => age[e] <= MaxAge)

(* The graph never has more than m_max_nodes nodes. *)
NodesBounded == Cardinality(pool.occupied) <= MaxNodes

(* adapt makes every edge of the winner older exactly once, though edges    *)
(* that expire are erased from the list under the iterator: the edges       *)
(* before it have grown older, those from it on have not, and a scan that   *)
(* is done has met all there are.                                           *)
ScanMeetsEachEdge ==
  pc = "scan" =>
    /\ Range(edges) = pool.adj[n0]
    /\ aged = {edges[k] : k \in 1..(edg - 1)}
    /\ \A k \in edg..Len(edges) : edges[k] \notin aged

(* When an edge has aged out and was the last one of its other end, that    *)
(* node is gone with it, if existsNode sees it.                             *)
OrphansAreRemoved ==
  pc = "lonely" /\ nr \in Visible /\ ~Utility => pool.adj[nr] # {}

(* adapt and addNewNode call newNode, deleteNode, addUDEdge and             *)
(* removeUDEdge only as GraphPool allows it.                                *)
KeepsPoolContract == PoolSpec

(* Without utility a node has an edge whenever a batch ends (the check      *)
(* under GMUM_DEBUG, gng_algorithm.cpp:726-732).                            *)
NoIsolatedNodes ==
  pc = "grow" /\ ~Utility =>
    \A x \in Visible : pool.adj[x] # {}

-----------------------------------------------------------------------------
(* Liveness *)

(* The scan of adapt, which erases from the list it iterates over, ends. *)
ScanEnds == pc = "scan" ~> pc \in {"search", "grow"}
=============================================================================
