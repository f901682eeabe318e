---------------------------- MODULE LazyErrorHeap -----------------------------
(***************************************************************************)
(* The lazy error heap of online training: GNGLazyErrorHeap over Heap, and *)
(* the operations of GNGAlgorithm on it.  Each cycle of m_lambda calls of  *)
(* adapt ends with addNewNode, which wants the node with the largest       *)
(* error.  All errors decay by a factor each cycle; a node's error is      *)
(* brought up to date only when it is touched (fixErrorNew), and a node    *)
(* whose error changed leaves the heap for the list L, which the next      *)
(* addNewNode enters into the heap again.                                  *)
(*                                                                         *)
(* Errors are integers; Decay is what betha^lambda makes of one after some *)
(* cycles, and alpha is one half, rounded down.                            *)
(* Of the graph the model has which slots hold a node and which of these   *)
(* have no edges.  adapt takes any two nodes for the nearest ones; others  *)
(* may lose their last edge.  A node that is picked has any of the nodes   *)
(* with edges as neighbours.  A free slot is taken in any order.  The heap *)
(* is a sequence from 1 where the code's vector begins at 0.               *)
(***************************************************************************)
EXTENDS Naturals, FiniteSets, SequencesExt

CONSTANTS
  Slots,      \* the slots of the pool
  InitNodes,  \* how many nodes the graph may begin with
  MaxNodes,   \* m_max_nodes
  Lambda,     \* m_lambda
  LoadedErrs, \* the errors a loaded graph may begin with
  Amounts,    \* what adapt may add to an error
  MaxErr,     \* bound on a node's error
  MaxCycle,   \* bound on c
  Decay(_, _) \* an error after a number of cycles

ASSUME HeapAssumption ==
  /\ IsFiniteSet(Slots) /\ MaxNodes \in Nat /\ MaxNodes >= 2
  /\ Lambda \in Nat \ {0} /\ MaxErr \in Nat /\ MaxCycle \in Nat
  /\ Amounts \subseteq Nat /\ LoadedErrs \subseteq 0..MaxErr

(* Errors decay: check_correctness lets beta be at most 1. *)
ASSUME DecayAssumption ==
  \A e \in 0..MaxErr, k \in 0..MaxCycle :
    Decay(e, k) \in 0..e /\ Decay(e, 0) = e

VARIABLES
  live,     \* slots that hold a node
  bare,     \* the nodes without edges
  err,      \* GNGNode::error
  cyc,      \* GNGNode::error_cycle
  c, s,     \* the cycle, and the calls of adapt in it
  heap,     \* m_heap: HeapNodes with their ErrorNode (error, i) and their key
  buffer,   \* the i for which m_buffer points to a HeapNode
  L,        \* the list of nodes to be inserted
  onlist,   \* m_isonlist
  pc,       \* where addNewNode is
  picked,   \* largest[0]
  stale,    \* auxiliary: entries left behind by a deleted node
  lost      \* auxiliary: nodes picked when they had no edges, and not entered
            \* again since

vars == <<live, bare, err, cyc, c, s, heap, buffer, L, onlist, pc, picked, stale, lost>>

HeapNode == [error : Nat, i : Slots, key : Nat]
Heap == Seq(HeapNode)

-----------------------------------------------------------------------------
(* Heap *)

parent(i) == i \div 2

(* The HeapNodes at i and j change places and have their keys set. *)
Swap(h, i, j) ==
  [h EXCEPT ![i] = [h[j] EXCEPT !.key = i], ![j] = [h[i] EXCEPT !.key = j]]

(* moveUp and moveDown are at i in the heap h and go on from there, one     *)
(* level at a time; the node they stop at has its key set.                  *)
At(h, i) == [h |-> h, i |-> i]

Settled(a) == [a.h EXCEPT ![a.i].key = a.i]

Up(a) ==
  LET p == parent(a.i)
  IN  IF a.i > 1 /\ a.h[a.i].error > a.h[p].error THEN At(Swap(a.h, a.i, p), p) ELSE a

Climb(h, i) ==
  LET f[n \in 0..Len(h)] == IF n = 0 THEN At(h, i) ELSE Up(f[n - 1]) IN f[Len(h)]

moveUp(h, i) == Settled(Climb(h, i))

LargerChild(h, i) ==
  LET j == 2 * i IN IF j < Len(h) /\ h[j + 1].error > h[j].error THEN j + 1 ELSE j

Down(a) ==
  LET j == LargerChild(a.h, a.i)
  IN  IF 2 * a.i <= Len(a.h) /\ a.h[j].error > a.h[a.i].error
      THEN At(Swap(a.h, a.i, j), j) ELSE a

Sink(h, i) ==
  LET f[n \in 0..Len(h)] == IF n = 0 THEN At(h, i) ELSE Down(f[n - 1]) IN f[Len(h)]

moveDown(h, i) == Settled(Sink(h, i))

HeapInsert(h, e, x) ==
  moveUp(Append(h, [error |-> e, i |-> x, key |-> 0]), Len(h) + 1)

(* The last HeapNode takes the place of the one at i, and one node less.    *)
LastTo(h, i) ==
  [k \in 1..(Len(h) - 1) |-> IF k = i THEN [h[Len(h)] EXCEPT !.key = i] ELSE h[k]]

HeapRemove(h, x) ==
  LET i == (CHOOSE n \in {h[k] : k \in 1..Len(h)} : n.i = x).key
      g == LastTo(h, i)
  IN  IF i > Len(g) THEN g
      ELSE IF i > 1 /\ g[i].error > g[parent(i)].error THEN moveUp(g, i)
      ELSE moveDown(g, i)

HeapExtract(h) == LET g == LastTo(h, 1) IN IF g = <<>> THEN g ELSE moveDown(g, 1)

-----------------------------------------------------------------------------
(* GNGLazyErrorHeap, on a record of its fields. *)

Queue == [heap |-> heap, buffer |-> buffer, L |-> L, onlist |-> onlist]

SetQueue(q) ==
  heap' = q.heap /\ buffer' = q.buffer /\ L' = q.L /\ onlist' = q.onlist

insertLazy(q, x) ==
  IF x \in q.onlist THEN q
  ELSE [q EXCEPT !.L = Append(q.L, x), !.onlist = q.onlist \cup {x}]

FaultUpdateLazy(q, x) ==    \* a node that is in the heap stays there
  insertLazy(q, x)

FaultUpdateUnlisted(q, x) ==    \* taken out of the heap, but not listed
  IF x \in q.buffer
  THEN [q EXCEPT !.heap = HeapRemove(q.heap, x), !.buffer = q.buffer \ {x}]
  ELSE insertLazy(q, x)

updateLazy(q, x) ==
  insertLazy(IF x \in q.buffer
             THEN [q EXCEPT !.heap = HeapRemove(q.heap, x), !.buffer = q.buffer \ {x}]
             ELSE q, x)

FaultInsert(q, x) ==    \* an entry there is gets a second one
  [q EXCEPT !.heap = HeapInsert(q.heap, err[x], x), !.buffer = q.buffer \cup {x},
            !.onlist = q.onlist \ {x}]

(* An entry there is stays as it is. *)
insert(q, x) ==
  IF x \in q.buffer THEN [q EXCEPT !.onlist = q.onlist \ {x}]
  ELSE [q EXCEPT !.heap = HeapInsert(q.heap, err[x], x), !.buffer = q.buffer \cup {x},
                 !.onlist = q.onlist \ {x}]

(* LargestErrorNodesLazy enters the list. *)
Entered(q) ==
  LET f[k \in 0..Len(q.L)] == IF k = 0 THEN q ELSE insert(f[k - 1], q.L[k])
  IN  f[Len(q.L)]

insertAll(q) == [Entered(q) EXCEPT !.L = <<>>]

-----------------------------------------------------------------------------
(* A node's error as it would be after fixErrorNew. *)
Current(x) == Decay(err[x], c - cyc[x])

fixErrorNew(S) ==
  /\ err' = [x \in Slots |-> IF x \in S THEN Current(x) ELSE err[x]]
  /\ cyc' = [x \in Slots |-> IF x \in S THEN c ELSE cyc[x]]

(* Entries of deleted nodes stay until they are extracted or replaced. *)
Stale(kept) == stale' = (buffer' \ live') \cup (stale \cap buffer' \cap kept)

(* randomInit makes two nodes without errors and without edges; a loaded    *)
(* graph may have more, with the errors it was saved with.  Each is entered *)
(* with setErrorNew: only nodes in sight of existsNode are saved, so that   *)
(* all of a loaded graph are.  Edges it may have to free slots are left out. *)
Init ==
  /\ live \in {S \in SUBSET Slots : Cardinality(S) \in InitNodes}
  /\ bare \in SUBSET live /\ Cardinality(live \ bare) # 1 /\ lost = {}
  /\ \E e \in [live -> LoadedErrs] :
       err = [x \in Slots |-> IF x \in live THEN e[x] ELSE 0]
  /\ cyc = [x \in Slots |-> 0]
  /\ c = 0 /\ s = 0
  /\ heap = <<>> /\ buffer = {} /\ onlist = live
  /\ L \in SetToSeqs(live)
  /\ pc = "adapt" /\ picked \in live /\ stale = {}

-----------------------------------------------------------------------------
(* adapt raises the winner's error by d (increaseErrorNew) and joins it to  *)
(* m.  Of the nodes that lose their last edge it deletes D, of which the    *)
(* heap learns nothing; the others, B, stay: deleteNode refuses a node      *)
(* existsNode does not see, and a loaded one's edgesCount does not reach 0. *)
Adapt(n, m, d, D, B) ==
  /\ pc = "adapt" /\ n # m /\ D \cap B = {}
  /\ (D \cup B) \cap (bare \cup {n, m}) = {}
  /\ Current(n) + d <= MaxErr
  /\ live' = live \ D
  /\ bare' = (bare \cup B) \ {n, m}
  /\ lost' = lost \ (D \cup {n})
  /\ err' = [err EXCEPT ![n] = Current(n) + d]
  /\ cyc' = [cyc EXCEPT ![n] = c]
  /\ SetQueue(updateLazy(Queue, n))
  /\ s' = s + 1
  /\ pc' = IF s + 1 < Lambda THEN "adapt" ELSE "grow"
  /\ UNCHANGED <<c, picked>>
  /\ Stale(Slots)

(* addNewNode *)

(* The bound on cycles: the run ends with the last one. *)
EndCycle == c < MaxCycle /\ c' = c + 1 /\ s' = 0 /\ pc' = "adapt"

Full ==
  /\ pc = "grow" /\ Cardinality(live) >= MaxNodes
  /\ EndCycle
  /\ UNCHANGED <<live, bare, err, cyc, heap, buffer, L, onlist, picked, stale, lost>>

Fill ==
  /\ pc = "grow" /\ Cardinality(live) < MaxNodes
  /\ pc' = "extract"
  /\ SetQueue(insertAll(Queue))
  /\ UNCHANGED <<live, bare, err, cyc, c, s, picked, lost>>
  /\ Stale(Slots)

FaultRequeue ==    \* the entry goes back in as it was
  /\ pc = "extract" /\ heap # <<>> /\ cyc[heap[1].i] # c
  /\ LET x == heap[1].i
     IN  /\ err' = [err EXCEPT ![x] = Current(x)]
         /\ heap' = HeapInsert(HeapExtract(heap), Current(x), x)
         /\ UNCHANGED <<live, bare, cyc, c, s, buffer, L, onlist, pc, picked, lost>>
         /\ Stale(Slots \ {x})

(* The extracted error is of an earlier cycle: it decays and goes back in.  *)
Requeue ==
  /\ pc = "extract" /\ heap # <<>> /\ cyc[heap[1].i] # c
  /\ LET x == heap[1].i
     IN  /\ fixErrorNew({x})
         /\ heap' = HeapInsert(HeapExtract(heap), Current(x), x)
         /\ UNCHANGED <<live, bare, c, s, buffer, L, onlist, pc, picked, lost>>
         /\ Stale(Slots \ {x})

Pick ==
  /\ pc = "extract" /\ heap # <<>> /\ cyc[heap[1].i] = c
  /\ picked' = heap[1].i
  /\ heap' = HeapExtract(heap) /\ buffer' = buffer \ {picked'}
  /\ pc' = "split"
  /\ UNCHANGED <<live, bare, err, cyc, c, s, L, onlist, lost>>
  /\ Stale(Slots)

(* The slot that was picked holds no node, or one without edges: largest[1] *)
(* is whatever the memory held: null, and nothing is added, or a pointer    *)
(* that leads anywhere.  Either way the slot is out of the heap.            *)
NoEdges == picked \notin live \ bare

PickedNone ==
  /\ pc = "split" /\ NoEdges
  /\ EndCycle
  /\ lost' = lost \cup ({picked} \cap live)
  /\ UNCHANGED <<live, bare, err, cyc, heap, buffer, L, onlist, picked, stale>>

PickedWild ==
  /\ pc = "split" /\ NoEdges /\ pc' = "wild"
  /\ lost' = lost \cup ({picked} \cap live)
  /\ UNCHANGED <<live, bare, err, cyc, c, s, heap, buffer, L, onlist, picked, stale>>

(* The neighbours N have their errors fixed and y, the worst of them, is    *)
(* largest[1]; both ends are relieved, and z is new with their mean error.  *)
Split(N, y, z) ==
  /\ pc = "split" /\ ~NoEdges
  /\ y \in N /\ \A x \in N : Current(x) <= Current(y)
  /\ live' = live \cup {z}
  /\ LET e == [x \in Slots |-> IF x \in N \cup {picked} THEN Current(x) ELSE err[x]]
         a == e[picked] \div 2
         b == e[y] \div 2
     IN  err' = [e EXCEPT ![picked] = a, ![y] = b, ![z] = (a + b) \div 2]
  /\ cyc' = [x \in Slots |-> IF x \in N \cup {picked, z} THEN c ELSE cyc[x]]
  /\ SetQueue(insertLazy(updateLazy(updateLazy(Queue, picked), y), z))
  /\ EndCycle
  /\ lost' = lost \ {y}
  /\ UNCHANGED <<bare, picked>>
  /\ Stale(Slots)

Next ==
  \/ \E n, m \in live, d \in Amounts :
       \E D, B \in SUBSET (live \ bare) : Adapt(n, m, d, D, B)
  \/ Full \/ Fill \/ Requeue \/ Pick \/ PickedNone \/ PickedWild
  \/ \E N \in SUBSET (live \ (bare \cup {picked})) \ {{}}, z \in Slots \ live :
       \E y \in N : Split(N, y, z)

Spec == Init /\ [][Next]_vars

-----------------------------------------------------------------------------
TypeOK ==
  /\ live \subseteq Slots /\ bare \subseteq live /\ lost \subseteq live
  /\ picked \in Slots
  /\ err \in [Slots -> 0..MaxErr] /\ cyc \in [Slots -> 0..c]
  /\ c \in 0..MaxCycle /\ s \in 0..Lambda
  /\ heap \in Heap /\ L \in Seq(Slots)
  /\ pc \in {"adapt", "grow", "extract", "split", "wild"}

(* The heap is in order, every node knows its place (remove finds it by its *)
(* key), m_buffer points to the only entry of its node, and m_isonlist says *)
(* who is on the list, once each.                                           *)
HeapOK ==
  /\ TypeOK
  /\ \A k \in 1..Len(heap) :
       heap[k].key = k /\ (k > 1 => heap[k].error <= heap[parent(k)].error)
  /\ Len(heap) = Cardinality(buffer) /\ buffer = {heap[k].i : k \in 1..Len(heap)}
  /\ Len(L) = Cardinality(onlist) /\ onlist = {L[k] : k \in 1..Len(L)}

(* No node gets lost, but one that is picked when it has no edges and has   *)
(* not won since: each is in the heap, or on the list, or being split.  And *)
(* although nodes may be lost so and entries outlive their nodes, extractMax *)
(* never meets an empty heap, on which it throws.                           *)
NodesQueued ==
  /\ pc = "extract" => heap # <<>>
  /\ \A x \in live \ lost :
       x \in buffer \cup onlist \/ (pc = "split" /\ x = picked)

(* LargestErrorNodesLazy finds a largest error, decay included, without     *)
(* looking at every node: of those that are not lost, and unless a node     *)
(* took a slot of which the heap still has an entry, which insert then      *)
(* keeps, with the error of the old node.                                   *)
PicksLargest ==
  pc = "split" /\ picked \in live /\ stale \cap live = {} =>
    /\ cyc[picked] = c
    /\ \A x \in live \ lost : Current(x) <= err[picked]

(* The loop for the largest error, a do ... while (1), ends: every node     *)
(* that goes back into the heap is one fewer with an error of an earlier    *)
(* cycle.                                                                   *)
Outdated == {x \in buffer : cyc[x] # c}

ExtractAdvances ==
  [][ pc = "extract" /\ pc' = "extract" =>
        Cardinality(Outdated') < Cardinality(Outdated) ]_vars
=============================================================================
