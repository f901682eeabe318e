------------------------- MODULE GngTraining_proofs -------------------------
(***************************************************************************)
(* Proofs about the pool and the training on it.  First the methods of     *)
(* GraphPool, each on any pool, and what follows for the pool with any     *)
(* legal caller; then GngTraining: the steps of adapt and addNewNode keep  *)
(* to the contract of the pool, and what that gives for the graph.         *)
(***************************************************************************)
EXTENDS GngTraining, DataFacts

(* A set F of free slots that the free list never leaves, in which no slot  *)
(* has two predecessors and the head has none: taking the head leaves such  *)
(* a set, without it.                                                       *)
FreeList(p, F) ==
  /\ F \subseteq Slots(p)
  /\ p.first_free \in F \cup {Nil}
  /\ \A x \in F : /\ x \notin p.occupied /\ p.adj[x] = {}
                  /\ p.next_free[x] \in F \cup {Nil}
                  /\ p.next_free[x] # Nil => p.next_free[x] # p.first_free
  /\ \A x, y \in F : p.next_free[x] = p.next_free[y] /\ p.next_free[x] # Nil
                       => x = y

FreeListInv(p) == \E F \in SUBSET Slots(p) : FreeList(p, F)

IndexInv(p) == \A x \in p.occupied : x <= p.maximum_index

SymmetryInv(p) ==
  \A a \in Slots(p) : \A b \in p.adj[a] : a # b /\ a \in p.adj[b]

CountInv(p) == \A x \in Slots(p) : p.edgesCount[x] >= Cardinality(p.adj[x])

PoolInv(p) ==
  IsPool(p) /\ FreeListInv(p) /\ IndexInv(p) /\ SymmetryInv(p) /\ CountInv(p)

-----------------------------------------------------------------------------
LEMMA AdjFinite ==
  ASSUME NEW p, IsPool(p), NEW x \in Slots(p)
  PROVE  IsFiniteSet(p.adj[x]) /\ Cardinality(p.adj[x]) \in Nat
<1>1. IsFiniteSet(Slots(p))
  BY FS_Interval DEF Slots, IsPool, FieldTypes
<1>2. p.adj[x] \subseteq Slots(p)
  BY DEF IsPool, FieldTypes
<1> QED BY <1>1, <1>2, FS_Subset, FS_CardinalityType

LEMMA CountZero ==
  ASSUME NEW p, PoolInv(p), NEW x \in Slots(p), p.edgesCount[x] = 0
  PROVE  p.adj[x] = {}
<1>1. IsFiniteSet(p.adj[x]) /\ Cardinality(p.adj[x]) \in Nat
  BY AdjFinite DEF PoolInv
<1>2. Cardinality(p.adj[x]) = 0
  BY <1>1 DEF PoolInv, CountInv
<1> QED BY <1>1, <1>2, FS_EmptySet

LEMMA NewPoolInv == PoolInv(NewPool)
<1> USE PoolAssumption DEF PoolAssumption, NewPool, Slots, Nil
<1>1. IsPool(NewPool)
  BY DEF IsPool, HasFields, FieldTypes
<1>2. FreeList(NewPool, Slots(NewPool))
  BY DEF FreeList
<1>3. FreeListInv(NewPool)
  BY <1>2 DEF FreeListInv
<1>4. CountInv(NewPool)
  BY FS_EmptySet DEF CountInv
<1>5. IndexInv(NewPool) /\ SymmetryInv(NewPool)
  BY DEF IndexInv, SymmetryInv
<1> QED BY <1>1, <1>3, <1>4, <1>5 DEF PoolInv

LEMMA ResizeInv ==
  ASSUME NEW p, PoolInv(p)
  PROVE  PoolInv(resizeGraph(p)) /\ resizeGraph(p).first_free # Nil
<1> DEFINE q == resizeGraph(p)
<1>0. FieldTypes(p)
  BY DEF PoolInv, IsPool
<1>1. /\ HasFields(q)
      /\ q.size = 2 * p.size /\ q.occupied = p.occupied
      /\ q.first_free = p.size /\ q.nodes = p.nodes
      /\ q.maximum_index = p.maximum_index
  BY DEF PoolInv, IsPool, HasFields, resizeGraph
<1>2. q.next_free = [i \in 0..(2 * p.size - 1) |->
                       IF i < p.size - 1 THEN p.next_free[i]
                       ELSE IF i = 2 * p.size - 1 THEN Nil ELSE i + 1]
  BY DEF PoolInv, IsPool, HasFields, resizeGraph
<1>3. q.adj = [i \in 0..(2 * p.size - 1) |->
                 IF i < p.size THEN p.adj[i] ELSE {}]
  BY DEF PoolInv, IsPool, HasFields, resizeGraph
<1>4. q.edgesCount = [i \in 0..(2 * p.size - 1) |->
                        IF i < p.size THEN p.edgesCount[i] ELSE 0]
  BY DEF PoolInv, IsPool, HasFields, resizeGraph
<1> HIDE DEF q
<1>5. IsPool(q)
  <2>1. p.size \in Nat \ {0} /\ Slots(q) = 0..(2 * p.size - 1)
    BY <1>0, <1>1 DEF FieldTypes, Slots
  <2>2. \A i \in Slots(q) : i < p.size => i \in Slots(p)
    BY <2>1 DEF Slots
  <2>3. Slots(p) \subseteq Slots(q) /\ p.size \in Slots(q)
    BY <1>1, <2>1 DEF Slots
  <2>4. \A i \in Slots(q) : i # 2 * p.size - 1 => i + 1 \in Slots(q)
    BY <2>1
  <2>5. q.next_free \in [Slots(q) -> Slots(q) \cup {Nil}]
    <3>1. \A i \in Slots(p) : p.next_free[i] \in Slots(q) \cup {Nil}
      BY <1>0, <2>3 DEF FieldTypes
    <3>2. \A i \in Slots(q) : i < p.size - 1 => i \in Slots(p)
      BY <2>1 DEF Slots
    <3>3. q.next_free = [i \in Slots(q) |->
                           IF i < p.size - 1 THEN p.next_free[i]
                           ELSE IF i = 2 * p.size - 1 THEN Nil ELSE i + 1]
      BY <1>2, <2>1
    <3> QED BY <2>4, <3>1, <3>2, <3>3
  <2>6. q.adj \in [Slots(q) -> SUBSET Slots(q)]
    <3>1. \A i \in Slots(p) : p.adj[i] \subseteq Slots(q)
      BY <1>0, <2>3 DEF FieldTypes
    <3>2. q.adj = [i \in Slots(q) |-> IF i < p.size THEN p.adj[i] ELSE {}]
      BY <1>3, <2>1
    <3> QED BY <2>2, <3>1, <3>2
  <2>7. q.edgesCount \in [Slots(q) -> Nat]
    BY <1>0, <1>4, <2>1, <2>2 DEF FieldTypes
  <2>8. /\ q.size \in Nat \ {0} /\ q.occupied \subseteq Slots(q)
        /\ q.first_free \in Slots(q) \cup {Nil} /\ q.nodes \in Nat
        /\ q.maximum_index \in Slots(q) \cup {Nil}
    BY <1>0, <1>1, <2>1, <2>3 DEF FieldTypes
  <2> QED BY <1>1, <2>5, <2>6, <2>7, <2>8 DEF IsPool, FieldTypes
<1>6. FreeList(q, p.size .. (2 * p.size - 1))
  BY <1>0, <1>1, <1>2, <1>3 DEF FieldTypes, FreeList, Slots, Nil
<1>7. FreeListInv(q)
  BY <1>0, <1>1, <1>6 DEF FreeListInv, FieldTypes, Slots
<1>8. IndexInv(q)
  BY <1>1 DEF PoolInv, IndexInv
<1>9. SymmetryInv(q)
  <2>1. \A i \in Slots(q) : IF i < p.size THEN i \in Slots(p) /\ q.adj[i] = p.adj[i]
                            ELSE q.adj[i] = {}
    BY <1>0, <1>1, <1>3 DEF Slots, FieldTypes
  <2>2. \A a \in Slots(p) : p.adj[a] \subseteq Slots(p)
    BY <1>0 DEF FieldTypes
  <2>3. \A b \in Slots(p) : b \in Slots(q) /\ b < p.size
    BY <1>0, <1>1 DEF Slots, FieldTypes
  <2>4. \A a \in Slots(p) : \A b \in p.adj[a] : a # b /\ a \in p.adj[b]
    BY DEF PoolInv, SymmetryInv
  <2>5. ASSUME NEW a \in Slots(q), NEW b \in q.adj[a]
        PROVE  a # b /\ a \in q.adj[b]
    <3>1. a \in Slots(p) /\ q.adj[a] = p.adj[a] /\ b \in Slots(p)
      BY <2>1, <2>2, <2>5
    <3>2. q.adj[b] = p.adj[b]
      BY <2>1, <2>3, <3>1
    <3> QED BY <2>4, <2>5, <3>1, <3>2
  <2> QED BY <2>5 DEF SymmetryInv
<1>10. CountInv(q)
  <2> SUFFICES ASSUME NEW x \in Slots(q)
               PROVE  q.edgesCount[x] >= Cardinality(q.adj[x])
    BY DEF CountInv
  <2>1. CASE x < p.size
    <3>1. x \in Slots(p) /\ q.adj[x] = p.adj[x]
      BY <2>1, <1>0, <1>1, <1>3 DEF Slots, FieldTypes
    <3>2. q.edgesCount[x] = p.edgesCount[x]
      BY <2>1, <1>0, <1>1, <1>4 DEF Slots, FieldTypes
    <3> QED BY <3>1, <3>2 DEF PoolInv, CountInv
  <2>2. CASE ~(x < p.size)
    <3>1. q.adj[x] = {} /\ q.edgesCount[x] = 0
      BY <2>2, <1>0, <1>1, <1>3, <1>4 DEF Slots, FieldTypes
    <3> QED BY <3>1, FS_EmptySet
  <2> QED BY <2>1, <2>2
<1>11. q.first_free # Nil
  BY <1>0, <1>1 DEF FieldTypes, Nil
<1> QED BY <1>5, <1>7, <1>8, <1>9, <1>10, <1>11 DEF PoolInv, q

(* What taking the head of the free list does to the fields. *)
LEMMA TakeSlotInv ==
  ASSUME NEW p, PoolInv(p), p.first_free # Nil
  PROVE  PoolInv(takeSlot(p))
<1> DEFINE q == takeSlot(p)
           h == p.first_free
<1>0. FieldTypes(p) /\ h \in Slots(p)
  BY DEF PoolInv, IsPool, FieldTypes
<1>1. /\ HasFields(q)
      /\ q.size = p.size /\ q.occupied = p.occupied \cup {h}
      /\ q.next_free = p.next_free /\ q.first_free = p.next_free[h]
      /\ q.nodes = p.nodes + 1 /\ q.adj = p.adj
      /\ q.maximum_index = IF h > p.maximum_index THEN h ELSE p.maximum_index
  BY DEF PoolInv, IsPool, HasFields, takeSlot
<1>2. q.edgesCount = [p.edgesCount EXCEPT ![h] = 0]
  BY DEF PoolInv, IsPool, HasFields, takeSlot
<1> HIDE DEF q, h
<1>3. Slots(q) = Slots(p)
  BY <1>1 DEF Slots
<1>4. IsPool(q)
  <2>1. h \in Int /\ p.maximum_index \in Int
    BY <1>0 DEF FieldTypes, Slots, Nil
  <2> QED BY <1>0, <1>1, <1>2, <1>3, <2>1 DEF IsPool, FieldTypes
<1>5. PICK F \in SUBSET Slots(p) : FreeList(p, F)
  BY DEF PoolInv, FreeListInv
<1>6. h \in F /\ p.adj[h] = {}
  BY <1>5 DEF FreeList, h
<1>7. FreeList(q, F \ {h})
  BY <1>1, <1>3, <1>5, <1>6 DEF FreeList, h
<1>8. FreeListInv(q)
  BY <1>3, <1>7 DEF FreeListInv
<1>9. IndexInv(q)
  BY <1>0, <1>1 DEF PoolInv, IndexInv, FieldTypes, Slots, Nil
<1>10. SymmetryInv(q)
  BY <1>1, <1>3 DEF PoolInv, SymmetryInv
<1>11. CountInv(q)
  <2>1. q.edgesCount[h] = 0 /\ Cardinality(q.adj[h]) = 0
    BY <1>0, <1>1, <1>2, <1>6, FS_EmptySet DEF FieldTypes
  <2>2. \A x \in Slots(p) : x # h => q.edgesCount[x] = p.edgesCount[x]
    BY <1>0, <1>2 DEF FieldTypes
  <2> QED BY <1>1, <1>3, <2>1, <2>2 DEF PoolInv, CountInv
<1> QED BY <1>4, <1>8, <1>9, <1>10, <1>11 DEF PoolInv, q

LEMMA NewNodeInv == ASSUME NEW p, PoolInv(p) PROVE PoolInv(newNode(p))
  BY ResizeInv, TakeSlotInv DEF newNode

LEMMA DeleteNodeInv ==
  ASSUME NEW p, PoolInv(p), NEW x \in Slots(p), p.edgesCount[x] = 0
  PROVE  PoolInv(deleteNode(p, x))
<1> DEFINE q == deleteNode(p, x)
<1>0. FieldTypes(p)
  BY DEF PoolInv, IsPool
<1>1. CASE ~existsNode(p, x)
  BY <1>1 DEF deleteNode
<1>2. CASE existsNode(p, x)
  <2>0. x \in p.occupied /\ x < p.nodes
    BY <1>2 DEF existsNode
  <2>1. /\ HasFields(q)
        /\ q.size = p.size /\ q.occupied = p.occupied \ {x}
        /\ q.first_free = x /\ q.nodes = p.nodes - 1
        /\ q.adj = p.adj /\ q.edgesCount = p.edgesCount
        /\ q.maximum_index = IF p.maximum_index = x THEN p.maximum_index - 1
                                                   ELSE p.maximum_index
    BY <1>2 DEF PoolInv, IsPool, HasFields, deleteNode
  <2>2. q.next_free = [p.next_free EXCEPT ![x] = p.first_free]
    BY <1>2 DEF PoolInv, IsPool, HasFields, deleteNode
  <2> HIDE DEF q
  <2>3. Slots(q) = Slots(p)
    BY <2>1 DEF Slots
  <2>4. p.adj[x] = {}
    <3>1. Cardinality(p.adj[x]) = 0
      BY <1>0, AdjFinite DEF PoolInv, CountInv
    <3> QED BY <3>1, AdjFinite, FS_EmptySet DEF PoolInv
  <2>5. IsPool(q)
    <3>1. p.nodes - 1 \in Nat
      BY <1>0, <2>0 DEF FieldTypes, Slots
    <3>2. q.maximum_index \in Slots(p) \cup {Nil}
      BY <1>0, <2>1 DEF FieldTypes, Slots, Nil
    <3> QED BY <1>0, <2>1, <2>2, <2>3, <3>1, <3>2 DEF IsPool, FieldTypes
  <2>6. PICK F \in SUBSET Slots(p) : FreeList(p, F)
    BY DEF PoolInv, FreeListInv
  <2>7. FreeList(q, F \cup {x})
    <3>1. x \notin F
      BY <2>0, <2>6 DEF FreeList
    <3>2. x # Nil
      BY DEF Slots, Nil
    <3>3. q.next_free[x] = p.first_free /\ \A y \in F : q.next_free[y] = p.next_free[y]
      BY <1>0, <2>2, <2>6, <3>1 DEF FieldTypes
    <3> QED BY <2>0, <2>1, <2>3, <2>4, <2>6, <3>1, <3>2, <3>3 DEF FreeList
  <2>8. FreeListInv(q)
    BY <2>3, <2>7 DEF FreeListInv
  <2>9. IndexInv(q)
    BY <1>0, <2>1 DEF PoolInv, IndexInv, FieldTypes, Slots, Nil
  <2>10. SymmetryInv(q) /\ CountInv(q)
    BY <2>1, <2>3 DEF PoolInv, SymmetryInv, CountInv
  <2> QED BY <2>5, <2>8, <2>9, <2>10 DEF PoolInv, q
<1> QED BY <1>1, <1>2

(* Both lists of an edge change, and both counts. *)
LEMMA AddUDEdgeInv ==
  ASSUME NEW p, PoolInv(p), NEW a \in p.occupied, NEW b \in p.occupied,
         a # b, ~isEdge(p, a, b)
  PROVE  PoolInv(addUDEdge(p, a, b))
<1> DEFINE q == addUDEdge(p, a, b)
<1>0. FieldTypes(p) /\ a \in Slots(p) /\ b \in Slots(p)
  BY DEF PoolInv, IsPool, FieldTypes
<1>1. /\ HasFields(q)
      /\ q.size = p.size /\ q.occupied = p.occupied
      /\ q.next_free = p.next_free /\ q.first_free = p.first_free
      /\ q.nodes = p.nodes /\ q.maximum_index = p.maximum_index
  BY DEF PoolInv, IsPool, HasFields, addUDEdge
<1>2. q.adj = [p.adj EXCEPT ![a] = @ \cup {b}, ![b] = @ \cup {a}]
  BY DEF PoolInv, IsPool, HasFields, addUDEdge
<1>3. q.edgesCount = [p.edgesCount EXCEPT ![a] = @ + 1, ![b] = @ + 1]
  BY DEF PoolInv, IsPool, HasFields, addUDEdge
<1> HIDE DEF q
<1>4. Slots(q) = Slots(p)
  BY <1>1 DEF Slots
<1>5. /\ q.adj[a] = p.adj[a] \cup {b} /\ q.adj[b] = p.adj[b] \cup {a}
      /\ \A x \in Slots(p) \ {a, b} : q.adj[x] = p.adj[x]
  BY <1>0, <1>2 DEF FieldTypes
<1>6. /\ q.edgesCount[a] = p.edgesCount[a] + 1
      /\ q.edgesCount[b] = p.edgesCount[b] + 1
      /\ \A x \in Slots(p) \ {a, b} : q.edgesCount[x] = p.edgesCount[x]
  BY <1>0, <1>3 DEF FieldTypes
<1>7. b \notin p.adj[a] /\ a \notin p.adj[b]
  BY <1>0 DEF isEdge, PoolInv, SymmetryInv
<1>8. IsPool(q)
  BY <1>0, <1>1, <1>2, <1>3, <1>4 DEF IsPool, FieldTypes
<1>9. FreeListInv(q)
  <2>1. PICK F \in SUBSET Slots(p) : FreeList(p, F)
    BY DEF PoolInv, FreeListInv
  <2>2. a \notin F /\ b \notin F
    BY <2>1 DEF FreeList
  <2>3. FreeList(q, F)
    BY <1>1, <1>4, <1>5, <2>1, <2>2 DEF FreeList
  <2> QED BY <1>4, <2>3 DEF FreeListInv
<1>10. IndexInv(q)
  BY <1>1 DEF PoolInv, IndexInv
<1>11. SymmetryInv(q)
  BY <1>0, <1>4, <1>5 DEF PoolInv, SymmetryInv, FieldTypes
<1>12. CountInv(q)
  <2>1. /\ Cardinality(q.adj[a]) = Cardinality(p.adj[a]) + 1
        /\ Cardinality(q.adj[b]) = Cardinality(p.adj[b]) + 1
    BY <1>0, <1>5, <1>7, AdjFinite, FS_AddElement DEF PoolInv
  <2>2. \A x \in Slots(p) : p.edgesCount[x] \in Nat /\ Cardinality(p.adj[x]) \in Nat
    BY <1>0, AdjFinite DEF FieldTypes, PoolInv
  <2>3. \A x \in Slots(p) : p.edgesCount[x] >= Cardinality(p.adj[x])
    BY DEF PoolInv, CountInv
  <2>4. /\ q.edgesCount[a] >= Cardinality(q.adj[a])
        /\ q.edgesCount[b] >= Cardinality(q.adj[b])
    BY <1>0, <1>6, <2>1, <2>2, <2>3
  <2> QED BY <1>4, <1>5, <1>6, <2>3, <2>4 DEF CountInv
<1> QED BY <1>8, <1>9, <1>10, <1>11, <1>12 DEF PoolInv, q

LEMMA RemoveUDEdgeInv ==
  ASSUME NEW p, PoolInv(p), NEW a \in Slots(p), NEW b \in Slots(p)
  PROVE  PoolInv(removeUDEdge(p, a, b))
<1> DEFINE q == removeUDEdge(p, a, b)
<1>a. CASE ~isEdge(p, a, b)
  BY <1>a DEF removeUDEdge
<1>b. CASE isEdge(p, a, b)
  <2>0. FieldTypes(p) /\ b \in p.adj[a] /\ a \in p.adj[b] /\ a # b
    BY <1>b DEF PoolInv, IsPool, isEdge, SymmetryInv
  <2>1. /\ HasFields(q)
        /\ q.size = p.size /\ q.occupied = p.occupied
        /\ q.next_free = p.next_free /\ q.first_free = p.first_free
        /\ q.nodes = p.nodes /\ q.maximum_index = p.maximum_index
    BY <1>b DEF PoolInv, IsPool, HasFields, removeUDEdge
  <2>2. q.adj = [p.adj EXCEPT ![a] = @ \ {b}, ![b] = @ \ {a}]
    BY <1>b DEF PoolInv, IsPool, HasFields, removeUDEdge
  <2>3. q.edgesCount = [p.edgesCount EXCEPT ![a] = @ - 1, ![b] = @ - 1]
    BY <1>b DEF PoolInv, IsPool, HasFields, removeUDEdge
  <2> HIDE DEF q
  <2>4. Slots(q) = Slots(p)
    BY <2>1 DEF Slots
  <2>5. /\ q.adj[a] = p.adj[a] \ {b} /\ q.adj[b] = p.adj[b] \ {a}
        /\ \A x \in Slots(p) \ {a, b} : q.adj[x] = p.adj[x]
    BY <2>0, <2>2 DEF FieldTypes
  <2>6. /\ q.edgesCount[a] = p.edgesCount[a] - 1
        /\ q.edgesCount[b] = p.edgesCount[b] - 1
        /\ \A x \in Slots(p) \ {a, b} : q.edgesCount[x] = p.edgesCount[x]
    BY <2>0, <2>3 DEF FieldTypes
  <2>7. /\ Cardinality(q.adj[a]) = Cardinality(p.adj[a]) - 1
        /\ Cardinality(q.adj[b]) = Cardinality(p.adj[b]) - 1
    BY <2>0, <2>5, AdjFinite, FS_RemoveElement DEF PoolInv
  <2>8. \A x \in Slots(p) : p.edgesCount[x] \in Nat /\ Cardinality(p.adj[x]) \in Nat
    BY <2>0, AdjFinite DEF FieldTypes, PoolInv
  <2>9. /\ Cardinality(q.adj[a]) \in Nat /\ Cardinality(q.adj[b]) \in Nat
    <3>1. IsFiniteSet(p.adj[a]) /\ IsFiniteSet(p.adj[b])
      BY AdjFinite DEF PoolInv
    <3> QED BY <3>1, <2>5, FS_RemoveElement, FS_CardinalityType
  <2>10. CountInv(q)
    <3>1. \A x \in Slots(p) : p.edgesCount[x] >= Cardinality(p.adj[x])
      BY DEF PoolInv, CountInv
    <3>2. /\ q.edgesCount[a] >= Cardinality(q.adj[a])
          /\ q.edgesCount[b] >= Cardinality(q.adj[b])
      BY <2>6, <2>7, <2>8, <3>1
    <3> QED BY <2>4, <2>5, <2>6, <3>1, <3>2 DEF CountInv
  <2>11. q.edgesCount \in [Slots(p) -> Nat]
    <3>1. p.edgesCount[a] - 1 \in Nat /\ p.edgesCount[b] - 1 \in Nat
      BY <2>7, <2>8, <2>9 DEF PoolInv, CountInv
    <3> QED BY <2>0, <2>3, <3>1 DEF FieldTypes
  <2>12. IsPool(q)
    BY <2>0, <2>1, <2>2, <2>4, <2>11 DEF IsPool, FieldTypes
  <2>13. FreeListInv(q)
    <3>1. PICK F \in SUBSET Slots(p) : FreeList(p, F)
      BY DEF PoolInv, FreeListInv
    <3>2. \A x \in F : q.adj[x] = {}
      BY <2>5, <3>1 DEF FreeList
    <3>3. FreeList(q, F)
      BY <2>1, <2>4, <3>1, <3>2 DEF FreeList
    <3> QED BY <2>4, <3>3 DEF FreeListInv
  <2>14. IndexInv(q)
    BY <2>1 DEF PoolInv, IndexInv
  <2>15. SymmetryInv(q)
    BY <2>0, <2>4, <2>5 DEF PoolInv, SymmetryInv, FieldTypes
  <2> QED BY <2>10, <2>12, <2>13, <2>14, <2>15 DEF PoolInv, q
<1> QED BY <1>a, <1>b

LEMMA ReloadedInv == ASSUME NEW p, PoolInv(p) PROVE PoolInv(Reloaded(p))
<1> DEFINE q == Reloaded(p)
           Edges(i) == LoadedEdges(p, i)
<1>0. FieldTypes(p)
  BY DEF PoolInv, IsPool
<1>1. /\ HasFields(q)
      /\ q.size = p.size /\ q.occupied = Kept(p)
      /\ q.next_free = p.next_free /\ q.first_free = p.first_free
      /\ q.nodes = p.nodes /\ q.maximum_index = p.maximum_index
  BY DEF PoolInv, IsPool, HasFields, Reloaded
<1>2. q.adj = [i \in Slots(p) |-> Edges(i)]
  BY DEF PoolInv, IsPool, HasFields, Reloaded
<1>3. q.edgesCount = [i \in Slots(p) |->
                        (IF i \in Kept(p) THEN p.edgesCount[i] ELSE 0)
                          + Cardinality(Edges(i))]
  BY DEF PoolInv, IsPool, HasFields, Reloaded, LoadedCount
<1> HIDE DEF q
<1>4. Slots(q) = Slots(p) /\ Kept(p) \subseteq p.occupied
  BY <1>1 DEF Slots, Kept, existsNode
<1>5. \A i \in Slots(p) : q.adj[i] = Edges(i) /\ Edges(i) \subseteq p.adj[i]
  <2>1. \A i, j \in Slots(p) : j \in p.adj[i] => i \in p.adj[j]
    BY <1>0 DEF PoolInv, SymmetryInv
  <2> QED BY <1>2, <2>1 DEF Kept, LoadedEdges, Linked
<1> HIDE DEF Edges
<1>6. \A i \in Slots(p) : Cardinality(Edges(i)) \in Nat
  BY <1>5, AdjFinite, FS_Subset, FS_CardinalityType DEF PoolInv
<1>7. \A i \in Slots(p) : /\ q.edgesCount[i] \in Nat
                          /\ q.edgesCount[i] >= Cardinality(Edges(i))
  BY <1>0, <1>3, <1>6 DEF FieldTypes
<1>8. IsPool(q)
  <2>1. q.adj \in [Slots(p) -> SUBSET Slots(p)]
    BY <1>2, <1>5, <1>0 DEF FieldTypes
  <2>2. q.edgesCount \in [Slots(p) -> Nat]
    BY <1>3, <1>7
  <2> QED BY <1>0, <1>1, <1>4, <2>1, <2>2 DEF IsPool, FieldTypes
<1>9. FreeListInv(q)
  <2>1. PICK F \in SUBSET Slots(p) : FreeList(p, F)
    BY DEF PoolInv, FreeListInv
  <2>2. FreeList(q, F)
    BY <1>1, <1>4, <1>5, <2>1 DEF FreeList
  <2> QED BY <1>4, <2>2 DEF FreeListInv
<1>10. IndexInv(q)
  BY <1>1, <1>4 DEF PoolInv, IndexInv
<1>11. SymmetryInv(q)
  <2>1. \A i, j \in Slots(p) : j \in Edges(i) => i \in Edges(j)
    BY DEF Edges, LoadedEdges, Linked
  <2>2. \A i, j \in Slots(p) : j \in Edges(i) => i # j
    BY <1>5 DEF PoolInv, SymmetryInv
  <2>3. \A i \in Slots(p) : Edges(i) \subseteq Slots(p)
    BY DEF Edges, LoadedEdges, Linked
  <2> QED BY <1>4, <1>5, <2>1, <2>2, <2>3 DEF SymmetryInv
<1>12. CountInv(q)
  BY <1>4, <1>5, <1>7 DEF CountInv
<1> QED BY <1>8, <1>9, <1>10, <1>11, <1>12 DEF PoolInv, q

-----------------------------------------------------------------------------
(* Of a graph that may also have been saved and loaded. *)

LEMMA PoolInvStep == PoolInv(pool) /\ [PoolNext \/ Reload]_pool => PoolInv(pool)'
<1> SUFFICES ASSUME PoolInv(pool), [PoolNext \/ Reload]_pool PROVE PoolInv(pool')
  OBVIOUS
<1>1. CASE NewNode
  BY <1>1, NewNodeInv DEF NewNode
<1>2. ASSUME NEW x \in Slots(pool), DeleteNode(x) PROVE PoolInv(pool')
  BY <1>2, DeleteNodeInv DEF DeleteNode
<1>3. ASSUME NEW a \in Slots(pool), NEW b \in Slots(pool), AddUDEdge(a, b)
      PROVE  PoolInv(pool')
  BY <1>3, AddUDEdgeInv DEF AddUDEdge
<1>4. ASSUME NEW a \in Slots(pool), NEW b \in Slots(pool), RemoveUDEdge(a, b)
      PROVE  PoolInv(pool')
  BY <1>4, RemoveUDEdgeInv DEF RemoveUDEdge
<1>5. CASE Reload
  BY <1>5, ReloadedInv DEF Reload
<1> QED BY <1>1, <1>2, <1>3, <1>4, <1>5 DEF PoolNext

LEMMA PoolInvAlways == ReloadSpec => []PoolInv(pool)
<1>1. PoolInit => PoolInv(pool)
  BY NewPoolInv DEF PoolInit
<1> QED BY <1>1, PoolInvStep, PTL DEF ReloadSpec

(* The fields of the pool keep their ranges, through resizes and reloads. *)
THEOREM PoolTypeCorrect == ReloadSpec => []PoolTypeOK
<1>1. PoolInv(pool) => PoolTypeOK
  BY DEF PoolInv, PoolTypeOK
<1> QED BY <1>1, PoolInvAlways, PTL

(* However often the pool grows, nodes come and go and the graph is saved   *)
(* and loaded: newNode never takes a slot that is in use or has edges.      *)
THEOREM NewNodeTakesFreeSlot == ReloadSpec => []FreeHeadIsFree
<1>1. PoolInv(pool) => FreeHeadIsFree
  BY DEF PoolInv, FreeListInv, FreeList, FreeHeadIsFree
<1> QED BY <1>1, PoolInvAlways, PTL

(* No node has an index above get_maximum_index(). *)
THEOREM MaximumIndexIsBound == ReloadSpec => []MaximumIndexCoversNodes
<1>1. PoolInv(pool) => MaximumIndexCoversNodes
  BY DEF PoolInv, IndexInv, MaximumIndexCoversNodes
<1> QED BY <1>1, PoolInvAlways, PTL

(* Every edge is in the lists of both its ends. *)
THEOREM EdgesAreUndirected == ReloadSpec => []EdgesSymmetric
<1>1. PoolInv(pool) => EdgesSymmetric
  BY DEF PoolInv, IsPool, FieldTypes, SymmetryInv, EdgesSymmetric, isEdge
<1> QED BY <1>1, PoolInvAlways, PTL

(* A node whose edgesCount is 0 has no edges: deleteNode leaves none behind. *)
THEOREM DeletedNodeHasNoEdges == ReloadSpec => []CountZeroMeansNoEdges
<1>1. PoolInv(pool) => CountZeroMeansNoEdges
  BY CountZero DEF PoolInv, IsPool, FieldTypes, CountZeroMeansNoEdges
<1> QED BY <1>1, PoolInvAlways, PTL

(* In the list convertToIGraph makes, nodes in sight that differ have      *)
(* different numbers: the nodes before one are among those before the next. *)
LEMMA ExportApart ==
  ASSUME NEW p, IsPool(p), NEW a \in Kept(p), NEW b \in Kept(p), a # b
  PROVE  ExportIndex(p, a) # ExportIndex(p, b)
<1> DEFINE Before(i) == {j \in Kept(p) : j < i}
<1>1. Kept(p) \subseteq Slots(p) /\ Slots(p) \subseteq Int /\ IsFiniteSet(Slots(p))
  <2>1. p.size - 1 \in Int
    BY DEF IsPool, FieldTypes
  <2>2. IsFiniteSet(Slots(p))
    BY <2>1, FS_Interval DEF Slots
  <2>3. Kept(p) \subseteq Slots(p)
    BY DEF Kept
  <2>4. Slots(p) \subseteq Int
    BY <2>1 DEF Slots
  <2> QED BY <2>2, <2>3, <2>4
<1>2. \A i \in Kept(p) : IsFiniteSet(Before(i)) /\ Cardinality(Before(i)) \in Nat
  BY <1>1, FS_Subset, FS_CardinalityType
<1>3. ASSUME NEW i \in Kept(p), NEW k \in Kept(p), i < k
      PROVE  Cardinality(Before(i)) # Cardinality(Before(k))
  <2>1. Before(i) \subseteq Before(k) /\ i \in Before(k) /\ i \notin Before(i)
    BY <1>1, <1>3
  <2> HIDE DEF Before
  <2> QED BY <1>2, <2>1, FS_Subset
<1>4. a < b \/ b < a
  BY <1>1
<1>5. Cardinality(Before(a)) # Cardinality(Before(b))
  BY <1>3, <1>4
<1>6. existsNode(p, a) /\ existsNode(p, b)
  BY DEF Kept
<1> QED BY <1>5, <1>6 DEF ExportIndex

(* R is given the graph there is, as long as its nodes are all in sight and *)
(* its edges do not leave it.                                               *)
THEOREM ExportIsTheGraph == ReloadSpec => []ExportKeepsGraph
<1>1. PoolInv(pool) => ExportKeepsGraph
  <2> SUFFICES ASSUME PoolInv(pool), Kept(pool) = pool.occupied, EdgesJoinNodes,
                      NEW a \in Kept(pool), NEW b \in Kept(pool), a # b
               PROVE  /\ ExportIndex(pool, a) # ExportIndex(pool, b)
                      /\ isEdge(pool, a, b) <=>
                           {ExportIndex(pool, a), ExportIndex(pool, b)} \in Exported(pool)
    BY DEF ExportKeepsGraph
  <2>1. \A i, k \in Kept(pool) : i # k => ExportIndex(pool, i) # ExportIndex(pool, k)
    BY ExportApart DEF PoolInv
  <2>2. Kept(pool) \subseteq Slots(pool) /\ Slots(pool) \subseteq Int
    BY DEF Kept, Slots, PoolInv, IsPool, FieldTypes
  <2>3. \A i, k \in Slots(pool) : isEdge(pool, i, k) => i # k /\ isEdge(pool, k, i)
    BY DEF PoolInv, SymmetryInv, isEdge
  <2>4. \A e : e \in EdgesAfter(pool) <=>
                 \E i \in Kept(pool), k \in Slots(pool) :
                   e = <<i, k>> /\ i < k /\ isEdge(pool, i, k)
    BY DEF EdgesAfter
  <2>5. ASSUME isEdge(pool, a, b)
        PROVE  {ExportIndex(pool, a), ExportIndex(pool, b)} \in Exported(pool)
    <3>1. <<a, b>> \in EdgesAfter(pool) \/ <<b, a>> \in EdgesAfter(pool)
      BY <2>2, <2>3, <2>4, <2>5
    <3> QED BY <3>1 DEF Exported
  <2>6. ASSUME {ExportIndex(pool, a), ExportIndex(pool, b)} \in Exported(pool)
        PROVE  isEdge(pool, a, b)
    <3>1. PICK e \in EdgesAfter(pool) :
            {ExportIndex(pool, a), ExportIndex(pool, b)}
              = {ExportIndex(pool, e[1]), ExportIndex(pool, e[2])}
      BY <2>6 DEF Exported
    <3>2. PICK i \in Kept(pool), k \in Slots(pool) :
            e = <<i, k>> /\ i < k /\ isEdge(pool, i, k)
      BY <2>4
    <3>3. k \in Kept(pool)
      BY <2>2, <3>2 DEF EdgesJoinNodes, isEdge
    <3>4. \/ ExportIndex(pool, a) = ExportIndex(pool, i) /\ ExportIndex(pool, b) = ExportIndex(pool, k)
          \/ ExportIndex(pool, a) = ExportIndex(pool, k) /\ ExportIndex(pool, b) = ExportIndex(pool, i)
      BY <2>1, <3>1, <3>2
    <3>5. (a = i /\ b = k) \/ (a = k /\ b = i)
      BY <2>1, <3>3, <3>4
    <3> QED BY <2>2, <2>3, <3>2, <3>5
  <2> QED BY <2>1, <2>5, <2>6
<1> QED BY <1>1, PoolInvAlways, PTL

-----------------------------------------------------------------------------
(* Of a graph that was not loaded: the counts are exact, and no edge leaves *)
(* the occupied slots.                                                      *)

ExactInv(p) ==
  /\ p.nodes = Cardinality(p.occupied)
  /\ \A x \in Slots(p) : /\ p.edgesCount[x] = Cardinality(p.adj[x])
                        /\ p.adj[x] \subseteq p.occupied

LEMMA OccupiedFinite ==
  ASSUME NEW p, IsPool(p)
  PROVE  IsFiniteSet(p.occupied) /\ Cardinality(p.occupied) \in Nat
<1>1. p.size - 1 \in Int /\ p.occupied \subseteq Slots(p)
  BY DEF IsPool, FieldTypes
<1>2. IsFiniteSet(Slots(p))
  BY <1>1, FS_Interval DEF Slots
<1> QED BY <1>1, <1>2, FS_Subset, FS_CardinalityType

LEMMA NewPoolExact == ExactInv(NewPool)
<1> DEFINE q == NewPool
<1>1. /\ q.size = PoolSize /\ q.nodes = 0 /\ q.occupied = {}
      /\ \A x \in 0..(PoolSize - 1) : q.adj[x] = {} /\ q.edgesCount[x] = 0
  BY DEF NewPool
<1> HIDE DEF q
<1>2. Cardinality({}) = 0
  BY FS_EmptySet
<1> QED BY <1>1, <1>2 DEF ExactInv, Slots, q

LEMMA ResizeExact ==
  ASSUME NEW p, PoolInv(p), ExactInv(p)
  PROVE  ExactInv(resizeGraph(p))
<1> DEFINE q == resizeGraph(p)
<1>0. FieldTypes(p)
  BY DEF PoolInv, IsPool
<1>1. q.size = 2 * p.size /\ q.occupied = p.occupied /\ q.nodes = p.nodes
  BY DEF PoolInv, IsPool, HasFields, resizeGraph
<1>2. q.adj = [i \in 0..(2 * p.size - 1) |->
                 IF i < p.size THEN p.adj[i] ELSE {}]
  BY DEF PoolInv, IsPool, HasFields, resizeGraph
<1>3. q.edgesCount = [i \in 0..(2 * p.size - 1) |->
                        IF i < p.size THEN p.edgesCount[i] ELSE 0]
  BY DEF PoolInv, IsPool, HasFields, resizeGraph
<1> HIDE DEF q
<1>4. ASSUME NEW x \in Slots(q)
      PROVE  /\ q.edgesCount[x] = Cardinality(q.adj[x])
             /\ q.adj[x] \subseteq q.occupied
  <2>1. CASE x < p.size
    <3>1. x \in Slots(p) /\ q.adj[x] = p.adj[x] /\ q.edgesCount[x] = p.edgesCount[x]
      BY <2>1, <1>0, <1>1, <1>2, <1>3 DEF Slots, FieldTypes
    <3> QED BY <3>1, <1>1 DEF ExactInv
  <2>2. CASE ~(x < p.size)
    <3>1. q.adj[x] = {} /\ q.edgesCount[x] = 0
      BY <2>2, <1>0, <1>1, <1>2, <1>3 DEF Slots, FieldTypes
    <3> QED BY <3>1, FS_EmptySet
  <2> QED BY <2>1, <2>2
<1> QED BY <1>1, <1>4 DEF ExactInv, q

LEMMA TakeSlotExact ==
  ASSUME NEW p, PoolInv(p), ExactInv(p), p.first_free # Nil
  PROVE  ExactInv(takeSlot(p))
<1> DEFINE q == takeSlot(p)
           h == p.first_free
<1>0. IsPool(p) /\ FieldTypes(p) /\ h \in Slots(p)
  BY DEF PoolInv, IsPool, FieldTypes
<1>1. /\ q.size = p.size /\ q.occupied = p.occupied \cup {h}
      /\ q.nodes = p.nodes + 1 /\ q.adj = p.adj
      /\ q.edgesCount = [p.edgesCount EXCEPT ![h] = 0]
  BY DEF PoolInv, IsPool, HasFields, takeSlot
<1>2. h \notin p.occupied /\ p.adj[h] = {}
  BY DEF PoolInv, FreeListInv, FreeList
<1> HIDE DEF q, h
<1>3. q.nodes = Cardinality(q.occupied)
  BY <1>0, <1>1, <1>2, OccupiedFinite, FS_AddElement DEF ExactInv
<1>4. ASSUME NEW x \in Slots(p)
      PROVE  /\ q.edgesCount[x] = Cardinality(q.adj[x])
             /\ q.adj[x] \subseteq q.occupied
  <2>1. CASE x = h
    BY <1>0, <1>1, <1>2, <2>1, FS_EmptySet DEF FieldTypes
  <2>2. CASE x # h
    BY <1>0, <1>1, <2>2 DEF ExactInv, FieldTypes
  <2> QED BY <2>1, <2>2
<1> QED BY <1>1, <1>3, <1>4 DEF ExactInv, Slots, q

LEMMA NewNodeExact ==
  ASSUME NEW p, PoolInv(p), ExactInv(p) PROVE ExactInv(newNode(p))
  BY ResizeInv, ResizeExact, TakeSlotExact DEF newNode

LEMMA DeleteNodeExact ==
  ASSUME NEW p, PoolInv(p), ExactInv(p), NEW x \in Slots(p), p.edgesCount[x] = 0
  PROVE  ExactInv(deleteNode(p, x))
<1> DEFINE q == deleteNode(p, x)
<1>1. CASE ~existsNode(p, x)
  BY <1>1 DEF deleteNode
<1>2. CASE existsNode(p, x)
  <2>1. /\ q.size = p.size /\ q.occupied = p.occupied \ {x}
        /\ q.nodes = p.nodes - 1
        /\ q.adj = p.adj /\ q.edgesCount = p.edgesCount
    BY <1>2 DEF PoolInv, IsPool, HasFields, deleteNode
  <2> HIDE DEF q
  <2>2. x \in p.occupied
    BY <1>2 DEF existsNode
  <2>3. p.adj[x] = {}
    <3>1. Cardinality(p.adj[x]) = 0
      BY DEF ExactInv
    <3> QED BY <3>1, AdjFinite, FS_EmptySet DEF PoolInv
  <2>4. \A y \in Slots(p) : x \notin p.adj[y]
    BY <2>3 DEF PoolInv, SymmetryInv
  <2>5. q.nodes = Cardinality(q.occupied)
    BY <2>1, <2>2, OccupiedFinite, FS_RemoveElement DEF ExactInv, PoolInv
  <2> QED BY <2>1, <2>4, <2>5 DEF ExactInv, Slots, q
<1> QED BY <1>1, <1>2

LEMMA AddUDEdgeExact ==
  ASSUME NEW p, PoolInv(p), ExactInv(p), NEW a \in p.occupied,
         NEW b \in p.occupied, a # b, ~isEdge(p, a, b)
  PROVE  ExactInv(addUDEdge(p, a, b))
<1> DEFINE q == addUDEdge(p, a, b)
<1>0. FieldTypes(p) /\ a \in Slots(p) /\ b \in Slots(p)
  BY DEF PoolInv, IsPool, FieldTypes
<1>1. /\ q.size = p.size /\ q.occupied = p.occupied /\ q.nodes = p.nodes
      /\ q.adj = [p.adj EXCEPT ![a] = @ \cup {b}, ![b] = @ \cup {a}]
      /\ q.edgesCount = [p.edgesCount EXCEPT ![a] = @ + 1, ![b] = @ + 1]
  BY DEF PoolInv, IsPool, HasFields, addUDEdge
<1> HIDE DEF q
<1>2. b \notin p.adj[a] /\ a \notin p.adj[b]
  BY <1>0 DEF isEdge, PoolInv, SymmetryInv
<1>3. /\ Cardinality(p.adj[a] \cup {b}) = Cardinality(p.adj[a]) + 1
      /\ Cardinality(p.adj[b] \cup {a}) = Cardinality(p.adj[b]) + 1
  BY <1>0, <1>2, AdjFinite, FS_AddElement DEF PoolInv
<1>4. ASSUME NEW x \in Slots(p)
      PROVE  /\ q.edgesCount[x] = Cardinality(q.adj[x])
             /\ q.adj[x] \subseteq q.occupied
  <2>1. CASE x = a
    <3>1. /\ q.adj[a] = p.adj[a] \cup {b}
          /\ q.edgesCount[a] = p.edgesCount[a] + 1
      BY <1>0, <1>1 DEF FieldTypes
    <3> QED BY <1>0, <1>1, <1>3, <2>1, <3>1 DEF ExactInv
  <2>3. CASE x = b
    <3>1. /\ q.adj[b] = p.adj[b] \cup {a}
          /\ q.edgesCount[b] = p.edgesCount[b] + 1
      BY <1>0, <1>1 DEF FieldTypes
    <3> QED BY <1>0, <1>1, <1>3, <2>3, <3>1 DEF ExactInv
  <2>2. CASE x # a /\ x # b
    BY <1>0, <1>1, <2>2 DEF ExactInv, FieldTypes
  <2> QED BY <2>1, <2>2, <2>3
<1> QED BY <1>1, <1>4 DEF ExactInv, Slots, q

LEMMA RemoveUDEdgeExact ==
  ASSUME NEW p, PoolInv(p), ExactInv(p), NEW a \in Slots(p), NEW b \in Slots(p)
  PROVE  ExactInv(removeUDEdge(p, a, b))
<1> DEFINE q == removeUDEdge(p, a, b)
<1>a. CASE ~isEdge(p, a, b)
  BY <1>a DEF removeUDEdge
<1>b. CASE isEdge(p, a, b)
  <2>0. FieldTypes(p) /\ b \in p.adj[a] /\ a \in p.adj[b] /\ a # b
    BY <1>b DEF PoolInv, IsPool, isEdge, SymmetryInv
  <2>1. /\ q.size = p.size /\ q.occupied = p.occupied /\ q.nodes = p.nodes
        /\ q.adj = [p.adj EXCEPT ![a] = @ \ {b}, ![b] = @ \ {a}]
        /\ q.edgesCount = [p.edgesCount EXCEPT ![a] = @ - 1, ![b] = @ - 1]
    BY <1>b DEF PoolInv, IsPool, HasFields, removeUDEdge
  <2> HIDE DEF q
  <2>2. /\ Cardinality(p.adj[a] \ {b}) = Cardinality(p.adj[a]) - 1
        /\ Cardinality(p.adj[b] \ {a}) = Cardinality(p.adj[b]) - 1
    BY <2>0, AdjFinite, FS_RemoveElement DEF PoolInv
  <2>3. ASSUME NEW x \in Slots(p)
        PROVE  /\ q.edgesCount[x] = Cardinality(q.adj[x])
               /\ q.adj[x] \subseteq q.occupied
    <3>1. CASE x = a
      <4>1. /\ q.adj[a] = p.adj[a] \ {b}
            /\ q.edgesCount[a] = p.edgesCount[a] - 1
        BY <2>0, <2>1 DEF FieldTypes
      <4> QED BY <2>1, <2>2, <3>1, <4>1 DEF ExactInv
    <3>2. CASE x = b
      <4>1. /\ q.adj[b] = p.adj[b] \ {a}
            /\ q.edgesCount[b] = p.edgesCount[b] - 1
        BY <2>0, <2>1 DEF FieldTypes
      <4> QED BY <2>1, <2>2, <3>2, <4>1 DEF ExactInv
    <3>3. CASE x # a /\ x # b
      BY <2>0, <2>1, <3>3 DEF ExactInv, FieldTypes
    <3> QED BY <3>1, <3>2, <3>3
  <2> QED BY <2>1, <2>3 DEF ExactInv, Slots, q
<1> QED BY <1>a, <1>b

LEMMA ExactStep ==
  PoolInv(pool) /\ ExactInv(pool) /\ [PoolNext]_pool => ExactInv(pool)'
<1> SUFFICES ASSUME PoolInv(pool), ExactInv(pool), [PoolNext]_pool
             PROVE  ExactInv(pool')
  OBVIOUS
<1>1. CASE NewNode
  BY <1>1, NewNodeExact DEF NewNode
<1>2. ASSUME NEW x \in Slots(pool), DeleteNode(x) PROVE ExactInv(pool')
  BY <1>2, DeleteNodeExact DEF DeleteNode
<1>3. ASSUME NEW a \in Slots(pool), NEW b \in Slots(pool), AddUDEdge(a, b)
      PROVE  ExactInv(pool')
  BY <1>3, AddUDEdgeExact DEF AddUDEdge
<1>4. ASSUME NEW a \in Slots(pool), NEW b \in Slots(pool), RemoveUDEdge(a, b)
      PROVE  ExactInv(pool')
  BY <1>4, RemoveUDEdgeExact DEF RemoveUDEdge
<1> QED BY <1>1, <1>2, <1>3, <1>4 DEF PoolNext

LEMMA ExactAlways == PoolSpec => [](PoolInv(pool) /\ ExactInv(pool))
<1>1. PoolInit => PoolInv(pool) /\ ExactInv(pool)
  BY NewPoolInv, NewPoolExact DEF PoolInit
<1> QED BY <1>1, PoolInvStep, ExactStep, PTL DEF PoolSpec

(* In a graph that was not loaded get_number_nodes() is the number of nodes *)
(* and edgesCount is the number of edges of a node.                         *)
THEOREM CountsAreExact == PoolSpec => []CountsExact
<1>1. ExactInv(pool) => pool.nodes = Cardinality(pool.occupied)
  BY DEF ExactInv
<1>2. PoolInv(pool) /\ ExactInv(pool)
        => \A x \in pool.occupied : pool.edgesCount[x] = Cardinality(pool.adj[x])
  BY DEF PoolInv, IsPool, FieldTypes, ExactInv
<1>3. PoolInv(pool) /\ ExactInv(pool) => CountsExact
  BY <1>1, <1>2 DEF CountsExact
<1> QED BY <1>3, ExactAlways, PTL

(* No edge of such a graph leads to a slot without a node. *)
THEOREM EdgesEndAtNodes == PoolSpec => []EdgesJoinNodes
<1>1. ExactInv(pool) => EdgesJoinNodes
  BY DEF ExactInv, EdgesJoinNodes
<1> QED BY <1>1, ExactAlways, PTL

-----------------------------------------------------------------------------
(* Of a graph that was not loaded: the free list, from its head to Nil, is  *)
(* a sequence of different slots, which are all that hold no node.          *)

Chain(p, m, c) ==
  /\ c \in [0..m -> Slots(p) \cup {Nil}]
  /\ c[0] = p.first_free /\ c[m] = Nil
  /\ \A i \in 0..(m - 1) : c[i] \in Slots(p) /\ c[i + 1] = p.next_free[c[i]]
  /\ \A i, j \in 0..(m - 1) : c[i] = c[j] => i = j
  /\ \A x \in Slots(p) : x \notin p.occupied <=> \E i \in 0..(m - 1) : c[i] = x

ChainInv(p) == \E m \in Nat : \E c : Chain(p, m, c)

LEMMA NewPoolChain == ChainInv(NewPool)
<1> DEFINE c == [i \in 0..PoolSize |-> IF i = PoolSize THEN Nil ELSE i]
<1> USE PoolAssumption DEF PoolAssumption
<1>1. /\ NewPool.size = PoolSize /\ NewPool.first_free = 0 /\ NewPool.occupied = {}
      /\ NewPool.next_free = [i \in 0..(PoolSize - 1) |->
                                IF i = PoolSize - 1 THEN Nil ELSE i + 1]
      /\ Slots(NewPool) = 0..(PoolSize - 1)
  BY DEF NewPool, Slots
<1>2. \A i \in 0..(PoolSize - 1) : c[i] = i /\ c[i + 1] = NewPool.next_free[i]
  BY <1>1
<1>3. c \in [0..PoolSize -> Slots(NewPool) \cup {Nil}] /\ c[0] = 0 /\ c[PoolSize] = Nil
  BY <1>1
<1> HIDE DEF c
<1>4. Chain(NewPool, PoolSize, c)
  BY <1>1, <1>2, <1>3 DEF Chain
<1> QED BY <1>4 DEF ChainInv

(* The pool doubles when the chain is empty; the new slots are chained.     *)
LEMMA ResizeChain ==
  ASSUME NEW p, PoolInv(p), ChainInv(p), p.first_free = Nil
  PROVE  ChainInv(resizeGraph(p))
<1> DEFINE q == resizeGraph(p)
           c == [i \in 0..p.size |-> IF i = p.size THEN Nil ELSE p.size + i]
<1>0. p.size \in Nat \ {0} /\ p.occupied \subseteq Slots(p)
  BY DEF PoolInv, IsPool, FieldTypes
<1>1. /\ q.size = 2 * p.size /\ q.occupied = p.occupied /\ q.first_free = p.size
      /\ q.next_free = [i \in 0..(2 * p.size - 1) |->
                          IF i < p.size - 1 THEN p.next_free[i]
                          ELSE IF i = 2 * p.size - 1 THEN Nil ELSE i + 1]
      /\ Slots(q) = 0..(2 * p.size - 1)
  BY DEF PoolInv, IsPool, HasFields, resizeGraph, Slots
<1> HIDE DEF q
<1>2. p.occupied = 0..(p.size - 1)
  <2>1. PICK m \in Nat : \E d : Chain(p, m, d)
    BY DEF ChainInv
  <2>2. PICK d : Chain(p, m, d)
    BY <2>1
  <2>3. m = 0
    BY <2>2 DEF Chain, Slots, Nil
  <2>4. ~ \E i \in 0..(m - 1) : TRUE
    BY <2>3
  <2>5. \A x \in Slots(p) : x \in p.occupied
    BY <2>2, <2>4 DEF Chain
  <2> QED BY <1>0, <2>5 DEF Slots
<1>3. \A i \in 0..(p.size - 1) : /\ c[i] = p.size + i /\ p.size + i \in Slots(q)
                                 /\ c[i + 1] = q.next_free[p.size + i]
  <2> SUFFICES ASSUME NEW i \in 0..(p.size - 1)
               PROVE  /\ c[i] = p.size + i /\ p.size + i \in Slots(q)
                      /\ c[i + 1] = q.next_free[p.size + i]
    OBVIOUS
  <2>1. /\ i \in 0..p.size /\ i + 1 \in 0..p.size /\ i # p.size
        /\ p.size + i \in 0..(2 * p.size - 1) /\ ~(p.size + i < p.size - 1)
        /\ i + 1 = p.size <=> p.size + i = 2 * p.size - 1
        /\ p.size + (i + 1) = (p.size + i) + 1
    BY <1>0
  <2>2. c[i] = p.size + i /\ c[i + 1] = IF i + 1 = p.size THEN Nil ELSE p.size + (i + 1)
    BY <2>1
  <2>3. q.next_free[p.size + i]
          = IF p.size + i = 2 * p.size - 1 THEN Nil ELSE (p.size + i) + 1
    BY <1>1, <2>1
  <2> HIDE DEF c
  <2> QED BY <1>1, <2>1, <2>2, <2>3
<1>4. /\ c \in [0..p.size -> Slots(q) \cup {Nil}]
      /\ c[0] = p.size /\ c[p.size] = Nil
  BY <1>0, <1>1
<1> HIDE DEF c
<1>5. \A i, j \in 0..(p.size - 1) : c[i] = c[j] => i = j
  BY <1>0, <1>3
<1>6. ASSUME NEW x \in Slots(q)
      PROVE  x \notin q.occupied <=> \E i \in 0..(p.size - 1) : c[i] = x
  <2>1. x \notin q.occupied <=> x >= p.size
    BY <1>0, <1>1, <1>2
  <2>2. ASSUME x >= p.size PROVE \E i \in 0..(p.size - 1) : c[i] = x
    <3>1. x - p.size \in 0..(p.size - 1) /\ p.size + (x - p.size) = x
      BY <1>0, <1>1, <2>2
    <3> QED BY <1>3, <3>1
  <2>3. ASSUME NEW i \in 0..(p.size - 1), c[i] = x PROVE x >= p.size
    BY <1>0, <1>3, <2>3
  <2> QED BY <2>1, <2>2, <2>3
<1>7. Chain(q, p.size, c)
  BY <1>1, <1>3, <1>4, <1>5, <1>6 DEF Chain
<1> QED BY <1>0, <1>7 DEF ChainInv, q

(* Taking the head leaves the rest of the chain.                            *)
LEMMA TakeSlotChain ==
  ASSUME NEW p, PoolInv(p), ChainInv(p), p.first_free # Nil
  PROVE  ChainInv(takeSlot(p))
<1> DEFINE q == takeSlot(p)
<1>1. /\ q.size = p.size /\ q.occupied = p.occupied \cup {p.first_free}
      /\ q.next_free = p.next_free /\ q.first_free = p.next_free[p.first_free]
  BY DEF PoolInv, IsPool, HasFields, takeSlot
<1> HIDE DEF q
<1>2. PICK m \in Nat : \E d : Chain(p, m, d)
  BY DEF ChainInv
<1>3. PICK d : Chain(p, m, d)
  BY <1>2
<1>4. m - 1 \in Nat /\ 0 \in 0..(m - 1)
  BY <1>3 DEF Chain
<1> DEFINE k == m - 1
           c == [i \in 0..k |-> d[i + 1]]
<1>5. \A i \in 0..(k - 1) : i + 1 \in 0..(m - 1) /\ i \in 0..k /\ i + 1 \in 0..k
  BY <1>4
<1>6. \A i \in 0..k : c[i] = d[i + 1] /\ i + 1 \in 0..m
  BY <1>4
<1>7. c \in [0..k -> Slots(q) \cup {Nil}] /\ c[0] = q.first_free /\ c[k] = Nil
  <2>1. c \in [0..k -> Slots(p) \cup {Nil}]
    BY <1>3, <1>6 DEF Chain
  <2>2. d[0] = p.first_free /\ d[0 + 1] = p.next_free[d[0]] /\ d[k + 1] = Nil
    BY <1>3, <1>4 DEF Chain
  <2>3. c[0] = d[0 + 1] /\ c[k] = d[k + 1]
    BY <1>4, <1>6
  <2> QED BY <1>1, <2>1, <2>2, <2>3 DEF Slots
<1> HIDE DEF c, k
<1>8. \A i \in 0..(k - 1) : c[i] \in Slots(q) /\ c[i + 1] = q.next_free[c[i]]
  BY <1>1, <1>3, <1>5, <1>6 DEF Chain, Slots
<1>9. \A i, j \in 0..(k - 1) : c[i] = c[j] => i = j
  <2> SUFFICES ASSUME NEW i \in 0..(k - 1), NEW j \in 0..(k - 1), c[i] = c[j] PROVE i = j
    OBVIOUS
  <2>1. i + 1 = j + 1
    BY <1>3, <1>5, <1>6 DEF Chain
  <2> QED BY <2>1
<1>10. ASSUME NEW x \in Slots(q)
       PROVE  x \notin q.occupied <=> \E i \in 0..(k - 1) : c[i] = x
  <2>0. x \in Slots(p) /\ d[0] = p.first_free
    BY <1>1, <1>3 DEF Slots, Chain
  <2>1. ASSUME x \notin q.occupied PROVE \E i \in 0..(k - 1) : c[i] = x
    <3>1. PICK n \in 0..(m - 1) : d[n] = x
      BY <1>1, <1>3, <2>0, <2>1 DEF Chain
    <3>2. n # 0
      BY <1>1, <2>0, <2>1, <3>1
    <3>3. n - 1 \in 0..(k - 1) /\ n - 1 \in 0..k /\ (n - 1) + 1 = n
      BY <1>4, <3>2 DEF k
    <3> QED BY <1>6, <3>1, <3>3
  <2>2. ASSUME NEW i \in 0..(k - 1), c[i] = x PROVE x \notin q.occupied
    <3>1. d[i + 1] = x /\ i + 1 \in 0..(m - 1) /\ i + 1 # 0
      BY <1>5, <1>6, <2>2
    <3>2. x \notin p.occupied
      BY <1>3, <2>0, <3>1 DEF Chain
    <3>3. x # d[0]
      BY <1>3, <1>4, <3>1 DEF Chain
    <3> QED BY <1>1, <2>0, <3>2, <3>3
  <2> QED BY <2>1, <2>2
<1>11. Chain(q, k, c)
  BY <1>7, <1>8, <1>9, <1>10 DEF Chain
<1>12. k \in Nat
  BY <1>4 DEF k
<1> QED BY <1>11, <1>12 DEF ChainInv, q

(* The deleted node's slot goes before the old head.                        *)
LEMMA DeleteNodeChain ==
  ASSUME NEW p, PoolInv(p), ChainInv(p), NEW x \in Slots(p)
  PROVE  ChainInv(deleteNode(p, x))
<1> DEFINE q == deleteNode(p, x)
<1>a. CASE ~existsNode(p, x)
  BY <1>a DEF deleteNode
<1>b. CASE existsNode(p, x)
  <2>0. x \in p.occupied /\ p.next_free \in [Slots(p) -> Slots(p) \cup {Nil}]
    BY <1>b DEF existsNode, PoolInv, IsPool, FieldTypes
  <2>1. /\ q.size = p.size /\ q.occupied = p.occupied \ {x} /\ q.first_free = x
        /\ q.next_free = [p.next_free EXCEPT ![x] = p.first_free]
    BY <1>b DEF PoolInv, IsPool, HasFields, deleteNode
  <2> HIDE DEF q
  <2>2. PICK m \in Nat : \E d : Chain(p, m, d)
    BY DEF ChainInv
  <2>3. PICK d : Chain(p, m, d)
    BY <2>2
  <2> DEFINE k == m + 1
             c == [i \in 0..k |-> IF i = 0 THEN x ELSE d[i - 1]]
  <2>4. /\ k \in Nat /\ k # 0 /\ k - 1 = m
        /\ \A i \in 1..k : i - 1 \in 0..m /\ i # 0 /\ i \in 0..k
        /\ \A i \in 1..(k - 1) : i - 1 \in 0..(m - 1) /\ i \in 1..k /\ i + 1 \in 1..k
        /\ \A i \in 1..(k - 1) : (i + 1) - 1 = (i - 1) + 1
        /\ \A i \in 0..m : i + 1 \in 1..k /\ (i + 1) - 1 = i
        /\ \A i \in 0..(k - 1) : i = 0 \/ i \in 1..(k - 1)
    OBVIOUS
  <2>5. c[0] = x /\ \A i \in 1..k : c[i] = d[i - 1]
    BY <2>4
  <2>6. c \in [0..k -> Slots(p) \cup {Nil}]
    <3>1. \A i \in 1..k : d[i - 1] \in Slots(p) \cup {Nil}
      BY <2>3, <2>4 DEF Chain
    <3>2. \A i \in 0..k : i = 0 \/ i \in 1..k
      BY <2>4
    <3> QED BY <3>1, <3>2
  <2> HIDE DEF c
  <2>7. \A n \in 0..(m - 1) : d[n] \in Slots(p) /\ d[n] # x /\ d[n + 1] = p.next_free[d[n]]
    BY <2>0, <2>3 DEF Chain
  <2>8. \A i \in 1..(k - 1) : /\ c[i] \in Slots(p) /\ c[i] # x
                              /\ c[i + 1] = q.next_free[c[i]]
    <3> SUFFICES ASSUME NEW i \in 1..(k - 1)
                 PROVE  /\ c[i] \in Slots(p) /\ c[i] # x
                        /\ c[i + 1] = q.next_free[c[i]]
      OBVIOUS
    <3>1. c[i] = d[i - 1] /\ i - 1 \in 0..(m - 1) /\ c[i + 1] = d[(i - 1) + 1]
      <4>1. i \in 1..k /\ i + 1 \in 1..k /\ (i + 1) - 1 = (i - 1) + 1 /\ i - 1 \in 0..(m - 1)
        BY <2>4
      <4>2. c[i + 1] = d[(i + 1) - 1]
        BY <2>5, <4>1
      <4> QED BY <2>5, <4>1, <4>2
    <3> HIDE DEF k
    <3> QED BY <2>0, <2>1, <2>7, <3>1
  <2>9. c[0 + 1] = q.next_free[c[0]] /\ c[k] = Nil
    <3>1. c[1] = d[0] /\ c[k] = d[m]
      <4>1. 1 \in 1..k /\ 1 - 1 = 0 /\ k \in 1..k
        BY <2>4
      <4>2. c[1] = d[1 - 1] /\ c[k] = d[k - 1]
        BY <2>5, <4>1
      <4> QED BY <4>1, <4>2, <2>4
    <3> QED BY <2>0, <2>1, <2>3, <2>5, <3>1 DEF Chain
  <2>10. \A i, j \in 0..(k - 1) : c[i] = c[j] => i = j
    <3> SUFFICES ASSUME NEW i \in 0..(k - 1), NEW j \in 0..(k - 1), c[i] = c[j]
                 PROVE  i = j
      OBVIOUS
    <3>1. CASE i = 0 \/ j = 0
      BY <2>4, <2>5, <2>8, <3>1
    <3>2. CASE i # 0 /\ j # 0
      <4>1. /\ i \in 1..k /\ j \in 1..k
            /\ i - 1 \in 0..(m - 1) /\ j - 1 \in 0..(m - 1)
        BY <2>4, <3>2
      <4>2. d[i - 1] = d[j - 1]
        BY <2>5, <4>1
      <4>3. i - 1 = j - 1
        BY <2>3, <4>1, <4>2 DEF Chain
      <4> QED BY <4>3
    <3> QED BY <3>1, <3>2
  <2>11. ASSUME NEW y \in Slots(p)
         PROVE  y \notin q.occupied <=> \E i \in 0..(k - 1) : c[i] = y
    <3>1. CASE y = x
      <4>1. 0 \in 0..(k - 1)
        BY <2>4
      <4> QED BY <2>1, <2>5, <3>1, <4>1
    <3>2. CASE y # x
      <4>1. y \notin q.occupied <=> \E n \in 0..(m - 1) : d[n] = y
        BY <2>1, <2>3, <3>2 DEF Chain
      <4>2. ASSUME NEW n \in 0..(m - 1), d[n] = y
            PROVE  \E i \in 0..(k - 1) : c[i] = y
        <5>1. n + 1 \in 1..k /\ (n + 1) - 1 = n /\ n + 1 \in 0..(k - 1)
          BY <2>4
        <5>2. c[n + 1] = d[(n + 1) - 1]
          BY <2>5, <5>1
        <5> QED BY <4>2, <5>1, <5>2
      <4>3. ASSUME NEW i \in 0..(k - 1), c[i] = y
            PROVE  \E n \in 0..(m - 1) : d[n] = y
        <5>1. i \in 1..(k - 1)
          BY <2>4, <2>5, <3>2, <4>3
        <5>2. i \in 1..k /\ i - 1 \in 0..(m - 1)
          BY <2>4, <5>1
        <5>3. c[i] = d[i - 1]
          BY <2>5, <5>2
        <5> QED BY <4>3, <5>2, <5>3
      <4> QED BY <4>1, <4>2, <4>3
    <3> QED BY <3>1, <3>2
  <2>12. Slots(q) = Slots(p)
    BY <2>1 DEF Slots
  <2>13. \A i \in 0..(k - 1) : c[i] \in Slots(p) /\ c[i + 1] = q.next_free[c[i]]
    BY <2>4, <2>5, <2>8, <2>9
  <2>14. Chain(q, k, c)
    BY <2>1, <2>5, <2>6, <2>9, <2>10, <2>11, <2>12, <2>13 DEF Chain
  <2> QED BY <2>4, <2>14 DEF ChainInv, q
<1> QED BY <1>a, <1>b

LEMMA SameChain ==
  ASSUME NEW p, NEW q, ChainInv(p), q.size = p.size, q.occupied = p.occupied,
         q.next_free = p.next_free, q.first_free = p.first_free
  PROVE  ChainInv(q)
BY DEF ChainInv, Chain, Slots

LEMMA ChainStep ==
  PoolInv(pool) /\ ChainInv(pool) /\ [PoolNext]_pool => ChainInv(pool)'
<1> SUFFICES ASSUME PoolInv(pool), ChainInv(pool), [PoolNext]_pool
             PROVE  ChainInv(pool')
  OBVIOUS
<1>1. CASE NewNode
  <2>1. CASE pool.first_free = Nil
    BY <1>1, <2>1, ResizeInv, ResizeChain, TakeSlotChain DEF NewNode, newNode
  <2>2. CASE pool.first_free # Nil
    BY <1>1, <2>2, TakeSlotChain DEF NewNode, newNode
  <2> QED BY <2>1, <2>2
<1>2. ASSUME NEW x \in Slots(pool), DeleteNode(x) PROVE ChainInv(pool')
  BY <1>2, DeleteNodeChain DEF DeleteNode
<1>3. ASSUME NEW a \in Slots(pool), NEW b \in Slots(pool),
             AddUDEdge(a, b) \/ RemoveUDEdge(a, b)
      PROVE  ChainInv(pool')
  <2>1. /\ pool'.size = pool.size /\ pool'.occupied = pool.occupied
        /\ pool'.next_free = pool.next_free /\ pool'.first_free = pool.first_free
    BY <1>3 DEF AddUDEdge, RemoveUDEdge, addUDEdge, removeUDEdge, PoolInv, IsPool, HasFields
  <2> QED BY <2>1, SameChain
<1>4. CASE UNCHANGED pool
  BY <1>4
<1> QED BY <1>1, <1>2, <1>3, <1>4 DEF PoolNext

(* FreeChain runs along the chain and stays at Nil behind its end.          *)
LEMMA FreeChainFollows ==
  ASSUME PoolInv(pool), NEW m \in Nat, NEW c, Chain(pool, m, c), NEW n \in Nat
  PROVE  FreeChain[n] = IF n <= m THEN c[n] ELSE Nil
<1> DEFINE g == [i \in Nat |-> IF i <= m THEN c[i] ELSE Nil]
           Run(f) == [i \in Nat |-> IF i = 0 THEN pool.first_free
                                    ELSE IF f[i - 1] = Nil THEN Nil
                                    ELSE pool.next_free[f[i - 1]]]
<1>1. \A i \in Nat : g[i] = Run(g)[i]
  <2> SUFFICES ASSUME NEW i \in Nat PROVE g[i] = Run(g)[i]
    OBVIOUS
  <2>1. CASE i = 0
    BY <2>1 DEF Chain
  <2>2. CASE i # 0 /\ i - 1 < m
    <3>1. i - 1 \in 0..(m - 1) /\ i - 1 \in Nat /\ (i - 1) + 1 = i
      BY <2>2
    <3>2. c[i - 1] \in Slots(pool) /\ c[i] = pool.next_free[c[i - 1]]
      BY <3>1 DEF Chain
    <3>3. g[i - 1] = c[i - 1] /\ g[i] = c[i] /\ c[i - 1] # Nil
      BY <2>2, <3>1, <3>2 DEF Slots, Nil
    <3> QED BY <2>2, <3>2, <3>3
  <2>3. CASE i # 0 /\ ~(i - 1 < m)
    <3>1. i - 1 \in Nat /\ i > m /\ (i - 1 = m \/ i - 1 > m)
      BY <2>3
    <3>2. c[m] = Nil /\ ~(i <= m)
      BY <3>1 DEF Chain
    <3>3. g[i] = Nil
      BY <3>2
    <3>4. g[i - 1] = Nil
      BY <3>1, <3>2
    <3> QED BY <2>3, <3>3, <3>4
  <2> QED BY <2>1, <2>2, <2>3
<1>2. g = Run(g)
  BY <1>1
<1>3. FreeChain = CHOOSE f : f = Run(f)
  BY DEF FreeChain
<1>4. FreeChain = Run(FreeChain)
  <2> HIDE DEF g, Run
  <2> QED BY <1>2, <1>3
<1>5. g[0] = FreeChain[0]
  BY <1>2, <1>4
<1>6. ASSUME NEW i \in 1..n, FreeChain[i - 1] = g[i - 1] PROVE FreeChain[i] = g[i]
  <2>1. i \in Nat /\ i # 0
    OBVIOUS
  <2>2. g[i] = Run(g)[i] /\ FreeChain[i] = Run(FreeChain)[i]
    BY <1>1, <1>4, <2>1
  <2>3. Run(FreeChain)[i] = Run(g)[i]
    <3> HIDE DEF g
    <3> QED BY <1>6, <2>1
  <2> QED BY <2>2, <2>3
<1>7. FreeChain[n] = g[n]
  <2> HIDE DEF g
  <2> QED BY <1>5, <1>6, EndAlike
<1> QED BY <1>7

(* The chain is no longer than the pool.                                    *)
LEMMA ChainFits ==
  ASSUME NEW p, PoolInv(p), NEW m \in Nat, NEW c, Chain(p, m, c)
  PROVE  m <= p.size
<1>0. p.size \in Nat \ {0}
  BY DEF PoolInv, IsPool, FieldTypes
<1> DEFINE f == [i \in 0..(m - 1) |-> c[i]]
<1>1. f \in Injection(0..(m - 1), Slots(p))
  BY DEF Chain, Injection, IsInjective
<1>2. IsFiniteSet(Slots(p)) /\ Cardinality(Slots(p)) = p.size
  <2>1. 0 \in Int /\ p.size - 1 \in Int /\ 0 <= p.size - 1 /\ (p.size - 1) - 0 + 1 = p.size
    BY <1>0
  <2>2. Slots(p) = 0..(p.size - 1)
    BY DEF Slots
  <2> QED BY <2>1, <2>2, FS_Interval
<1>3. Cardinality(0..(m - 1)) = m
  BY FS_Interval
<1> HIDE DEF f
<1>4. Cardinality(0..(m - 1)) <= Cardinality(Slots(p))
  BY <1>1, <1>2, FS_Injection
<1> QED BY <1>2, <1>3, <1>4

(* The free list ends and no free slot is missing from it, so that the pool *)
(* never doubles while a slot is free.                                      *)
THEOREM NoSlotIsLost == PoolSpec => []FreeListIsComplete
<1>1. PoolInit => ChainInv(pool)
  BY NewPoolChain DEF PoolInit
<1>2. PoolInv(pool) /\ ChainInv(pool) => FreeListIsComplete
  <2> SUFFICES ASSUME PoolInv(pool), ChainInv(pool) PROVE FreeListIsComplete
    OBVIOUS
  <2>1. PICK m \in Nat : \E d : Chain(pool, m, d)
    BY DEF ChainInv
  <2>2. PICK c : Chain(pool, m, c)
    BY <2>1
  <2>3. pool.size \in Nat \ {0} /\ m <= pool.size
    BY <2>2, ChainFits DEF PoolInv, IsPool, FieldTypes
  <2>4. \A n \in Nat : FreeChain[n] = IF n <= m THEN c[n] ELSE Nil
    BY <2>2, FreeChainFollows
  <2>5. FreeChain[pool.size] = Nil
    BY <2>2, <2>3, <2>4 DEF Chain
  <2>6. ASSUME NEW x
        PROVE  x \in {FreeChain[n] : n \in Slots(pool)} \ {Nil}
                 <=> x \in Slots(pool) \ pool.occupied
    <3>1. ASSUME NEW n \in Slots(pool), x = FreeChain[n], x # Nil
          PROVE  x \in Slots(pool) \ pool.occupied
      <4>1. n \in Nat /\ n \in 0..(m - 1) /\ x = c[n]
        BY <2>2, <2>3, <2>4, <3>1 DEF Chain, Slots
      <4> QED BY <2>2, <4>1 DEF Chain
    <3>2. ASSUME x \in Slots(pool) \ pool.occupied
          PROVE  x \in {FreeChain[n] : n \in Slots(pool)} \ {Nil}
      <4>1. PICK n \in 0..(m - 1) : c[n] = x
        BY <2>2, <3>2 DEF Chain
      <4>2. n \in Slots(pool) /\ n \in Nat /\ n <= m /\ x # Nil
        BY <2>3, <3>2 DEF Slots, Nil
      <4> QED BY <2>4, <4>1, <4>2
    <3> QED BY <3>1, <3>2
  <2> QED BY <2>5, <2>6 DEF FreeListIsComplete
<1> QED BY <1>1, <1>2, ChainStep, ExactAlways, PTL DEF PoolSpec

-----------------------------------------------------------------------------
(* The pool implements the NodeStore: what each method does to the edges,   *)
(* seen as pairs of nodes.                                                  *)

LEMMA LinkOf ==
  ASSUME NEW p, NEW e
  PROVE  e \in LinksOf(p)
           <=> \E a \in Slots(p) : \E b \in p.adj[a] : e = {a, b}
  BY DEF LinksOf

LEMMA NewNodeLinks ==
  ASSUME NEW p, PoolInv(p)
  PROVE  LinksOf(newNode(p)) = LinksOf(p)
<1>1. ASSUME NEW r, PoolInv(r) PROVE LinksOf(takeSlot(r)) = LinksOf(r)
  <2>1. takeSlot(r).adj = r.adj /\ takeSlot(r).size = r.size
    BY <1>1 DEF PoolInv, IsPool, HasFields, takeSlot
  <2> QED BY <2>1 DEF LinksOf, Slots
<1>2. LinksOf(resizeGraph(p)) = LinksOf(p)
  <2> DEFINE q == resizeGraph(p)
  <2>0. FieldTypes(p)
    BY DEF PoolInv, IsPool
  <2>1. /\ q.size = 2 * p.size
        /\ q.adj = [i \in 0..(2 * p.size - 1) |->
                     IF i < p.size THEN p.adj[i] ELSE {}]
    BY DEF PoolInv, IsPool, HasFields, resizeGraph
  <2> HIDE DEF q
  <2>2. \A i \in Slots(p) : i \in Slots(q) /\ q.adj[i] = p.adj[i]
    BY <2>0, <2>1 DEF Slots, FieldTypes
  <2>3. \A i \in Slots(q) : i \notin Slots(p) => q.adj[i] = {}
    BY <2>0, <2>1 DEF Slots, FieldTypes
  <2>4. ASSUME NEW e PROVE e \in LinksOf(q) <=> e \in LinksOf(p)
    BY <2>2, <2>3, LinkOf
  <2> QED BY <2>4 DEF q, LinksOf
<1> QED BY <1>1, <1>2, ResizeInv DEF newNode

LEMMA AddUDEdgeLinks ==
  ASSUME NEW p, PoolInv(p), NEW a \in Slots(p), NEW b \in Slots(p), a # b
  PROVE  LinksOf(addUDEdge(p, a, b)) = LinksOf(p) \cup {{a, b}}
<1> DEFINE q == addUDEdge(p, a, b)
<1>0. FieldTypes(p)
  BY DEF PoolInv, IsPool
<1>1. /\ q.size = p.size
      /\ q.adj = [p.adj EXCEPT ![a] = @ \cup {b}, ![b] = @ \cup {a}]
  BY DEF PoolInv, IsPool, HasFields, addUDEdge
<1> HIDE DEF q
<1>2. /\ Slots(q) = Slots(p)
      /\ q.adj[a] = p.adj[a] \cup {b} /\ q.adj[b] = p.adj[b] \cup {a}
      /\ \A x \in Slots(p) : x # a /\ x # b => q.adj[x] = p.adj[x]
  BY <1>0, <1>1 DEF Slots, FieldTypes
<1>3. ASSUME NEW e PROVE e \in LinksOf(q) <=> e \in LinksOf(p) \cup {{a, b}}
  <2>1. ASSUME NEW x \in Slots(q), NEW y \in q.adj[x], e = {x, y}
        PROVE  e \in LinksOf(p) \cup {{a, b}}
    <3>1. y \in p.adj[x] \/ (x = a /\ y = b) \/ (x = b /\ y = a)
      BY <1>2, <2>1
    <3> QED BY <1>2, <2>1, <3>1, LinkOf
  <2>2. ASSUME NEW x \in Slots(p), NEW y \in p.adj[x], e = {x, y}
        PROVE  e \in LinksOf(q)
    <3>1. y \in q.adj[x]
      BY <1>2, <2>2
    <3> QED BY <1>2, <2>2, <3>1, LinkOf
  <2>3. {a, b} \in LinksOf(q)
    BY <1>2, LinkOf
  <2> QED BY <2>1, <2>2, <2>3, LinkOf
<1> QED BY <1>3 DEF q

LEMMA RemoveUDEdgeLinks ==
  ASSUME NEW p, PoolInv(p), NEW a \in Slots(p), NEW b \in Slots(p)
  PROVE  LinksOf(removeUDEdge(p, a, b)) = LinksOf(p) \ {{a, b}}
<1> DEFINE q == removeUDEdge(p, a, b)
<1>0. FieldTypes(p)
  BY DEF PoolInv, IsPool
<1>a. CASE ~isEdge(p, a, b)
  <2>1. b \notin p.adj[a] /\ a \notin p.adj[b]
    BY <1>a DEF isEdge, PoolInv, SymmetryInv
  <2>2. {a, b} \notin LinksOf(p)
    <3> SUFFICES ASSUME NEW x \in Slots(p), NEW y \in p.adj[x], {a, b} = {x, y}
                 PROVE  FALSE
      BY LinkOf
    <3>1. (x = a /\ y = b) \/ (x = b /\ y = a) \/ (x = y)
      OBVIOUS
    <3> QED BY <2>1, <3>1 DEF PoolInv, SymmetryInv
  <2> QED BY <1>a, <2>2 DEF removeUDEdge
<1>b. CASE isEdge(p, a, b)
  <2>0. b \in p.adj[a] /\ a # b
    BY <1>b DEF isEdge, PoolInv, SymmetryInv
  <2>1. /\ q.size = p.size
        /\ q.adj = [p.adj EXCEPT ![a] = @ \ {b}, ![b] = @ \ {a}]
    BY <1>b DEF PoolInv, IsPool, HasFields, removeUDEdge
  <2> HIDE DEF q
  <2>2. /\ Slots(q) = Slots(p)
        /\ q.adj[a] = p.adj[a] \ {b} /\ q.adj[b] = p.adj[b] \ {a}
        /\ \A x \in Slots(p) : x # a /\ x # b => q.adj[x] = p.adj[x]
    BY <1>0, <2>0, <2>1 DEF Slots, FieldTypes
  <2>3. ASSUME NEW e PROVE e \in LinksOf(q) <=> e \in LinksOf(p) \ {{a, b}}
    <3>1. ASSUME NEW x \in Slots(q), NEW y \in q.adj[x], e = {x, y}
          PROVE  e \in LinksOf(p) \ {{a, b}}
      <4>1. y \in p.adj[x] /\ ~(x = a /\ y = b) /\ ~(x = b /\ y = a)
        BY <2>0, <2>2, <3>1
      <4>2. e # {a, b}
        BY <2>0, <3>1, <4>1
      <4> QED BY <2>2, <3>1, <4>1, <4>2, LinkOf
    <3>2. ASSUME NEW x \in Slots(p), NEW y \in p.adj[x], e = {x, y},
                 e # {a, b}
          PROVE  e \in LinksOf(q)
      <4>1. y \in q.adj[x]
        <5>1. ~(x = a /\ y = b) /\ ~(x = b /\ y = a)
          BY <3>2
        <5> QED BY <2>0, <2>2, <3>2, <5>1
      <4> QED BY <2>2, <3>2, <4>1, LinkOf
    <3> QED BY <3>1, <3>2, LinkOf
  <2> QED BY <2>3 DEF q
<1> QED BY <1>a, <1>b

SizeInv == pool.size <= MaxPoolSize

LEMMA StoreNewNode ==
  ASSUME PoolInv(pool), SizeInv, NewNode
  PROVE  SizeInv' /\ \E x \in 0..(MaxPoolSize - 1) : Store!newNode(x)
<1> DEFINE r == IF pool.first_free = Nil THEN resizeGraph(pool) ELSE pool
           h == r.first_free
<1>1. pool.size \in Nat \ {0} /\ MaxPoolSize \in Nat
  BY PoolAssumption DEF PoolAssumption, PoolInv, IsPool, FieldTypes
<1>2. /\ PoolInv(r) /\ r.first_free # Nil /\ r.occupied = pool.occupied
      /\ r.size \in Nat /\ r.size <= MaxPoolSize
  <2>1. CASE pool.first_free = Nil
    <3>1. /\ resizeGraph(pool).size = 2 * pool.size
          /\ resizeGraph(pool).occupied = pool.occupied
      BY DEF PoolInv, IsPool, HasFields, resizeGraph
    <3> QED BY <1>1, <2>1, <3>1, ResizeInv DEF NewNode
  <2>2. CASE pool.first_free # Nil
    BY <1>1, <2>2 DEF SizeInv
  <2> QED BY <2>1, <2>2
<1> HIDE DEF r
<1>3. h \in Slots(r) /\ h \notin r.occupied
  BY <1>2 DEF PoolInv, IsPool, FieldTypes, FreeListInv, FreeList
<1>4. pool' = takeSlot(r)
  BY DEF NewNode, newNode, r
<1>5. pool'.occupied = pool.occupied \cup {h} /\ pool'.size = r.size
  BY <1>2, <1>4 DEF PoolInv, IsPool, HasFields, takeSlot
<1>6. LinksOf(pool') = LinksOf(pool)
  BY NewNodeLinks DEF NewNode
<1>7. h \in 0..(MaxPoolSize - 1)
  BY <1>1, <1>2, <1>3 DEF Slots
<1>8. Store!newNode(h)
  BY <1>2, <1>3, <1>5, <1>6 DEF Store!newNode
<1> QED BY <1>2, <1>5, <1>7, <1>8 DEF SizeInv

LEMMA StoreDeleteNode ==
  ASSUME PoolInv(pool), ExactInv(pool), SizeInv,
         NEW x \in Slots(pool), DeleteNode(x)
  PROVE  /\ SizeInv'
         /\ \/ Store!deleteNode(x)
            \/ UNCHANGED <<pool.occupied, LinksOf(pool)>>
<1>1. CASE ~existsNode(pool, x)
  <2>1. pool' = pool
    BY <1>1 DEF DeleteNode, deleteNode
  <2> QED BY <2>1 DEF SizeInv, LinksOf, Slots
<1>2. CASE existsNode(pool, x)
  <2>1. /\ pool'.size = pool.size /\ pool'.adj = pool.adj
        /\ pool'.occupied = pool.occupied \ {x}
    BY <1>2 DEF DeleteNode, deleteNode, PoolInv, IsPool, HasFields
  <2>2. LinksOf(pool') = LinksOf(pool)
    BY <2>1 DEF LinksOf, Slots
  <2>3. pool.adj[x] = {}
    <3>1. Cardinality(pool.adj[x]) = 0
      BY DEF ExactInv, DeleteNode
    <3> QED BY <3>1, AdjFinite, FS_EmptySet DEF PoolInv
  <2>4. \A e \in LinksOf(pool) : x \notin e
    <3> SUFFICES ASSUME NEW a \in Slots(pool), NEW b \in pool.adj[a]
                 PROVE  x \notin {a, b}
      BY LinkOf
    <3> QED BY <2>3 DEF PoolInv, SymmetryInv, IsPool, FieldTypes
  <2>5. Store!deleteNode(x)
    BY <2>1, <2>2, <2>4 DEF Store!deleteNode, DeleteNode
  <2> QED BY <2>1, <2>5 DEF SizeInv
<1> QED BY <1>1, <1>2

LEMMA StoreAddUDEdge ==
  ASSUME PoolInv(pool), SizeInv,
         NEW a \in Slots(pool), NEW b \in Slots(pool), AddUDEdge(a, b)
  PROVE  SizeInv' /\ Store!addUDEdge(a, b)
<1>1. pool'.size = pool.size /\ pool'.occupied = pool.occupied
  BY DEF AddUDEdge, addUDEdge, PoolInv, IsPool, HasFields
<1>2. LinksOf(pool') = LinksOf(pool) \cup {{a, b}}
  BY AddUDEdgeLinks DEF AddUDEdge
<1> QED BY <1>1, <1>2 DEF SizeInv, Store!addUDEdge, AddUDEdge

LEMMA StoreRemoveUDEdge ==
  ASSUME PoolInv(pool), SizeInv,
         NEW a \in Slots(pool), NEW b \in Slots(pool), RemoveUDEdge(a, b)
  PROVE  SizeInv' /\ Store!removeUDEdge(a, b)
<1>1. pool'.size = pool.size /\ pool'.occupied = pool.occupied
  BY DEF RemoveUDEdge, removeUDEdge, PoolInv, IsPool, HasFields
<1>2. LinksOf(pool') = LinksOf(pool) \ {{a, b}}
  BY RemoveUDEdgeLinks DEF RemoveUDEdge
<1> QED BY <1>1, <1>2 DEF SizeInv, Store!removeUDEdge

LEMMA StoreStep ==
  PoolInv(pool) /\ ExactInv(pool) /\ SizeInv /\ [PoolNext]_pool
    => SizeInv' /\ [Store!Next]_<<pool.occupied, LinksOf(pool)>>
<1> SUFFICES ASSUME PoolInv(pool), ExactInv(pool), SizeInv, [PoolNext]_pool
             PROVE  SizeInv' /\ [Store!Next]_<<pool.occupied, LinksOf(pool)>>
  OBVIOUS
<1>0. Slots(pool) \subseteq 0..(MaxPoolSize - 1)
  BY PoolAssumption DEF PoolAssumption, SizeInv, Slots, PoolInv, IsPool,
     FieldTypes
<1>1. CASE NewNode
  BY <1>1, StoreNewNode DEF Store!Next
<1>2. ASSUME NEW x \in Slots(pool), DeleteNode(x)
      PROVE  SizeInv' /\ [Store!Next]_<<pool.occupied, LinksOf(pool)>>
  BY <1>0, <1>2, StoreDeleteNode DEF Store!Next
<1>3. ASSUME NEW a \in Slots(pool), NEW b \in Slots(pool), AddUDEdge(a, b)
      PROVE  SizeInv' /\ Store!Next
  BY <1>0, <1>3, StoreAddUDEdge DEF Store!Next
<1>4. ASSUME NEW a \in Slots(pool), NEW b \in Slots(pool), RemoveUDEdge(a, b)
      PROVE  SizeInv' /\ Store!Next
  BY <1>0, <1>4, StoreRemoveUDEdge DEF Store!Next
<1>5. CASE UNCHANGED pool
  BY <1>5 DEF SizeInv, LinksOf, Slots
<1> QED BY <1>1, <1>2, <1>3, <1>4, <1>5 DEF PoolNext

(* The pool of slots, its free list and its two lists per edge are a set of *)
(* named nodes and a set of pairs of them, to the code that uses them.      *)
THEOREM PoolImplementsStore == PoolSpec => ImplementsStore
<1>1. PoolInit => SizeInv /\ Store!Init
  <2> SUFFICES ASSUME PoolInit PROVE SizeInv /\ Store!Init
    OBVIOUS
  <2>1. /\ pool.size = PoolSize /\ pool.occupied = {}
        /\ \A i \in Slots(pool) : pool.adj[i] = {}
    BY DEF PoolInit, NewPool, Slots
  <2>2. LinksOf(pool) = {}
    BY <2>1, LinkOf
  <2> QED BY <2>1, <2>2, PoolAssumption DEF PoolAssumption, SizeInv, Store!Init
<1> QED BY <1>1, StoreStep, ExactAlways, PTL
        DEF PoolSpec, ImplementsStore, Store!Spec

-----------------------------------------------------------------------------
(* Training. *)

Typed ==
  /\ pc \in Labels /\ s \in 0..Lambda
  /\ n0 \in Node /\ n1 \in Node /\ nr \in Node
  /\ pc \notin {"grow", "split", "join0", "join1", "rest"} => s < Lambda

SizeBound == pool.nodes \in Nat /\ pool.nodes <= MaxNodes

(* Both halves of an edge have one age, too high only until it is removed.  *)
AgesShape ==
  \A e \in Ends(pool) :
    /\ age[e] = age[Rev(e)]
    /\ age[e] > MaxAge => pc = "expire" /\ e \in {<<n0, nr>>, <<nr, n0>>}

AgeInv == age \in [Ends(pool) -> Nat] /\ AgesShape

(* What the local variables name at each label. *)
SeedShape ==
  /\ pc = "seed0" => pool = NewPool
  /\ pc = "seed1" => /\ pool.occupied = {0} /\ pool.size = PoolSize
                     /\ pool.nodes = 1
                     /\ pool.first_free = IF PoolSize = 1 THEN Nil ELSE 1

ScanShape ==
  /\ pc = "link" => n0 # n1 /\ {n0, n1} \subseteq pool.occupied
  /\ pc \in Scanning => /\ n0 \in pool.occupied /\ isEdge(pool, n0, n1)
  /\ pc = "expire" => nr \in pool.adj[n0] /\ nr # n1
  /\ pc = "orphan" => nr \in pool.occupied /\ nr # n0 /\ nr # n1
                      /\ nr \notin pool.adj[n0]
  /\ pc = "lonely" /\ nr \in Visible /\ ~Utility => pool.adj[nr] # {}

(* The list that is scanned has the edges of nearest_0 once each.  Those    *)
(* before the iterator have grown older, and so has the one at it when it   *)
(* has to go.  Outside the scan there is no list.                           *)
ListShape ==
  IF pc \in Scanning
  THEN /\ edges \in Seq(Slots(pool)) /\ IsInjective(edges)
       /\ Range(edges) = pool.adj[n0]
       /\ edg \in 1..(Len(edges) + 1) /\ aged \subseteq Range(edges)
       /\ \A k \in 1..Len(edges) :
            edges[k] \in aged <=> k < edg \/ (pc = "expire" /\ k = edg)
       /\ pc = "expire" => edg \in 1..Len(edges) /\ nr = edges[edg]
  ELSE edges = <<>> /\ edg = 1 /\ aged = {}

GrowShape ==
  /\ pc = "strip" => nr \in pool.occupied
  /\ pc \in {"split", "join0", "join1"} =>
       /\ {n0, n1, nr} \subseteq pool.occupied
       /\ n0 # n1 /\ n0 # nr /\ n1 # nr
  /\ pc \in {"split", "join0"} => pool.adj[nr] = {}
  /\ pc = "join1" => pool.adj[nr] = {n0}

TrainInv ==
  /\ PoolInv(pool) /\ ExactInv(pool)
  /\ Typed /\ SizeBound /\ ListShape /\ AgeInv
  /\ SeedShape /\ ScanShape /\ GrowShape

-----------------------------------------------------------------------------
(* What each method of the pool does to the fields the shapes speak of. *)

LEMMA NewNodeEffect ==
  ASSUME NEW p, PoolInv(p)
  PROVE  \E n \in Slots(newNode(p)) :
           /\ n = (IF p.first_free = Nil THEN p.size ELSE p.first_free)
           /\ n \notin p.occupied
           /\ newNode(p).occupied = p.occupied \cup {n}
           /\ newNode(p).nodes = p.nodes + 1
           /\ newNode(p).adj[n] = {}
           /\ Slots(p) \subseteq Slots(newNode(p))
           /\ \A x \in Slots(p) : newNode(p).adj[x] = p.adj[x]
           /\ Ends(newNode(p)) = Ends(p)
<1> DEFINE r == IF p.first_free = Nil THEN resizeGraph(p) ELSE p
           q == takeSlot(r)
           h == r.first_free
<1>0. FieldTypes(p)
  BY DEF PoolInv, IsPool
<1>1. /\ PoolInv(r) /\ h # Nil /\ r.occupied = p.occupied
      /\ r.nodes = p.nodes
      /\ h = (IF p.first_free = Nil THEN p.size ELSE p.first_free)
  BY ResizeInv DEF PoolInv, IsPool, HasFields, resizeGraph
<1>2. Slots(p) \subseteq Slots(r) /\ \A x \in Slots(p) : r.adj[x] = p.adj[x]
  <2>1. CASE p.first_free = Nil
    <3>1. /\ r.size = 2 * p.size
          /\ r.adj = [i \in 0..(2 * p.size - 1) |->
                        IF i < p.size THEN p.adj[i] ELSE {}]
      BY <2>1 DEF PoolInv, IsPool, HasFields, resizeGraph
    <3> HIDE DEF r
    <3> QED BY <1>0, <3>1 DEF Slots, FieldTypes
  <2>2. CASE p.first_free # Nil
    BY <2>2
  <2> QED BY <2>1, <2>2
<1>3. \A x \in Slots(r) : x \notin Slots(p) => r.adj[x] = {}
  <2>1. CASE p.first_free = Nil
    <3>1. /\ r.size = 2 * p.size
          /\ r.adj = [i \in 0..(2 * p.size - 1) |->
                        IF i < p.size THEN p.adj[i] ELSE {}]
      BY <2>1 DEF PoolInv, IsPool, HasFields, resizeGraph
    <3> HIDE DEF r
    <3> QED BY <1>0, <3>1 DEF Slots, FieldTypes
  <2>2. CASE p.first_free # Nil
    BY <2>2
  <2> QED BY <2>1, <2>2
<1> HIDE DEF r
<1>4. /\ q.size = r.size /\ q.adj = r.adj /\ q.nodes = r.nodes + 1
      /\ q.occupied = r.occupied \cup {h}
  BY <1>1 DEF PoolInv, IsPool, HasFields, takeSlot
<1>5. h \in Slots(r) /\ h \notin r.occupied /\ r.adj[h] = {}
  BY <1>1 DEF PoolInv, FreeListInv, FreeList
<1>6. newNode(p) = q
  BY DEF newNode, r
<1> HIDE DEF q, h
<1>7. Slots(q) = Slots(r)
  BY <1>4 DEF Slots
<1>8. Ends(q) = Ends(p)
  <2>1. ASSUME NEW e \in Ends(q) PROVE e \in Ends(p)
    <3>1. e \in Slots(r) \X Slots(r) /\ e[2] \in r.adj[e[1]]
      BY <1>4, <1>7, <2>1 DEF Ends
    <3>2. e[1] \in Slots(p)
      BY <1>3, <3>1
    <3>3. e[2] \in p.adj[e[1]]
      BY <1>2, <3>1, <3>2
    <3>4. e[2] \in Slots(p)
      BY <1>0, <3>2, <3>3 DEF FieldTypes
    <3> QED BY <3>1, <3>2, <3>3, <3>4 DEF Ends
  <2>2. ASSUME NEW e \in Ends(p) PROVE e \in Ends(q)
    BY <1>2, <1>4, <1>7, <2>2 DEF Ends
  <2> QED BY <2>1, <2>2
<1> QED BY <1>1, <1>2, <1>4, <1>5, <1>6, <1>7, <1>8

LEMMA DeleteNodeEffect ==
  ASSUME NEW p, PoolInv(p), NEW x \in Slots(p)
  PROVE  /\ deleteNode(p, x).size = p.size
         /\ deleteNode(p, x).adj = p.adj
         /\ deleteNode(p, x).occupied =
              IF existsNode(p, x) THEN p.occupied \ {x} ELSE p.occupied
         /\ deleteNode(p, x).nodes =
              IF existsNode(p, x) THEN p.nodes - 1 ELSE p.nodes
         /\ Slots(deleteNode(p, x)) = Slots(p)
         /\ Ends(deleteNode(p, x)) = Ends(p)
<1>1. /\ deleteNode(p, x).size = p.size /\ deleteNode(p, x).adj = p.adj
      /\ deleteNode(p, x).occupied =
           IF existsNode(p, x) THEN p.occupied \ {x} ELSE p.occupied
      /\ deleteNode(p, x).nodes =
           IF existsNode(p, x) THEN p.nodes - 1 ELSE p.nodes
  <2>1. CASE existsNode(p, x)
    BY <2>1 DEF PoolInv, IsPool, HasFields, deleteNode
  <2>2. CASE ~existsNode(p, x)
    BY <2>2 DEF deleteNode
  <2> QED BY <2>1, <2>2
<1> QED BY <1>1 DEF Slots, Ends

LEMMA AddUDEdgeEffect ==
  ASSUME NEW p, PoolInv(p), NEW a \in Slots(p), NEW b \in Slots(p), a # b
  PROVE  LET q == addUDEdge(p, a, b)
         IN  /\ q.size = p.size /\ q.occupied = p.occupied
             /\ q.nodes = p.nodes /\ Slots(q) = Slots(p)
             /\ q.adj[a] = p.adj[a] \cup {b} /\ q.adj[b] = p.adj[b] \cup {a}
             /\ \A x \in Slots(p) : x # a /\ x # b => q.adj[x] = p.adj[x]
<1>0. FieldTypes(p)
  BY DEF PoolInv, IsPool
<1>1. /\ addUDEdge(p, a, b).size = p.size
      /\ addUDEdge(p, a, b).occupied = p.occupied
      /\ addUDEdge(p, a, b).nodes = p.nodes
      /\ addUDEdge(p, a, b).adj =
           [p.adj EXCEPT ![a] = @ \cup {b}, ![b] = @ \cup {a}]
  BY DEF PoolInv, IsPool, HasFields, addUDEdge
<1> QED BY <1>0, <1>1 DEF Slots, FieldTypes

LEMMA RemoveUDEdgeEffect ==
  ASSUME NEW p, PoolInv(p), NEW a \in Slots(p), NEW b \in Slots(p), a # b
  PROVE  LET q == removeUDEdge(p, a, b)
         IN  /\ q.size = p.size /\ q.occupied = p.occupied
             /\ q.nodes = p.nodes /\ Slots(q) = Slots(p)
             /\ q.adj[a] = p.adj[a] \ {b} /\ q.adj[b] = p.adj[b] \ {a}
             /\ \A x \in Slots(p) : x # a /\ x # b => q.adj[x] = p.adj[x]
<1>0. FieldTypes(p)
  BY DEF PoolInv, IsPool
<1>1. CASE isEdge(p, a, b)
  <2>1. /\ removeUDEdge(p, a, b).size = p.size
        /\ removeUDEdge(p, a, b).occupied = p.occupied
        /\ removeUDEdge(p, a, b).nodes = p.nodes
        /\ removeUDEdge(p, a, b).adj =
             [p.adj EXCEPT ![a] = @ \ {b}, ![b] = @ \ {a}]
    BY <1>1 DEF PoolInv, IsPool, HasFields, removeUDEdge
  <2> QED BY <1>0, <2>1 DEF Slots, FieldTypes
<1>2. CASE ~isEdge(p, a, b)
  <2>1. b \notin p.adj[a] /\ a \notin p.adj[b]
    BY <1>2 DEF isEdge, PoolInv, SymmetryInv
  <2> QED BY <1>2, <2>1 DEF removeUDEdge
<1> QED BY <1>1, <1>2

(* Both halves of an edge are in Ends. *)
LEMMA RevEnds ==
  ASSUME NEW p, PoolInv(p), NEW e
  PROVE  e \in Ends(p) => Rev(e) \in Ends(p) /\ Rev(Rev(e)) = e
  BY DEF Ends, Rev, PoolInv, SymmetryInv

(* The ages after a change of the pool. *)
LEMMA SetPoolAges ==
  ASSUME PoolInv(pool), AgeInv, NEW q, PoolInv(q), SetPool(q)
  PROVE  /\ pool' = q
         /\ age' \in [Ends(q) -> Nat]
         /\ \A e \in Ends(q) :
              /\ age'[e] = age'[Rev(e)]
              /\ age'[e] = 0 \/ (e \in Ends(pool) /\ age'[e] = age[e])
<1>1. /\ pool' = q
      /\ age' = [e \in Ends(q) |-> IF e \in Ends(pool) THEN age[e] ELSE 0]
  BY DEF SetPool, AgeInv
<1>2. age' \in [Ends(q) -> Nat]
  BY <1>1 DEF AgeInv
<1>3. ASSUME NEW e \in Ends(q) PROVE age'[e] = age'[Rev(e)]
  <2>1. Rev(e) \in Ends(q) /\ (e \in Ends(pool) <=> Rev(e) \in Ends(pool))
    BY <1>3, RevEnds
  <2> QED BY <1>1, <1>3, <2>1 DEF AgeInv, AgesShape
<1> QED BY <1>1, <1>2, <1>3

(* Where no edge is too old before, none is after. *)
LEMMA YoungStays ==
  ASSUME PoolInv(pool), AgeInv, NEW q, PoolInv(q), SetPool(q),
         \A e \in Ends(q) : e \in Ends(pool) => age[e] <= MaxAge
  PROVE  AgeInv'
<1>1. MaxAge \in Nat
  BY TrainingAssumption DEF TrainingAssumption
<1>2. /\ pool' = q
      /\ age' \in [Ends(q) -> Nat]
      /\ \A e \in Ends(q) :
           /\ age'[e] = age'[Rev(e)]
           /\ age'[e] = 0 \/ (e \in Ends(pool) /\ age'[e] = age[e])
  BY SetPoolAges
<1>3. \A e \in Ends(q) : age'[e] \in Nat /\ age'[e] <= MaxAge
  BY <1>1, <1>2
<1>4. Ends(pool)' = Ends(q)
  BY <1>2 DEF Ends, Slots
<1>5. \A e \in Ends(q) : age'[e] = age'[Rev(e)] /\ ~(age'[e] > MaxAge)
  BY <1>1, <1>2, <1>3
<1>6. AgesShape'
  BY <1>4, <1>5 DEF AgesShape
<1> QED BY <1>2, <1>4, <1>6 DEF AgeInv

LEMMA NoneTooOld ==
  ASSUME AgeInv, pc # "expire"
  PROVE  \A e \in Ends(pool) : age[e] <= MaxAge
  BY TrainingAssumption DEF TrainingAssumption, AgeInv, AgesShape

LEMMA SameAges ==
  ASSUME AgeInv, pc # "expire", UNCHANGED <<pool, age>>
  PROVE  AgeInv'
<1>1. Ends(pool)' = Ends(pool)
  BY DEF Ends, Slots
<1>2. MaxAge \in Nat /\ \A e \in Ends(pool) : age[e] \in Nat /\ age[e] <= MaxAge
  BY NoneTooOld, TrainingAssumption DEF TrainingAssumption, AgeInv
<1>3. \A e \in Ends(pool) : age'[e] = age'[Rev(e)] /\ ~(age'[e] > MaxAge)
  BY <1>2 DEF AgeInv, AgesShape
<1>4. AgesShape'
  BY <1>1, <1>3 DEF AgesShape
<1> QED BY <1>1, <1>4 DEF AgeInv

LEMMA Places ==
  ASSUME TrainInv
  PROVE  /\ pool.occupied \subseteq Slots(pool)
         /\ Visible \subseteq pool.occupied
         /\ \A x \in Slots(pool) : /\ pool.adj[x] \subseteq pool.occupied
                                  /\ x \notin pool.adj[x]
                                  /\ \A y \in pool.adj[x] : x \in pool.adj[y]
  BY DEF TrainInv, PoolInv, IsPool, FieldTypes, ExactInv, SymmetryInv, Visible,
         existsNode

(* A step that leaves the pool and the ages alone. *)
LEMMA QuietStep ==
  ASSUME TrainInv, UNCHANGED <<pool, age>>, pc # "expire"
  PROVE  /\ PoolInv(pool)' /\ ExactInv(pool)' /\ SizeBound' /\ AgeInv'
         /\ Slots(pool)' = Slots(pool) /\ Node' = Node /\ Visible' = Visible
         /\ [PoolNext]_pool
  BY SameAges DEF TrainInv, SizeBound, Slots, Node, Visible

LEMMA EmptyCount ==
  ASSUME NEW p, ExactInv(p), NEW x \in Slots(p), p.adj[x] = {}
  PROVE  p.edgesCount[x] = 0
  BY FS_EmptySet DEF ExactInv

(* What the steps that delete a node, or add or remove an edge share.       *)
Sound ==
  /\ PoolInv(pool) /\ ExactInv(pool) /\ SizeBound /\ AgeInv

LEMMA DeleteStep ==
  ASSUME TrainInv, NEW x \in pool.occupied, pool.edgesCount[x] = 0,
         pc # "expire", SetPool(deleteNode(pool, x))
  PROVE  /\ Sound' /\ PoolNext
         /\ Slots(pool)' = Slots(pool) /\ Node' = Node
         /\ pool'.adj = pool.adj /\ pool.adj[x] = {}
         /\ pool'.occupied =
              IF existsNode(pool, x) THEN pool.occupied \ {x} ELSE pool.occupied
<1> DEFINE q == deleteNode(pool, x)
<1>1. x \in Slots(pool)
  BY Places
<1>2. PoolInv(q) /\ ExactInv(q) /\ pool' = q
  BY <1>1, DeleteNodeInv, DeleteNodeExact DEF TrainInv, SetPool
<1>3. PoolNext
  BY <1>1, <1>2 DEF PoolNext, DeleteNode
<1>4. /\ q.adj = pool.adj /\ Slots(q) = Slots(pool)
      /\ q.occupied =
           IF existsNode(pool, x) THEN pool.occupied \ {x} ELSE pool.occupied
      /\ q.nodes = IF existsNode(pool, x) THEN pool.nodes - 1 ELSE pool.nodes
  BY <1>1, DeleteNodeEffect DEF TrainInv
<1>5. AgeInv'
  BY <1>2, YoungStays, NoneTooOld DEF TrainInv
<1>6. q.nodes \in Nat
  BY <1>2 DEF PoolInv, IsPool, FieldTypes
<1> HIDE DEF q
<1>7. SizeBound'
  BY <1>2, <1>4, <1>6, TrainingAssumption
     DEF SizeBound, TrainInv, TrainingAssumption
<1>8. pool.adj[x] = {}
  BY <1>1, CountZero DEF TrainInv
<1> QED BY <1>2, <1>3, <1>4, <1>5, <1>7, <1>8 DEF Sound, Node, Slots

LEMMA AddStep ==
  ASSUME TrainInv, NEW a \in pool.occupied, NEW b \in pool.occupied, a # b,
         ~isEdge(pool, a, b), pc # "expire", SetPool(addUDEdge(pool, a, b))
  PROVE  /\ Sound' /\ PoolNext
         /\ Slots(pool)' = Slots(pool) /\ Node' = Node
         /\ pool'.occupied = pool.occupied
         /\ pool'.adj[a] = pool.adj[a] \cup {b}
         /\ pool'.adj[b] = pool.adj[b] \cup {a}
<1> DEFINE q == addUDEdge(pool, a, b)
<1>1. a \in Slots(pool) /\ b \in Slots(pool)
  BY Places
<1>2. PoolInv(q) /\ ExactInv(q) /\ pool' = q
  BY AddUDEdgeInv, AddUDEdgeExact DEF TrainInv, SetPool
<1>3. PoolNext
  BY <1>1, <1>2 DEF PoolNext, AddUDEdge
<1>4. /\ q.occupied = pool.occupied /\ q.nodes = pool.nodes
      /\ Slots(q) = Slots(pool)
      /\ q.adj[a] = pool.adj[a] \cup {b} /\ q.adj[b] = pool.adj[b] \cup {a}
  BY <1>1, AddUDEdgeEffect DEF TrainInv
<1>5. AgeInv'
  BY <1>2, YoungStays, NoneTooOld DEF TrainInv
<1> HIDE DEF q
<1>6. SizeBound'
  BY <1>2, <1>4 DEF SizeBound, TrainInv
<1> QED BY <1>2, <1>3, <1>4, <1>5, <1>6 DEF Sound, Node, Slots

LEMMA RemoveStep ==
  ASSUME TrainInv, NEW a \in pool.occupied, NEW b \in pool.occupied, a # b,
         pc = "expire" => a = n0 /\ b = nr, SetPool(removeUDEdge(pool, a, b))
  PROVE  /\ Sound' /\ [PoolNext]_pool
         /\ Slots(pool)' = Slots(pool) /\ Node' = Node
         /\ pool'.occupied = pool.occupied
         /\ pool'.adj[a] = pool.adj[a] \ {b}
         /\ pool'.adj[b] = pool.adj[b] \ {a}
<1> DEFINE q == removeUDEdge(pool, a, b)
<1>1. a \in Slots(pool) /\ b \in Slots(pool)
  BY Places
<1>2. PoolInv(q) /\ ExactInv(q) /\ pool' = q
  BY <1>1, RemoveUDEdgeInv, RemoveUDEdgeExact DEF TrainInv, SetPool
<1>3. [PoolNext]_pool
  BY <1>1, <1>2 DEF PoolNext, RemoveUDEdge, removeUDEdge
<1>4. /\ q.occupied = pool.occupied /\ q.nodes = pool.nodes
      /\ Slots(q) = Slots(pool)
      /\ q.adj[a] = pool.adj[a] \ {b} /\ q.adj[b] = pool.adj[b] \ {a}
  BY <1>1, RemoveUDEdgeEffect DEF TrainInv
<1>5. AgeInv'
  <2>1. ASSUME NEW e \in Ends(q), e \in Ends(pool) PROVE age[e] <= MaxAge
    <3>1. e # <<a, b>> /\ e # <<b, a>>
      BY <1>4, <2>1 DEF Ends
    <3>2. ~(age[e] > MaxAge)
      BY <2>1, <3>1 DEF TrainInv, AgeInv, AgesShape
    <3> QED BY <2>1, <3>2, TrainingAssumption
            DEF TrainingAssumption, TrainInv, AgeInv
  <2> QED BY <1>2, <2>1, YoungStays DEF TrainInv
<1> HIDE DEF q
<1>6. SizeBound'
  BY <1>2, <1>4 DEF SizeBound, TrainInv
<1> QED BY <1>2, <1>3, <1>4, <1>5, <1>6 DEF Sound, Node, Slots

-----------------------------------------------------------------------------
(* The steps of randomInit. *)

LEMMA Seed0Step ==
  ASSUME TrainInv, Seed0 PROVE TrainInv' /\ [PoolNext]_pool
<1> DEFINE q == newNode(pool)
<1>1. PoolInv(q) /\ ExactInv(q) /\ pool' = q
  BY NewNodeInv, NewNodeExact DEF TrainInv, Seed0, SetPool
<1>2. PoolNext
  BY <1>1 DEF Seed0, Room, PoolNext, NewNode
<1>3. pool = NewPool /\ PoolSize \in Nat \ {0} /\ pool.first_free = 0
  BY PoolAssumption DEF PoolAssumption, Seed0, Goto, TrainInv, SeedShape,
     NewPool
<1>4. /\ q.size = PoolSize /\ q.occupied = {0} /\ q.nodes = 1
      /\ q.first_free = IF PoolSize = 1 THEN Nil ELSE 1
  BY <1>3 DEF newNode, takeSlot, NewPool, Nil
<1>5. AgeInv'
  BY <1>1, YoungStays, NoneTooOld DEF TrainInv, Seed0, Goto
<1> HIDE DEF q
<1>6. Slots(pool)' = Slots(pool)
  BY <1>1, <1>3, <1>4 DEF Slots, NewPool
<1>7. Typed' /\ SizeBound' /\ ListShape'
  <2>1. MaxNodes \in Nat /\ MaxNodes >= 2
    BY TrainingAssumption DEF TrainingAssumption
  <2>2. SizeBound'
    BY <1>1, <1>4, <2>1 DEF SizeBound
  <2>3. ListShape'
    BY DEF ListShape, Scanning, scanVars, TrainInv, Seed0, Goto
  <2> QED BY <1>6, <2>2, <2>3 DEF Typed, TrainInv, Seed0, Goto, Labels, Node
<1>8. SeedShape' /\ ScanShape' /\ GrowShape'
  BY <1>1, <1>4 DEF SeedShape, ScanShape, GrowShape, Scanning, Seed0, Goto
<1> QED BY <1>1, <1>2, <1>5, <1>7, <1>8 DEF TrainInv

LEMMA Seed1Step ==
  ASSUME TrainInv, Seed1 PROVE TrainInv' /\ [PoolNext]_pool
<1> DEFINE q == newNode(pool)
<1>1. PoolInv(q) /\ ExactInv(q) /\ pool' = q
  BY NewNodeInv, NewNodeExact DEF TrainInv, Seed1, SetPool
<1>2. PoolNext
  BY <1>1 DEF Seed1, Room, PoolNext, NewNode
<1>3. /\ pool.occupied = {0} /\ pool.size = PoolSize /\ pool.nodes = 1
      /\ pool.first_free = (IF PoolSize = 1 THEN Nil ELSE 1)
      /\ PoolSize \in Nat \ {0}
  BY PoolAssumption DEF PoolAssumption, Seed1, Goto, TrainInv, SeedShape
<1>4. /\ q.occupied = {0, 1} /\ q.nodes = 2 /\ Slots(pool) \subseteq Slots(q)
  <2>1. PICK n \in Slots(q) :
          /\ n = (IF pool.first_free = Nil THEN pool.size ELSE pool.first_free)
          /\ q.occupied = pool.occupied \cup {n}
          /\ q.nodes = pool.nodes + 1
          /\ Slots(pool) \subseteq Slots(q)
    BY NewNodeEffect DEF TrainInv
  <2>2. n = 1
    BY <1>3, <2>1 DEF Nil
  <2> QED BY <1>3, <2>1, <2>2
<1>5. AgeInv'
  BY <1>1, YoungStays, NoneTooOld DEF TrainInv, Seed1, Goto
<1> HIDE DEF q
<1>7. Typed' /\ SizeBound' /\ ListShape'
  <2>1. MaxNodes \in Nat /\ MaxNodes >= 2
    BY TrainingAssumption DEF TrainingAssumption
  <2>2. SizeBound'
    BY <1>1, <1>4, <2>1 DEF SizeBound
  <2>3. ListShape'
    BY DEF ListShape, Scanning, scanVars, TrainInv, Seed1, Goto
  <2> QED BY <1>1, <1>4, <2>2, <2>3
          DEF Typed, TrainInv, Seed1, Goto, Labels, Node
<1>8. SeedShape' /\ ScanShape' /\ GrowShape'
  BY DEF SeedShape, ScanShape, GrowShape, Scanning, Seed1, Goto
<1> QED BY <1>1, <1>2, <1>5, <1>7, <1>8 DEF TrainInv

-----------------------------------------------------------------------------
(* The steps of adapt. *)

LEMMA SearchStep ==
  ASSUME TrainInv, NEW a \in Visible, NEW b \in Visible, Search(a, b)
  PROVE  TrainInv' /\ [PoolNext]_pool
<1>1. a \in pool.occupied /\ b \in pool.occupied
  BY Places DEF TrainInv, ListShape, Scanning, scanVars, Visible
<1>2. /\ PoolInv(pool)' /\ ExactInv(pool)' /\ SizeBound' /\ AgeInv'
      /\ Slots(pool)' = Slots(pool) /\ Node' = Node
      /\ [PoolNext]_pool
  BY QuietStep DEF Search, Goto
<1>3. Typed'
  BY <1>1, <1>2, Places DEF Typed, TrainInv, Search, Goto, Labels, Node
<1>4. ListShape'
  BY DEF ListShape, Scanning, scanVars, TrainInv, Search, Goto
<1>5. SeedShape' /\ ScanShape' /\ GrowShape'
  BY <1>1 DEF SeedShape, ScanShape, GrowShape, Scanning, Search, Goto
<1> QED BY <1>2, <1>3, <1>4, <1>5 DEF TrainInv

(* The list that a scan begins with. *)
LEMMA FreshList ==
  ASSUME PoolInv(pool)', NEW x, n0' = x, x \in Slots(pool)', pool'.adj[x] = Range(edges'),
         edges' \in Seq(Slots(pool)'), IsInjective(edges'),
         edg' = 1, aged' = {}, pc' = "scan"
  PROVE  ListShape'
<1>1. Len(edges') \in Nat
  OBVIOUS
<1>2. edg' \in 1..(Len(edges') + 1)
  BY <1>1
<1>3. \A k \in 1..Len(edges') : edges'[k] \in aged' <=> k < edg' \/ (pc' = "expire" /\ k = edg')
  BY <1>1
<1> QED BY <1>2, <1>3 DEF ListShape, Scanning

LEMMA LinkStep ==
  ASSUME TrainInv, Link PROVE TrainInv' /\ [PoolNext]_pool
<1> DEFINE q == addUDEdge(pool, n0, n1)
           A == pool.adj[n0]
<1>1. /\ n0 \in pool.occupied /\ n1 \in pool.occupied /\ n0 # n1
      /\ n0 \in Slots(pool) /\ n1 \in Slots(pool)
      /\ PoolInv(pool)
  BY Places DEF Link, Goto, TrainInv, ScanShape
<1>2. /\ A \subseteq Slots(pool)
      /\ \A t \in SetToSeqs(A) : t \in Seq(A) /\ IsInjective(t) /\ Range(t) = A
  <2>1. IsFiniteSet(A) /\ A \subseteq Slots(pool)
    BY <1>1, AdjFinite DEF PoolInv, IsPool, FieldTypes
  <2> HIDE DEF A
  <2> QED BY <2>1, SetToSeqsElements
<1>3. /\ edg' = 1 /\ aged' = {} /\ pc' = "scan" /\ n0' = n0
      /\ UNCHANGED <<s, n0, n1, nr>> /\ pc = "link"
  BY DEF Link, Goto
<1>4. CASE isEdge(pool, n0, n1)
  <2>1. UNCHANGED <<pool, age>> /\ pc # "expire" /\ edges' \in SetToSeqs(A)
    BY <1>4 DEF Link, Goto
  <2>2. /\ PoolInv(pool)' /\ ExactInv(pool)' /\ SizeBound' /\ AgeInv'
        /\ Slots(pool)' = Slots(pool) /\ Node' = Node
        /\ [PoolNext]_pool
    BY <2>1, QuietStep
  <2>3. edges' \in Seq(Slots(pool)) /\ IsInjective(edges') /\ Range(edges') = A
    <3>1. edges' \in Seq(A) /\ IsInjective(edges') /\ Range(edges') = A
      BY <1>2, <2>1
    <3> HIDE DEF A
    <3> QED BY <1>2, <3>1
  <2>4. ListShape'
    BY <1>1, <1>3, <2>1, <2>2, <2>3, FreshList
  <2>5. Typed'
    BY <1>1, <1>3, <2>1, <2>2 DEF Typed, TrainInv, Labels
  <2>6. SeedShape' /\ ScanShape' /\ GrowShape'
    BY <1>1, <1>3, <1>4, <2>1
       DEF SeedShape, ScanShape, GrowShape, Scanning, isEdge
  <2> QED BY <2>2, <2>4, <2>5, <2>6 DEF TrainInv
<1>5. CASE ~isEdge(pool, n0, n1)
  <2>1. /\ PoolInv(q) /\ ExactInv(q) /\ SetPool(q) /\ pool' = q
        /\ \E t \in SetToSeqs(A) : edges' = Append(t, n1)
    BY <1>1, <1>5, AddUDEdgeInv, AddUDEdgeExact
       DEF TrainInv, Link, SetPool
  <2>2. PoolNext
    BY <1>1, <1>5, <2>1 DEF PoolNext, AddUDEdge
  <2>3. /\ q.occupied = pool.occupied /\ q.nodes = pool.nodes
        /\ Slots(q) = Slots(pool) /\ q.adj[n0] = A \cup {n1}
    BY <1>1, AddUDEdgeEffect DEF TrainInv
  <2>4. AgeInv'
    BY <2>1, YoungStays, NoneTooOld DEF TrainInv, Link, Goto
  <2>5. n1 \notin A
    BY <1>1, <1>5 DEF isEdge, PoolInv, SymmetryInv
  <2> HIDE DEF q, A
  <2>6. edges' \in Seq(Slots(pool)) /\ IsInjective(edges') /\ Range(edges') = A \cup {n1}
    <3>1. PICK t \in SetToSeqs(A) : edges' = Append(t, n1)
      BY <2>1
    <3>2. t \in Seq(A) /\ IsInjective(t) /\ Range(t) = A
      BY <1>2
    <3>3. t \in Seq(Slots(pool))
      BY <1>2, <3>2
    <3>4. edges' \in Seq(Slots(pool))
      BY <1>1, <3>1, <3>3
    <3>5. IsInjective(edges') /\ Range(edges') = Range(t) \cup {n1}
      <4>1. n1 \in Slots(pool) /\ n1 \notin Range(t)
        BY <1>1, <2>5, <3>2
      <4> DEFINE S == Slots(pool)
      <4>2. t \in Seq(S) /\ n1 \in S /\ edges' = Append(t, n1)
        BY <3>1, <3>3, <4>1
      <4> HIDE DEF S
      <4> QED BY <3>2, <4>1, <4>2, AppendElements
    <3> QED BY <3>2, <3>4, <3>5
  <2>7. SizeBound' /\ Node' = Node /\ Slots(pool)' = Slots(pool)
    BY <2>1, <2>3 DEF SizeBound, Node, TrainInv, Slots
  <2>8. ListShape'
    BY <1>1, <1>3, <2>1, <2>3, <2>6, <2>7, FreshList
  <2>9. Typed'
    BY <1>1, <1>3, <2>7 DEF Typed, TrainInv, Labels
  <2>10. SeedShape' /\ ScanShape' /\ GrowShape'
    BY <1>1, <1>3, <2>1, <2>3
       DEF SeedShape, ScanShape, GrowShape, Scanning, isEdge
  <2> QED BY <2>1, <2>2, <2>4, <2>7, <2>8, <2>9, <2>10 DEF TrainInv
<1> QED BY <1>4, <1>5

(* The edges that a scan has met, at a step that does not touch the list. *)
LEMMA ListScanned ==
  ASSUME TrainInv, pc = "scan", edg <= Len(edges), pc' \in {"scan", "expire"},
         UNCHANGED <<pool, n0, edges>>, aged' = aged \cup {edges[edg]},
         IF pc' = "scan" THEN edg' = edg + 1 ELSE edg' = edg /\ nr' = edges[edg]
  PROVE  ListShape'
<1>1. /\ edges \in Seq(Slots(pool)) /\ IsInjective(edges) /\ Range(edges) = pool.adj[n0]
      /\ edg \in 1..Len(edges) /\ Len(edges) \in Nat /\ aged \subseteq Range(edges)
      /\ \A k \in 1..Len(edges) : edges[k] \in aged <=> k < edg
      /\ DOMAIN edges = 1..Len(edges)
  BY DEF TrainInv, ListShape, Scanning
<1>2. \A k \in 1..Len(edges) : edges[k] = edges[edg] => k = edg
  BY <1>1 DEF IsInjective
<1>3. \A k \in 1..Len(edges) : edges[k] \in aged' <=> k < edg \/ k = edg
  BY <1>1, <1>2
<1>4. \A k \in 1..Len(edges) : edges[k] \in aged' <=> k < edg' \/ (pc' = "expire" /\ k = edg')
  BY <1>1, <1>3
<1>5. edg' \in 1..(Len(edges) + 1) /\ aged' \subseteq Range(edges)
  BY <1>1 DEF Range
<1>6. pc' = "expire" => edg' \in 1..Len(edges) /\ nr' = edges[edg']
  BY <1>1
<1>7. Slots(pool)' = Slots(pool)
  BY DEF Slots
<1> QED BY <1>1, <1>4, <1>5, <1>6, <1>7 DEF ListShape, Scanning

LEMMA AgeStep ==
  ASSUME TrainInv, Age
  PROVE  TrainInv' /\ [PoolNext]_pool
<1> DEFINE n == edges[edg]
           e == <<n0, n>>
           v == IF n = n1 THEN 0 ELSE age[e] + 1
<1>0. n \in pool.adj[n0]
  <2>1. edges \in Seq(Slots(pool)) /\ Range(edges) = pool.adj[n0] /\ edg \in 1..Len(edges)
    BY DEF Age, Goto, TrainInv, ListShape, Scanning
  <2> QED BY <2>1 DEF Range
<1>1. /\ n0 \in pool.occupied /\ n1 \in pool.adj[n0]
      /\ n0 \in Slots(pool) /\ n \in Slots(pool) /\ n \in pool.occupied
      /\ n # n0 /\ n0 \in pool.adj[n]
  BY <1>0, Places DEF Age, Goto, TrainInv, Typed, ScanShape, Scanning, isEdge
<1>2. e \in Ends(pool) /\ Rev(e) \in Ends(pool) /\ Rev(e) = <<n, n0>>
  BY <1>0, <1>1 DEF Ends, Rev
<1>3. age' = [age EXCEPT ![e] = v, ![Rev(e)] = v]
  BY <1>2 DEF Age, TrainInv, AgeInv, AgesShape
<1>4. MaxAge \in Nat /\ v \in Nat /\ age \in [Ends(pool) -> Nat]
  BY <1>2, TrainingAssumption DEF TrainingAssumption, TrainInv, AgeInv
<1>5. v > MaxAge => n # n1
  BY <1>4
<1>6. /\ pool' = pool /\ pc' = IF v > MaxAge THEN "expire" ELSE "scan"
      /\ v > MaxAge => nr' = n /\ edg' = edg
      /\ ~(v > MaxAge) => nr' = nr /\ edg' = edg + 1
      /\ aged' = aged \cup {n} /\ UNCHANGED <<s, n0, n1, edges>> /\ pc = "scan"
      /\ edg <= Len(edges)
  BY DEF Age, Goto
<1>7. \A f \in Ends(pool) : age[f] \in Nat /\ age[f] <= MaxAge
  BY <1>4, <1>6, NoneTooOld DEF TrainInv
<1>8. ListShape'
  BY <1>6, ListScanned
<1> HIDE DEF v, e, n
<1>9. AgeInv'
  <2>1. age' \in [Ends(pool) -> Nat]
    BY <1>3, <1>4
  <2>2. ASSUME NEW f \in Ends(pool)
        PROVE  /\ age'[f] = age'[Rev(f)]
               /\ age'[f] > MaxAge => v > MaxAge /\ f \in {e, Rev(e)}
    <3>1. Rev(f) \in Ends(pool) /\ Rev(Rev(f)) = f
      BY <2>2, RevEnds DEF TrainInv
    <3>2. f \in {e, Rev(e)} <=> Rev(f) \in {e, Rev(e)}
      BY <1>2, <3>1 DEF Rev, e
    <3>3. CASE f \in {e, Rev(e)}
      BY <1>2, <1>3, <1>4, <3>1, <3>2, <3>3
    <3>4. CASE f \notin {e, Rev(e)}
      <4>1. age'[f] = age[f] /\ age'[Rev(f)] = age[Rev(f)]
        BY <1>2, <1>3, <1>4, <3>1, <3>2, <3>4
      <4>2. age[f] = age[Rev(f)]
        BY DEF TrainInv, AgeInv, AgesShape
      <4>3. ~(age[f] > MaxAge)
        BY <1>4, <1>7
      <4> QED BY <4>1, <4>2, <4>3
    <3> QED BY <3>3, <3>4
  <2>3. Ends(pool)' = Ends(pool)
    BY <1>6 DEF Ends, Slots
  <2>4. ASSUME NEW f \in Ends(pool), age'[f] > MaxAge
        PROVE  pc' = "expire" /\ f \in {<<n0', nr'>>, <<nr', n0'>>}
    BY <1>2, <1>6, <2>2, <2>4 DEF e
  <2> QED BY <2>1, <2>2, <2>3, <2>4 DEF AgeInv, AgesShape
<1>10. Typed' /\ SizeBound'
  BY <1>1, <1>6 DEF Typed, SizeBound, TrainInv, Labels, Node, Slots
<1>11. SeedShape' /\ ScanShape' /\ GrowShape'
  BY <1>0, <1>1, <1>5, <1>6 DEF SeedShape, ScanShape, GrowShape, Scanning, TrainInv
<1> QED BY <1>6, <1>8, <1>9, <1>10, <1>11 DEF TrainInv

(* The list without the edge at the iterator, which then is at the next. *)
LEMMA ListErased ==
  ASSUME TrainInv, Expire, Slots(pool)' = Slots(pool),
         pool'.adj[n0] = pool.adj[n0] \ {nr}
  PROVE  ListShape'
<1>1. /\ edges \in Seq(Slots(pool)) /\ IsInjective(edges) /\ Range(edges) = pool.adj[n0]
      /\ edg \in 1..Len(edges) /\ Len(edges) \in Nat /\ aged \subseteq Range(edges)
      /\ \A k \in 1..Len(edges) : edges[k] \in aged <=> k < edg \/ k = edg
      /\ nr = edges[edg] /\ DOMAIN edges = 1..Len(edges)
  BY DEF TrainInv, ListShape, Scanning, Expire, Goto
<1>2. /\ edges' = RemoveAt(edges, edg) /\ aged' = aged \ {nr} /\ pc' = "orphan"
      /\ edg' = edg /\ n0' = n0
  BY DEF Expire, Goto
<1>3. /\ edges' \in Seq(Slots(pool)) /\ Len(edges') = Len(edges) - 1
      /\ \A k \in 1..(Len(edges) - 1) : edges'[k] = IF k < edg THEN edges[k] ELSE edges[k + 1]
  BY <1>1, <1>2, RemoveAtElements
<1>4. IsInjective(edges') /\ Range(edges') = Range(edges) \ {nr}
  BY <1>1, <1>2, RemoveAtInjective
<1>5. edg' \in 1..(Len(edges') + 1) /\ aged' \subseteq Range(edges')
  BY <1>1, <1>2, <1>3, <1>4
<1>6. ASSUME NEW k \in 1..Len(edges') PROVE edges'[k] \in aged' <=> k < edg'
  <2>1. CASE k < edg
    <3>1. k \in 1..Len(edges) /\ edges'[k] = edges[k] /\ k # edg
      BY <1>1, <1>3, <2>1
    <3>2. edges[k] \in aged /\ edges[k] # nr
      BY <1>1, <2>1, <3>1 DEF IsInjective
    <3> QED BY <1>2, <2>1, <3>1, <3>2
  <2>2. CASE ~(k < edg)
    <3>1. k + 1 \in 1..Len(edges) /\ edges'[k] = edges[k + 1] /\ ~(k + 1 < edg) /\ k + 1 # edg
      BY <1>1, <1>3, <2>2
    <3>2. edges[k + 1] \notin aged
      BY <1>1, <3>1
    <3> QED BY <1>2, <2>2, <3>1, <3>2
  <2> QED BY <2>1, <2>2
<1> QED BY <1>1, <1>2, <1>3, <1>4, <1>5, <1>6 DEF ListShape, Scanning

LEMMA ExpireStep ==
  ASSUME TrainInv, Expire PROVE TrainInv' /\ [PoolNext]_pool
<1>1. /\ n0 \in pool.occupied /\ nr \in pool.occupied /\ nr # n0 /\ nr # n1
      /\ n1 \in pool.adj[n0]
  BY Places DEF Expire, Goto, TrainInv, ScanShape, Scanning, isEdge
<1>2. /\ Sound' /\ [PoolNext]_pool
      /\ Slots(pool)' = Slots(pool) /\ Node' = Node
      /\ pool'.occupied = pool.occupied
      /\ pool'.adj[n0] = pool.adj[n0] \ {nr}
  BY <1>1, RemoveStep DEF Expire, Goto
<1>3. Typed'
  BY <1>2 DEF Typed, TrainInv, Expire, Goto, Labels
<1>4. SeedShape' /\ ScanShape' /\ GrowShape'
  BY <1>1, <1>2
     DEF SeedShape, ScanShape, GrowShape, Scanning, Expire, Goto, isEdge
<1>5. ListShape'
  BY <1>2, ListErased
<1> QED BY <1>2, <1>3, <1>4, <1>5 DEF TrainInv, Sound

(* Once an edge is erased, the list is left alone until the scan goes on. *)
LEMMA ListKept ==
  ASSUME ListShape, pc \in {"orphan", "lonely"}, pc' \in {"lonely", "scan"},
         UNCHANGED <<n0, scanVars>>, Slots(pool)' = Slots(pool), pool'.adj = pool.adj
  PROVE  ListShape'
  BY DEF ListShape, Scanning, scanVars

LEMMA OrphanStep ==
  ASSUME TrainInv, Orphan PROVE TrainInv' /\ [PoolNext]_pool
<1>1. /\ n0 \in pool.occupied /\ nr \in pool.occupied /\ nr # n0 /\ nr # n1
      /\ n1 \in pool.adj[n0] /\ ListShape
      /\ n0 \in Slots(pool) /\ nr \in Slots(pool)
  BY Places DEF Orphan, Goto, TrainInv, ScanShape, Scanning, isEdge
<1>2. CASE pool.edgesCount[nr] = 0 /\ ~Utility
  <2>1. /\ Sound' /\ PoolNext
        /\ Slots(pool)' = Slots(pool) /\ Node' = Node
        /\ pool'.adj = pool.adj
        /\ pool'.occupied = IF existsNode(pool, nr)
                            THEN pool.occupied \ {nr} ELSE pool.occupied
    BY <1>1, <1>2, DeleteStep DEF Orphan, Goto
  <2>2. n0 \in pool'.occupied
    BY <1>1, <2>1
  <2>3. Typed'
    BY <1>2, <2>1 DEF Typed, TrainInv, Orphan, Goto, Labels
  <2>4. nr \notin Visible'
    <3>1. pool'.nodes = IF existsNode(pool, nr) THEN pool.nodes - 1
                        ELSE pool.nodes
      BY <1>1, <1>2, DeleteNodeEffect DEF TrainInv, Orphan, SetPool
    <3> QED BY <2>1, <3>1 DEF Visible, existsNode
  <2>5. SeedShape' /\ ScanShape' /\ GrowShape'
    BY <1>1, <2>1, <2>2, <2>4
       DEF SeedShape, ScanShape, GrowShape, Scanning, Orphan, Goto, isEdge
  <2>6. ListShape'
    BY <1>1, <2>1, ListKept DEF Orphan, Goto
  <2> QED BY <2>1, <2>3, <2>5, <2>6 DEF TrainInv, Sound
<1>3. CASE ~(pool.edgesCount[nr] = 0 /\ ~Utility)
  <2>1. UNCHANGED <<pool, age>> /\ pc # "expire"
    BY <1>3 DEF Orphan, Goto
  <2>2. /\ PoolInv(pool)' /\ ExactInv(pool)' /\ SizeBound' /\ AgeInv'
        /\ Slots(pool)' = Slots(pool) /\ Node' = Node /\ [PoolNext]_pool
    BY <2>1, QuietStep
  <2>3. ~Utility => pool.adj[nr] # {}
    BY <1>1, <1>3, EmptyCount DEF TrainInv
  <2>4. Typed'
    BY <2>1, <2>2 DEF Typed, TrainInv, Orphan, Goto, Labels
  <2>5. SeedShape' /\ ScanShape' /\ GrowShape'
    BY <1>1, <2>1, <2>3
       DEF SeedShape, ScanShape, GrowShape, Scanning, Orphan, Goto, isEdge
  <2>6. ListShape'
    BY <1>1, <2>1, <2>2, ListKept DEF Orphan, Goto
  <2> QED BY <2>2, <2>4, <2>5, <2>6 DEF TrainInv
<1> QED BY <1>2, <1>3

LEMMA LonelyStep ==
  ASSUME TrainInv, Lonely PROVE TrainInv' /\ [PoolNext]_pool
<1>1. /\ n0 \in pool.occupied /\ n0 \in Slots(pool)
      /\ n1 \in pool.adj[n0] /\ ListShape
  BY Places DEF Lonely, Goto, TrainInv, ScanShape, Scanning, isEdge
<1>2. pool.edgesCount[n0] # 0
  BY <1>1, CountZero DEF TrainInv
<1>3. /\ UNCHANGED <<pool, age, scanVars>> /\ pc # "expire"
      /\ UNCHANGED n0 /\ pc = "lonely" /\ pc' = "scan"
  <2>1. edg \in Int
    BY <1>1 DEF ListShape, Scanning, Lonely, Goto
  <2> QED BY <1>2, <2>1 DEF Lonely, Goto, scanVars
<1>4. /\ PoolInv(pool)' /\ ExactInv(pool)' /\ SizeBound' /\ AgeInv'
      /\ Slots(pool)' = Slots(pool) /\ Node' = Node /\ [PoolNext]_pool
  BY <1>3, QuietStep
<1>5. Typed'
  BY <1>3, <1>4 DEF Typed, TrainInv, Lonely, Goto, Labels, Node
<1>6. SeedShape' /\ ScanShape' /\ GrowShape'
  BY <1>1, <1>3
     DEF SeedShape, ScanShape, GrowShape, Scanning, Lonely, Goto, isEdge
<1>7. ListShape'
  BY <1>1, <1>3, <1>4, ListKept
<1> QED BY <1>4, <1>5, <1>6, <1>7 DEF TrainInv

LEMMA ScanDoneStep ==
  ASSUME TrainInv, ScanDone PROVE TrainInv' /\ [PoolNext]_pool
<1>1. UNCHANGED <<pool, age>> /\ pc = "scan"
  BY DEF ScanDone
<1>2. /\ PoolInv(pool)' /\ ExactInv(pool)' /\ SizeBound' /\ AgeInv'
      /\ Slots(pool)' = Slots(pool) /\ Node' = Node /\ [PoolNext]_pool
  BY <1>1, QuietStep
<1>3. /\ pc' \in {"cull", "search", "grow"} /\ s' \in 0..Lambda
      /\ pc' # "grow" => s' < Lambda
      /\ n0' = Nil /\ n1' = Nil /\ nr' = Nil
      /\ edges' = <<>> /\ edg' = 1 /\ aged' = {}
  BY <1>1, TrainingAssumption
     DEF ScanDone, EndAdapt, Return, TrainInv, Typed, TrainingAssumption
<1>4. Typed' /\ ListShape'
  BY <1>1, <1>2, <1>3 DEF Typed, ListShape, Scanning, scanVars, TrainInv, Labels, Node
<1>5. SeedShape' /\ ScanShape' /\ GrowShape'
  BY <1>3 DEF SeedShape, ScanShape, GrowShape, Scanning
<1> QED BY <1>2, <1>4, <1>5 DEF TrainInv

LEMMA CullStep ==
  ASSUME TrainInv, NEW x \in Visible, Cull(x)
  PROVE  TrainInv' /\ [PoolNext]_pool
<1>1. x \in pool.occupied /\ x \in Slots(pool)
  BY Places
<1>2. /\ PoolInv(pool)' /\ ExactInv(pool)' /\ SizeBound' /\ AgeInv'
      /\ Slots(pool)' = Slots(pool) /\ Node' = Node /\ [PoolNext]_pool
  BY QuietStep DEF Cull, Goto
<1>3. Typed' /\ ListShape'
  BY <1>1, <1>2 DEF Typed, ListShape, Scanning, scanVars, TrainInv, Cull, Goto, Labels, Node
<1>4. SeedShape' /\ ScanShape' /\ GrowShape'
  BY <1>1 DEF SeedShape, ScanShape, GrowShape, Scanning, Cull, Goto
<1> QED BY <1>2, <1>3, <1>4 DEF TrainInv

LEMMA SpareStep ==
  ASSUME TrainInv, Spare PROVE TrainInv' /\ [PoolNext]_pool
<1>1. UNCHANGED <<pool, age>> /\ pc = "cull"
  BY DEF Spare
<1>2. /\ PoolInv(pool)' /\ ExactInv(pool)' /\ SizeBound' /\ AgeInv'
      /\ Slots(pool)' = Slots(pool) /\ Node' = Node /\ [PoolNext]_pool
  BY <1>1, QuietStep
<1>3. /\ pc' \in {"search", "grow"} /\ s' \in 0..Lambda
      /\ pc' # "grow" => s' < Lambda
      /\ n0' = Nil /\ n1' = Nil /\ nr' = Nil
      /\ edges' = <<>> /\ edg' = 1 /\ aged' = {}
  BY <1>1, TrainingAssumption
     DEF Spare, EndAdapt, Return, TrainInv, Typed, TrainingAssumption
<1>4. Typed' /\ ListShape'
  BY <1>1, <1>2, <1>3 DEF Typed, ListShape, Scanning, scanVars, TrainInv, Labels, Node
<1>5. SeedShape' /\ ScanShape' /\ GrowShape'
  BY <1>3 DEF SeedShape, ScanShape, GrowShape, Scanning
<1> QED BY <1>2, <1>4, <1>5 DEF TrainInv

LEMMA StripStep ==
  ASSUME TrainInv, NEW n \in pool.adj[nr], Strip(n)
  PROVE  TrainInv' /\ [PoolNext]_pool
<1>1. nr \in pool.occupied /\ n \in pool.occupied /\ n # nr
  BY Places DEF Strip, Goto, TrainInv, GrowShape
<1>2. /\ Sound' /\ [PoolNext]_pool
      /\ Slots(pool)' = Slots(pool) /\ Node' = Node
      /\ pool'.occupied = pool.occupied
  BY <1>1, RemoveStep DEF Strip, Goto
<1>3. Typed' /\ ListShape'
  BY <1>2 DEF Typed, ListShape, Scanning, scanVars, TrainInv, Strip, Goto, Labels
<1>4. SeedShape' /\ ScanShape' /\ GrowShape'
  BY <1>1, <1>2 DEF SeedShape, ScanShape, GrowShape, Scanning, Strip, Goto
<1> QED BY <1>2, <1>3, <1>4 DEF TrainInv, Sound

LEMMA CulledStep ==
  ASSUME TrainInv, Culled PROVE TrainInv' /\ [PoolNext]_pool
<1>1. nr \in pool.occupied /\ nr \in Slots(pool) /\ pool.edgesCount[nr] = 0
  BY Places, EmptyCount DEF Culled, TrainInv, GrowShape
<1>2. /\ Sound' /\ PoolNext
      /\ Slots(pool)' = Slots(pool) /\ Node' = Node
  BY <1>1, DeleteStep DEF Culled
<1>3. /\ pc' \in {"search", "grow"} /\ s' \in 0..Lambda
      /\ pc' # "grow" => s' < Lambda
      /\ n0' = Nil /\ n1' = Nil /\ nr' = Nil
      /\ edges' = <<>> /\ edg' = 1 /\ aged' = {}
  BY TrainingAssumption
     DEF Culled, EndAdapt, Return, TrainInv, Typed, TrainingAssumption
<1>4. Typed' /\ ListShape'
  BY <1>2, <1>3 DEF Typed, ListShape, Scanning, scanVars, TrainInv, Labels, Node
<1>5. SeedShape' /\ ScanShape' /\ GrowShape'
  BY <1>3 DEF SeedShape, ScanShape, GrowShape, Scanning
<1> QED BY <1>2, <1>4, <1>5 DEF TrainInv, Sound

-----------------------------------------------------------------------------
(* The steps of addNewNode. *)

LEMMA GrowStep ==
  ASSUME TrainInv, NEW x \in Visible, NEW y \in pool.adj[x], Grow(x, y)
  PROVE  TrainInv' /\ [PoolNext]_pool
<1> DEFINE q == newNode(pool)
<1>1. /\ x \in pool.occupied /\ y \in pool.occupied /\ x # y
      /\ x \in Slots(pool) /\ y \in Slots(pool)
  BY Places
<1>2. PoolInv(q) /\ ExactInv(q) /\ pool' = q
  BY NewNodeInv, NewNodeExact DEF TrainInv, Grow, SetPool
<1>3. PoolNext
  BY <1>2 DEF Grow, Room, PoolNext, NewNode
<1>4. PICK n \in Slots(q) :
        /\ n \notin pool.occupied
        /\ q.occupied = pool.occupied \cup {n}
        /\ q.nodes = pool.nodes + 1
        /\ q.adj[n] = {}
        /\ Slots(pool) \subseteq Slots(q)
  BY NewNodeEffect DEF TrainInv
<1>5. AgeInv'
  BY <1>2, YoungStays, NoneTooOld DEF TrainInv, Grow, Goto
<1> HIDE DEF q
<1>6. nr' = n
  <2>1. nr' = CHOOSE m \in q.occupied : m \notin pool.occupied
    BY <1>2 DEF Grow
  <2>2. \A m \in q.occupied : m \notin pool.occupied <=> m = n
    BY <1>4
  <2> QED BY <1>4, <2>1, <2>2
<1>7. SizeBound'
  BY <1>2, <1>4, TrainingAssumption
     DEF SizeBound, TrainInv, Grow, TrainingAssumption
<1>8. Typed' /\ ListShape'
  BY <1>1, <1>2, <1>4, <1>6
     DEF Typed, ListShape, Scanning, scanVars, TrainInv, Grow, Goto, Labels, Node
<1>9. SeedShape' /\ ScanShape' /\ GrowShape'
  BY <1>1, <1>2, <1>4, <1>6
     DEF SeedShape, ScanShape, GrowShape, Scanning, Grow, Goto
<1> QED BY <1>2, <1>3, <1>5, <1>7, <1>8, <1>9 DEF TrainInv

LEMMA DiscardStep ==
  ASSUME TrainInv, NEW x \in Visible, Discard(x)
  PROVE  TrainInv' /\ [PoolNext]_pool
<1>1. x \in pool.occupied
  BY Places
<1>2. /\ Sound' /\ PoolNext
      /\ Slots(pool)' = Slots(pool) /\ Node' = Node
  BY <1>1, DeleteStep DEF Discard, Goto
<1>3. Typed' /\ ListShape'
  BY <1>2 DEF Typed, ListShape, Scanning, scanVars, TrainInv, Discard, Goto, Labels
<1>4. SeedShape' /\ ScanShape' /\ GrowShape'
  BY DEF SeedShape, ScanShape, GrowShape, Scanning, Discard, Goto
<1> QED BY <1>2, <1>3, <1>4 DEF TrainInv, Sound

LEMMA FullStep ==
  ASSUME TrainInv, Full PROVE TrainInv' /\ [PoolNext]_pool
<1>1. /\ PoolInv(pool)' /\ ExactInv(pool)' /\ SizeBound' /\ AgeInv'
      /\ Slots(pool)' = Slots(pool) /\ Node' = Node /\ [PoolNext]_pool
  BY QuietStep DEF Full, Goto
<1>2. Typed' /\ ListShape'
  BY <1>1 DEF Typed, ListShape, Scanning, scanVars, TrainInv, Full, Goto, Labels
<1>3. SeedShape' /\ ScanShape' /\ GrowShape'
  BY DEF SeedShape, ScanShape, GrowShape, Scanning, Full, Goto
<1> QED BY <1>1, <1>2, <1>3 DEF TrainInv

LEMMA SplitStep ==
  ASSUME TrainInv, Split PROVE TrainInv' /\ [PoolNext]_pool
<1>1. /\ {n0, n1, nr} \subseteq pool.occupied /\ n0 # n1 /\ n0 # nr /\ n1 # nr
      /\ nr \in Slots(pool) /\ pool.adj[nr] = {}
      /\ n0 \in Slots(pool) /\ n1 \in Slots(pool)
  BY Places DEF Split, Goto, TrainInv, GrowShape
<1>2. /\ Sound' /\ [PoolNext]_pool
      /\ Slots(pool)' = Slots(pool) /\ Node' = Node
      /\ pool'.occupied = pool.occupied
  BY <1>1, RemoveStep DEF Split, Goto
<1>3. pool'.adj[nr] = {}
  BY <1>1, RemoveUDEdgeEffect DEF TrainInv, Split, SetPool
<1>4. Typed' /\ ListShape'
  BY <1>2 DEF Typed, ListShape, Scanning, scanVars, TrainInv, Split, Goto, Labels
<1>5. SeedShape' /\ ScanShape' /\ GrowShape'
  BY <1>1, <1>2, <1>3 DEF SeedShape, ScanShape, GrowShape, Scanning, Split, Goto
<1> QED BY <1>2, <1>4, <1>5 DEF TrainInv, Sound

LEMMA Join0Step ==
  ASSUME TrainInv, Join0 PROVE TrainInv' /\ [PoolNext]_pool
<1>1. /\ {n0, n1, nr} \subseteq pool.occupied /\ n0 # n1 /\ n0 # nr /\ n1 # nr
      /\ nr \in Slots(pool) /\ n0 \in Slots(pool) /\ pool.adj[nr] = {}
  BY Places DEF Join0, Goto, TrainInv, GrowShape
<1>2. ~isEdge(pool, n0, nr)
  BY <1>1, Places DEF isEdge
<1>3. /\ Sound' /\ PoolNext
      /\ Slots(pool)' = Slots(pool) /\ Node' = Node
      /\ pool'.occupied = pool.occupied
      /\ pool'.adj[nr] = {n0}
  BY <1>1, <1>2, AddStep DEF Join0, Goto
<1>4. Typed' /\ ListShape'
  BY <1>3 DEF Typed, ListShape, Scanning, scanVars, TrainInv, Join0, Goto, Labels
<1>5. SeedShape' /\ ScanShape' /\ GrowShape'
  BY <1>1, <1>3 DEF SeedShape, ScanShape, GrowShape, Scanning, Join0, Goto
<1> QED BY <1>3, <1>4, <1>5 DEF TrainInv, Sound

LEMMA Join1Step ==
  ASSUME TrainInv, Join1 PROVE TrainInv' /\ [PoolNext]_pool
<1>1. /\ {n0, n1, nr} \subseteq pool.occupied /\ n0 # n1 /\ n0 # nr /\ n1 # nr
      /\ pool.adj[nr] = {n0}
  BY DEF Join1, Goto, TrainInv, GrowShape
<1>2. ~isEdge(pool, nr, n1)
  BY <1>1 DEF isEdge
<1>3. /\ Sound' /\ PoolNext
      /\ Slots(pool)' = Slots(pool) /\ Node' = Node
  BY <1>1, <1>2, AddStep DEF Join1, Goto
<1>4. Typed' /\ ListShape'
  BY <1>3 DEF Typed, ListShape, Scanning, scanVars, TrainInv, Join1, Goto, Return, Labels, Node
<1>5. SeedShape' /\ ScanShape' /\ GrowShape'
  BY DEF SeedShape, ScanShape, GrowShape, Scanning, Join1, Goto
<1> QED BY <1>3, <1>4, <1>5 DEF TrainInv, Sound

LEMMA RestStep ==
  ASSUME TrainInv, Rest PROVE TrainInv' /\ [PoolNext]_pool
<1>1. /\ PoolInv(pool)' /\ ExactInv(pool)' /\ SizeBound' /\ AgeInv'
      /\ Slots(pool)' = Slots(pool) /\ Node' = Node /\ [PoolNext]_pool
  BY QuietStep DEF Rest, Goto
<1>2. Typed' /\ ListShape'
  BY <1>1, TrainingAssumption
     DEF Typed, ListShape, Scanning, scanVars, TrainInv, Rest, Goto, Labels,
         TrainingAssumption
<1>3. SeedShape' /\ ScanShape' /\ GrowShape'
  BY DEF SeedShape, ScanShape, GrowShape, Scanning, Rest, Goto
<1> QED BY <1>1, <1>2, <1>3 DEF TrainInv

-----------------------------------------------------------------------------
LEMMA TrainInit == ASSUME Init PROVE TrainInv
<1>1. pool = NewPool /\ PoolInv(pool) /\ ExactInv(pool)
  BY NewPoolInv, NewPoolExact DEF Init, PoolInit
<1>2. /\ Slots(pool) = 0..(PoolSize - 1) /\ pool.nodes = 0
      /\ \A x \in Slots(pool) : pool.adj[x] = {}
  BY <1>1 DEF NewPool, Slots
<1>3. Ends(pool) = {}
  BY <1>2 DEF Ends
<1>4. AgeInv
  BY <1>3 DEF Init, AgeInv, AgesShape
<1>5. Typed /\ SizeBound /\ ListShape
  BY <1>2, TrainingAssumption
     DEF Init, Typed, SizeBound, ListShape, Scanning, scanVars, Labels, Node, TrainingAssumption
<1>6. SeedShape /\ ScanShape /\ GrowShape
  BY <1>1 DEF Init, PoolInit, SeedShape, ScanShape, GrowShape, Scanning
<1> QED BY <1>1, <1>4, <1>5, <1>6 DEF TrainInv

LEMMA TrainStep ==
  TrainInv /\ [Next]_vars => TrainInv' /\ [PoolNext]_pool
<1> SUFFICES ASSUME TrainInv, [Next]_vars PROVE TrainInv' /\ [PoolNext]_pool
  OBVIOUS
<1>1. CASE UNCHANGED vars
  BY <1>1
     DEF vars, TrainInv, Typed, SizeBound, ListShape, Scanning, scanVars, AgeInv, AgesShape,
         SeedShape, ScanShape, GrowShape, Ends, Slots, Node, Visible
<1>2. CASE \E a, b \in Visible : Search(a, b)
  BY <1>2, SearchStep
<1>3. CASE Age
  BY <1>3, AgeStep
<1>4. CASE \E x \in Visible : Cull(x)
  BY <1>4, CullStep
<1>5. CASE \E n \in IF nr = Nil THEN {} ELSE pool.adj[nr] : Strip(n)
  BY <1>5, StripStep
<1>6. CASE \E x \in Visible : \E y \in pool.adj[x] : Grow(x, y)
  BY <1>6, GrowStep
<1>7. CASE \E x \in Visible : Discard(x)
  BY <1>7, DiscardStep
<1>8. CASE Seed0 \/ Seed1 \/ Link \/ Expire \/ Orphan \/ Lonely \/ ScanDone
  BY <1>8, Seed0Step, Seed1Step, LinkStep, ExpireStep, OrphanStep, LonelyStep,
     ScanDoneStep
<1>9. CASE Spare \/ Culled \/ Full \/ Split \/ Join0 \/ Join1 \/ Rest
  BY <1>9, SpareStep, CulledStep, FullStep, SplitStep, Join0Step, Join1Step,
     RestStep
<1> QED BY <1>1, <1>2, <1>3, <1>4, <1>5, <1>6, <1>7, <1>8, <1>9 DEF Next

LEMMA TrainAlways == Spec => []TrainInv
<1>1. Init => TrainInv
  BY TrainInit
<1> QED BY <1>1, TrainStep, PTL DEF Spec

(* The types of every variable, in particular that an age is kept for       *)
(* exactly the edges in the lists.                                          *)
THEOREM TypeCorrect == Spec => []TypeOK
<1>1. TrainInv => edges \in Seq(Slots(pool)) /\ edg \in Nat /\ aged \subseteq Slots(pool)
  <2> SUFFICES ASSUME TrainInv
               PROVE  edges \in Seq(Slots(pool)) /\ edg \in Nat /\ aged \subseteq Slots(pool)
    OBVIOUS
  <2>1. CASE pc \in Scanning
    <3>1. edges \in Seq(Slots(pool)) /\ aged \subseteq Range(edges) /\ edg \in Nat
      BY <2>1 DEF TrainInv, ListShape
    <3>2. Range(edges) \subseteq Slots(pool)
      BY <3>1 DEF Range
    <3> QED BY <3>1, <3>2
  <2>2. CASE pc \notin Scanning
    BY <2>2 DEF TrainInv, ListShape
  <2> QED BY <2>1, <2>2
<1>2. TrainInv => TypeOK
  BY <1>1 DEF TrainInv, Typed, AgeInv, PoolInv, PoolTypeOK, TypeOK
<1> QED BY <1>2, TrainAlways, PTL

(* Searching exactly, training uses the graph only in the ways GraphPool's  *)
(* theorems speak of, so that they hold of the graph it trains.             *)
THEOREM TrainingUsesPoolWell == Spec => KeepsPoolContract
<1>1. Init => PoolInit
  BY DEF Init
<1> QED BY <1>1, TrainAlways, TrainStep, PTL
        DEF Spec, KeepsPoolContract, PoolSpec

(* The branch of adapt that removes the winner itself is never taken.       *)
THEOREM WinnerStaysLinked == Spec => []WinnerKeepsNeighbour
<1>1. TrainInv => WinnerKeepsNeighbour
  BY Places, CountZero DEF TrainInv, ScanShape, WinnerKeepsNeighbour, isEdge
<1> QED BY <1>1, TrainAlways, PTL

(* Both halves of an edge have one age, and no edge outlives m_max_age.     *)
THEOREM AgesAgree == Spec => []EdgesStayYoung
<1>1. TrainInv => EdgesStayYoung
  <2> SUFFICES ASSUME TrainInv, NEW e \in DOMAIN age
               PROVE  /\ age[e] = age[Rev(e)]
                      /\ pc # "expire" => age[e] <= MaxAge
    BY DEF EdgesStayYoung
  <2>1. e \in Ends(pool)
    BY DEF TrainInv, AgeInv
  <2> QED BY <2>1, NoneTooOld DEF TrainInv, AgeInv, AgesShape
<1> QED BY <1>1, TrainAlways, PTL

(* adapt meets every edge of the winner once, though it erases from the     *)
(* list it iterates over.                                                   *)
THEOREM ScanMeetsEachEdgeHolds == Spec => []ScanMeetsEachEdge
<1>1. TrainInv => ScanMeetsEachEdge
  <2> SUFFICES ASSUME TrainInv, pc = "scan"
               PROVE  /\ Range(edges) = pool.adj[n0]
                      /\ aged = {edges[k] : k \in 1..(edg - 1)}
                      /\ \A k \in edg..Len(edges) : edges[k] \notin aged
    BY DEF ScanMeetsEachEdge
  <2>1. /\ edges \in Seq(Slots(pool)) /\ Range(edges) = pool.adj[n0]
        /\ edg \in 1..(Len(edges) + 1) /\ aged \subseteq Range(edges)
        /\ \A k \in 1..Len(edges) : edges[k] \in aged <=> k < edg
    BY DEF TrainInv, ListShape, Scanning
  <2>2. Len(edges) \in Nat /\ DOMAIN edges = 1..Len(edges)
    BY <2>1
  <2>3. ASSUME NEW x \in aged PROVE \E k \in 1..(edg - 1) : x = edges[k]
    <3>1. PICK k \in 1..Len(edges) : x = edges[k]
      BY <2>1, <2>2 DEF Range
    <3>2. k \in 1..(edg - 1)
      BY <2>1, <2>2, <3>1
    <3> QED BY <3>1, <3>2
  <2>4. \A k \in 1..(edg - 1) : edges[k] \in aged
    BY <2>1, <2>2
  <2>5. \A k \in edg..Len(edges) : edges[k] \notin aged
    BY <2>1, <2>2
  <2> QED BY <2>1, <2>3, <2>4, <2>5
<1> QED BY <1>1, TrainAlways, PTL

(* The graph never outgrows m_max_nodes. *)
THEOREM GraphStaysSmall == Spec => []NodesBounded
<1>1. TrainInv => NodesBounded
  BY DEF TrainInv, SizeBound, ExactInv, NodesBounded
<1> QED BY <1>1, TrainAlways, PTL

(* A node that lost its last edge is gone, unless existsNode hides it.      *)
THEOREM NoOrphanIsLeft == Spec => []OrphansAreRemoved
<1>1. TrainInv => OrphansAreRemoved
  BY DEF TrainInv, ScanShape, OrphansAreRemoved
<1> QED BY <1>1, TrainAlways, PTL

(* What training does to the graph, any number of steps of it are steps of  *)
(* an abstract set of nodes and undirected edges.                           *)
THEOREM TrainingImplementsStore == Spec => ImplementsStore
  BY TrainingUsesPoolWell, PoolImplementsStore DEF KeepsPoolContract

(* The graph that training builds with the exact search has exact counts    *)
(* and a free list without holes, so that adapt deletes exactly the nodes   *)
(* without edges and newNode takes every free slot before it asks for more. *)
THEOREM TrainingCountsWell ==
  Spec => [](FreeListIsComplete /\ CountsExact)
<1>1. Spec => PoolSpec
  BY TrainingUsesPoolWell DEF KeepsPoolContract
<1> QED BY <1>1, NoSlotIsLost, CountsAreExact, PTL

=============================================================================
