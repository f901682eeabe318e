------------------------- MODULE LazyErrorHeap_proofs -------------------------
(***************************************************************************)
(* The heap's operations keep it a heap and change exactly the entry they  *)
(* are about; with that, the queue of nodes keeps its order, loses no node *)
(* but one picked without edges, and finds a largest error of those        *)
(* that are not lost, for every pool, loaded graph, number of nodes, bound *)
(* on errors and decay.                                                    *)
(***************************************************************************)
EXTENDS LazyErrorHeap, DataFacts

(* The entries of a heap: a node and its error, wherever it is in the heap. *)
Entries(h) == {<<h[k].i, h[k].error>> : k \in 1..Len(h)}

Nodes(h) == {h[k].i : k \in 1..Len(h)}

Ordered(h) == \A k \in 2..Len(h) : h[k].error <= h[parent(k)].error

Keyed(h) == \A k \in 1..Len(h) : h[k].key = k

Distinct(h) == \A j, k \in 1..Len(h) : h[j].i = h[k].i => j = k

HeapGood(h) == h \in Heap /\ Ordered(h) /\ Keyed(h) /\ Distinct(h)

(* The queue as GNGLazyErrorHeap keeps it. *)
Queues == [heap : Heap, buffer : SUBSET Slots, L : Seq(Slots), onlist : SUBSET Slots]

QueueGood(q) ==
  /\ q \in Queues /\ HeapGood(q.heap) /\ q.buffer = Nodes(q.heap)
  /\ IsInjective(q.L) /\ q.onlist = Range(q.L)

(* A node that is not lost is queued, unless it is being split; while the   *)
(* largest error is looked for, the list is empty.  When a cycle is over    *)
(* something is queued: the winner of the last adapt is, whatever was lost. *)
Queued ==
  /\ pc \in {"grow", "extract"} => buffer \cup onlist # {}
  /\ \A x \in live \ lost : x \in buffer \cup onlist \/ (pc = "split" /\ x = picked)
  /\ pc \in {"extract", "split"} => onlist = {}

(* What an entry says of its node's error: no less than there is, and       *)
(* exactly that if the error is of this cycle.  Of a slot that was taken    *)
(* again it says nothing, but then the new node's error is not of this      *)
(* cycle: adapt would have taken the entry out.                             *)
Bounds(p) ==
  /\ p[1] \notin live => p[1] \in stale
  /\ p[1] \in live \cap stale => cyc[p[1]] # c
  /\ p[1] \in live \ stale => err[p[1]] <= p[2] /\ (cyc[p[1]] = c => err[p[1]] = p[2])

EntriesBound == stale \subseteq buffer /\ \A p \in Entries(heap) : Bounds(p)

PickedFirst ==
  pc = "split" /\ picked \in live =>
    cyc[picked] = c /\ \A p \in Entries(heap) : p[2] <= err[picked]

(* A cycle has Lambda calls of adapt. *)
InCycle == pc = "adapt" => s < Lambda

HeapInv ==
  TypeOK /\ QueueGood(Queue) /\ Queued /\ EntriesBound /\ PickedFirst /\ InCycle

-----------------------------------------------------------------------------
(* The binary heap *)

LEMMA Parents ==
  \A k \in Nat : k >= 2 =>
    /\ parent(k) \in Nat /\ 1 <= parent(k) /\ parent(k) < k
    /\ \A i \in Nat : parent(k) = i <=> k = 2 * i \/ k = 2 * i + 1
BY DEF parent

LEMMA HeapTypes ==
  ASSUME NEW h \in Heap
  PROVE  /\ Len(h) \in Nat
         /\ \A k \in 1..Len(h) : /\ h[k] \in HeapNode /\ h[k].error \in Nat
                                 /\ h[k].i \in Slots /\ h[k].key \in Nat
<1>1. \A k \in 1..Len(h) : h[k] \in HeapNode
  BY DEF Heap
<1>2. Len(h) \in Nat
  BY DEF Heap
<1> QED BY <1>1, <1>2 DEF HeapNode

(* The heap g holds what h holds, in other places. *)
Holds(g, h) == Len(g) = Len(h) /\ Entries(g) = Entries(h) /\ Distinct(g)

LEMMA Swapped ==
  ASSUME NEW h \in Heap, NEW i \in 1..Len(h), NEW j \in 1..Len(h), i # j, NEW g, g = Swap(h, i, j)
  PROVE  /\ g \in Heap /\ Len(g) = Len(h)
         /\ g[i].error = h[j].error /\ g[i].i = h[j].i /\ g[i].key = i
         /\ g[j].error = h[i].error /\ g[j].i = h[i].i /\ g[j].key = j
         /\ \A k \in 1..Len(h) : k # i /\ k # j => g[k] = h[k]
<1>1. h[i] \in HeapNode /\ h[j] \in HeapNode
  BY DEF Heap
<1> DEFINE a == [h[j] EXCEPT !.key = i]
           b == [h[i] EXCEPT !.key = j]
<1>2. /\ a \in HeapNode /\ a.error = h[j].error /\ a.i = h[j].i /\ a.key = i
      /\ b \in HeapNode /\ b.error = h[i].error /\ b.i = h[i].i /\ b.key = j
  BY <1>1 DEF HeapNode
<1>3. g = [h EXCEPT ![i] = a, ![j] = b]
  BY DEF Swap
<1> HIDE DEF a, b
<1>4. /\ g \in Seq(HeapNode) /\ Len(g) = Len(h) /\ g[i] = a /\ g[j] = b
      /\ \A k \in 1..Len(h) : k # i /\ k # j => g[k] = h[k]
  BY <1>2, <1>3 DEF Heap
<1> QED BY <1>2, <1>4 DEF Heap

LEMMA SwapHolds ==
  ASSUME NEW h \in Heap, NEW i \in 1..Len(h), NEW j \in 1..Len(h), i # j, Distinct(h)
  PROVE  Holds(Swap(h, i, j), h)
<1> DEFINE g == Swap(h, i, j)
<1>1. /\ g \in Heap /\ Len(g) = Len(h)
      /\ g[i].error = h[j].error /\ g[i].i = h[j].i
      /\ g[j].error = h[i].error /\ g[j].i = h[i].i
      /\ \A k \in 1..Len(h) : k # i /\ k # j => g[k] = h[k]
  BY Swapped
<1> HIDE DEF g
<1> DEFINE to(k) == IF k = i THEN j ELSE IF k = j THEN i ELSE k
<1>2. \A k \in 1..Len(h) : /\ to(k) \in 1..Len(h) /\ to(to(k)) = k
                           /\ g[k].error = h[to(k)].error /\ g[k].i = h[to(k)].i
  BY <1>1
<1>3. \A k \in 1..Len(h) : h[k].error = g[to(k)].error /\ h[k].i = g[to(k)].i
  BY <1>1
<1> HIDE DEF to
<1>4. Entries(g) = Entries(h)
  <2>1. \A k \in 1..Len(g) : <<g[k].i, g[k].error>> = <<h[to(k)].i, h[to(k)].error>>
    BY <1>1, <1>2
  <2>2. \A k \in 1..Len(h) : <<h[k].i, h[k].error>> = <<g[to(k)].i, g[to(k)].error>>
    BY <1>3
  <2>3. Entries(g) \subseteq Entries(h)
    BY <1>1, <1>2, <2>1 DEF Entries
  <2>4. Entries(h) \subseteq Entries(g)
    BY <1>1, <1>2, <2>2 DEF Entries
  <2> QED BY <2>3, <2>4
<1>5. Distinct(g)
  BY <1>1, <1>2 DEF Distinct
<1> QED BY <1>1, <1>4, <1>5 DEF Holds, g

(* The node that is at last has its key set. *)
LEMMA SettledHolds ==
  ASSUME NEW h \in Heap, NEW i \in 1..Len(h), Distinct(h),
         \A k \in 1..Len(h) : k # i => h[k].key = k, Ordered(h),
         NEW g, g = Settled(At(h, i))
  PROVE  HeapGood(g) /\ Holds(g, h)
<1>1. h[i] \in HeapNode
  BY DEF Heap
<1>2. g = [h EXCEPT ![i] = [h[i] EXCEPT !.key = i]]
  BY DEF Settled, At, Heap
<1>3. [h[i] EXCEPT !.key = i] \in HeapNode
  BY <1>1 DEF HeapNode
<1>4. /\ g \in Heap /\ Len(g) = Len(h)
      /\ g[i].key = i /\ g[i].error = h[i].error /\ g[i].i = h[i].i
      /\ \A k \in 1..Len(h) : k # i => g[k] = h[k]
  BY <1>1, <1>2, <1>3 DEF Heap, HeapNode
<1>5. \A k \in 1..Len(h) : g[k].error = h[k].error /\ g[k].i = h[k].i /\ g[k].key = k
  BY <1>4
<1>6. Ordered(g)
  <2>1. \A k \in 2..Len(h) : k \in 1..Len(h) /\ parent(k) \in 1..Len(h)
    BY Parents
  <2> QED BY <1>4, <1>5, <2>1 DEF Ordered
<1>7. Entries(g) = Entries(h)
  <2>1. \A k \in 1..Len(h) : <<g[k].i, g[k].error>> = <<h[k].i, h[k].error>>
    BY <1>5
  <2> QED BY <1>4, <2>1 DEF Entries
<1> QED BY <1>4, <1>5, <1>6, <1>7 DEF HeapGood, Holds, Distinct, Keyed

(* On its way up a node may have more error than the one above it, but that *)
(* one has no less than those below the node.                               *)
Rising(h, i) ==
  /\ i \in 1..Len(h)
  /\ \A k \in 2..Len(h) : k # i => h[k].error <= h[parent(k)].error
  /\ i > 1 => \A k \in 2..Len(h) : parent(k) = i => h[k].error <= h[parent(i)].error
  /\ \A k \in 1..Len(h) : k # i => h[k].key = k

LEMMA RisesOn ==
  ASSUME NEW h \in Heap, NEW i, Rising(h, i), i > 1, h[i].error > h[parent(i)].error,
         NEW g, g = Swap(h, i, parent(i))
  PROVE  Rising(g, parent(i))
<1> DEFINE p == parent(i)
<1>1. i \in 2..Len(h) /\ i \in 1..Len(h) /\ p \in 1..Len(h) /\ p < i /\ p # i /\ Len(h) \in Nat
  BY Parents DEF Rising, Heap
<1>2. /\ g \in Heap /\ Len(g) = Len(h)
      /\ g[i].error = h[p].error /\ g[i].key = i
      /\ g[p].error = h[i].error
      /\ \A k \in 1..Len(h) : k # i /\ k # p => g[k] = h[k]
  <2>1. g = Swap(h, i, p) /\ i # p /\ i \in 1..Len(h) /\ p \in 1..Len(h)
    BY <1>1
  <2> HIDE DEF p
  <2> QED BY <2>1, Swapped
<1>3. \A k \in 1..Len(h) : h[k].error \in Nat /\ g[k].error \in Nat
  BY <1>2, HeapTypes
<1>4. \A k \in 2..Len(h) : k \in 1..Len(h) /\ parent(k) \in 1..Len(h) /\ parent(k) # k
  BY Parents
<1> HIDE DEF p
<1>5. \A k \in 2..Len(h) : k # i => h[k].error <= h[parent(k)].error
  BY DEF Rising
<1>6. \A k \in 2..Len(h) : parent(k) = i => h[k].error <= h[p].error
  BY DEF Rising, p
<1>7. h[i].error > h[p].error
  BY DEF p
<1>8. ASSUME NEW k \in 2..Len(h), k # p PROVE g[k].error <= g[parent(k)].error
  <2>1. CASE k = i
    <3>1. parent(k) = p
      BY <2>1 DEF p
    <3> QED BY <1>1, <1>2, <1>3, <1>7, <2>1, <3>1
  <2>2. CASE k # i
    <3>1. g[k].error = h[k].error
      BY <1>2, <1>4, <1>8, <2>2
    <3>2. CASE parent(k) = i
      BY <1>2, <1>6, <3>1, <3>2
    <3>3. CASE parent(k) = p
      <4>1. h[k].error <= h[p].error
        BY <1>5, <2>2, <3>3
      <4> QED BY <1>1, <1>2, <1>3, <1>4, <1>7, <3>1, <3>3, <4>1
    <3>4. CASE parent(k) # i /\ parent(k) # p
      BY <1>2, <1>4, <1>5, <2>2, <3>1, <3>4
    <3> QED BY <3>2, <3>3, <3>4
  <2> QED BY <2>1, <2>2
<1>9. ASSUME p > 1, NEW k \in 2..Len(h), parent(k) = p PROVE g[k].error <= g[parent(p)].error
  <2>1. p \in 2..Len(h)
    BY <1>1, <1>9
  <2>2. h[p].error <= h[parent(p)].error /\ parent(p) \in 1..Len(h) /\ parent(p) # p
    BY <1>1, <1>4, <1>5, <2>1
  <2>3. parent(p) # i
    <3>1. parent(p) < p
      BY <2>1, Parents
    <3> QED BY <1>1, <2>2, <3>1
  <2>4. g[parent(p)].error = h[parent(p)].error
    BY <1>2, <2>2, <2>3
  <2>5. g[k].error <= h[p].error
    <3>1. CASE k = i
      BY <1>1, <1>2, <1>3, <3>1
    <3>2. CASE k # i
      BY <1>2, <1>4, <1>5, <1>9, <3>2
    <3> QED BY <3>1, <3>2
  <2> QED BY <1>1, <1>3, <1>4, <2>2, <2>4, <2>5
<1>10. \A k \in 1..Len(h) : k # p => g[k].key = k
  BY <1>2 DEF Rising
<1> QED BY <1>1, <1>2, <1>8, <1>9, <1>10 DEF Rising, p

LEMMA HoldsOn ==
  ASSUME NEW h, NEW g, NEW e, Holds(g, h), Holds(e, g)
  PROVE  Holds(e, h)
BY DEF Holds

(* moveUp makes a heap of what it was given. *)
LEMMA MovedUp ==
  ASSUME NEW h \in Heap, NEW i, Rising(h, i), Distinct(h), NEW g, g = moveUp(h, i)
  PROVE  HeapGood(g) /\ Holds(g, h)
<1> DEFINE V == {a \in [h : Heap, i : Nat] : Rising(a.h, a.i) /\ Holds(a.h, h)}
           F == [a \in V |-> Up(a)]
           M == [a \in V |-> a.i]
           N == Len(h)
<1>1. At(h, i) \in V /\ M[At(h, i)] = i /\ i <= N /\ N \in Nat
  <2>1. At(h, i) \in [h : Heap, i : Nat] /\ At(h, i).h = h /\ At(h, i).i = i
    BY DEF At, Rising
  <2>2. Holds(h, h)
    BY DEF Holds
  <2>3. At(h, i) \in V
    BY <2>1, <2>2
  <2> QED BY <2>1, <2>3, HeapTypes DEF Rising
<1>2. ASSUME NEW a \in V
      PROVE  /\ F[a] \in V /\ M[a] \in Nat
             /\ F[a] = a \/ M[F[a]] < M[a]
             /\ F[a] = a => a.i <= 1 \/ a.h[a.i].error <= a.h[parent(a.i)].error
  <2> DEFINE q == a.i
             e == a.h
             p == parent(q)
             Goes == q > 1 /\ e[q].error > e[p].error
  <2>1. a \in [h : Heap, i : Nat] /\ Rising(e, q) /\ Holds(e, h) /\ e \in Heap /\ q \in Nat
    OBVIOUS
  <2>2. F[a] = Up(a) /\ M[a] = q
    OBVIOUS
  <2>3. CASE Goes
    <3>1. Up(a) = At(Swap(e, q, p), p)
      BY <2>3 DEF Up
    <3>2. Rising(Swap(e, q, p), p)
      <4> HIDE DEF e, q, V, F, M
      <4> QED BY <2>1, <2>3, RisesOn
    <3>3. p \in Nat /\ p < q /\ q \in 1..Len(e) /\ p \in 1..Len(e) /\ q # p
      <4>1. q \in 1..Len(e) /\ Len(e) \in Nat
        BY <2>1, HeapTypes DEF Rising
      <4> QED BY <2>3, <4>1, Parents
    <3>4. Swap(e, q, p) \in Heap
      <4> HIDE DEF e, q, p, V
      <4> QED BY <2>1, <3>3, Swapped
    <3>5. Holds(Swap(e, q, p), h)
      <4>1. Distinct(e)
        BY <2>1 DEF Holds
      <4> HIDE DEF e, q, p, V
      <4>2. Holds(Swap(e, q, p), e)
        BY <2>1, <3>3, <4>1, SwapHolds
      <4> QED BY <2>1, <4>2, HoldsOn
    <3>6. Up(a) \in V /\ Up(a).i = p
      <4>1. At(Swap(e, q, p), p).i = p /\ At(Swap(e, q, p), p).h = Swap(e, q, p)
        BY DEF At
      <4>2. At(Swap(e, q, p), p) \in [h : Heap, i : Nat]
        BY <3>3, <3>4 DEF At
      <4> QED BY <3>1, <3>2, <3>5, <4>1, <4>2
    <3>7. M[Up(a)] = p
      BY <3>6
    <3> HIDE DEF V, M, F
    <3>8. Up(a) # a
      BY <3>3, <3>6
    <3> QED BY <2>1, <2>2, <3>3, <3>6, <3>7, <3>8
  <2>4. CASE ~Goes
    <3>1. Up(a) = a
      BY <2>4 DEF Up
    <3>2. q <= 1 \/ e[q].error <= e[p].error
      <4>1. q > 1 => e[q].error \in Nat /\ e[p].error \in Nat
        <5>1. q \in 1..Len(e) /\ Len(e) \in Nat
          BY <2>1, HeapTypes DEF Rising
        <5>2. q > 1 => p \in 1..Len(e)
          BY <5>1, Parents
        <5> HIDE DEF q, e, p
        <5> QED BY <2>1, <5>1, <5>2, HeapTypes
      <4> QED BY <2>1, <2>4, <4>1
    <3> QED BY <2>1, <2>2, <3>1, <3>2
  <2> QED BY <2>3, <2>4
<1>3. F \in [V -> V] /\ M \in [V -> Nat]
  BY <1>2
<1>4. M[At(h, i)] <= N
  BY <1>1
<1> HIDE DEF V, F, M, N
<1>5. PICK f : ComesToRest(f, V, At(h, i), N, F)
  <2>1. \A a \in V : F[a] = a \/ M[F[a]] < M[a]
    BY <1>2
  <2> QED BY <1>1, <1>3, <1>4, <2>1, IterationRests
<1>6. Climb(h, i) = f[N]
  <2>1. f = [n \in 0..N |-> IF n = 0 THEN At(h, i) ELSE Up(f[n - 1])]
    <3>1. f \in [0..N -> V] /\ f[0] = At(h, i)
      BY <1>5 DEF ComesToRest
    <3>2. \A n \in 1..N : f[n - 1] \in V /\ f[n] = F[f[n - 1]]
      BY <1>5 DEF ComesToRest
    <3>3. \A n \in 1..N : f[n] = Up(f[n - 1])
      BY <3>2 DEF F
    <3>4. \A n \in 0..N : n = 0 \/ n \in 1..N
      BY <1>1
    <3> QED BY <3>1, <3>3, <3>4
  <2> DEFINE w[n \in 0..N] == IF n = 0 THEN At(h, i) ELSE Up(w[n - 1])
  <2>2. w = CHOOSE w_ : w_ = [n \in 0..N |-> IF n = 0 THEN At(h, i) ELSE Up(w_[n - 1])]
    OBVIOUS
  <2>3. w = [n \in 0..N |-> IF n = 0 THEN At(h, i) ELSE Up(w[n - 1])]
    <3> HIDE DEF w
    <3> QED BY <2>1, <2>2
  <2>4. Climb(h, i) = w[N]
    BY DEF Climb, N
  <2> HIDE DEF w
  <2>5. 0 \in 0..N /\ \A n \in 1..N : n \in 0..N /\ n # 0
    BY <1>1
  <2>6. w[0] = f[0] /\ \A n \in 1..N : w[n] = Up(w[n - 1]) /\ f[n] = Up(f[n - 1])
    BY <2>1, <2>3, <2>5
  <2>7. w[N] = f[N]
    BY <1>1, <2>6, EndAlike
  <2> QED BY <2>4, <2>7
<1> DEFINE b == f[N]
<1>7. /\ b \in [h : Heap, i : Nat] /\ Rising(b.h, b.i) /\ Holds(b.h, h)
      /\ b.i <= 1 \/ b.h[b.i].error <= b.h[parent(b.i)].error
  <2>1. b \in V /\ F[b] = b
    BY <1>5 DEF ComesToRest
  <2>2. b \in [h : Heap, i : Nat] /\ Rising(b.h, b.i) /\ Holds(b.h, h)
    BY <2>1 DEF V
  <2> QED BY <2>1, <2>2, <1>2
<1>8. b.h \in Heap /\ b.i \in 1..Len(b.h) /\ Distinct(b.h) /\ b = At(b.h, b.i)
  BY <1>7 DEF Rising, Holds, At
<1>9. Ordered(b.h) /\ \A k \in 1..Len(b.h) : k # b.i => b.h[k].key = k
  BY <1>7, <1>8, HeapTypes DEF Rising, Ordered
<1>10. g = Settled(At(b.h, b.i))
  BY <1>6, <1>8 DEF moveUp
<1> HIDE DEF b
<1>11. HeapGood(g) /\ Holds(g, b.h)
  BY <1>8, <1>9, <1>10, SettledHolds
<1> QED BY <1>7, <1>11, HoldsOn

(* On its way down a node may have less error than those below it, but they *)
(* have no more than the one above it.                                      *)
Sinking(h, i) ==
  /\ i \in 1..Len(h)
  /\ \A k \in 2..Len(h) : parent(k) # i => h[k].error <= h[parent(k)].error
  /\ i > 1 => \A k \in 2..Len(h) : parent(k) = i => h[k].error <= h[parent(i)].error
  /\ \A k \in 1..Len(h) : k # i => h[k].key = k

LEMMA Children ==
  ASSUME NEW h \in Heap, NEW i \in 1..Len(h), 2 * i <= Len(h), NEW j, j = LargerChild(h, i)
  PROVE  /\ j \in 2..Len(h) /\ i < j /\ parent(j) = i
         /\ \A k \in 2..Len(h) : parent(k) = i => h[k].error <= h[j].error
<1>1. Len(h) \in Nat
  BY HeapTypes
<1>2. j \in 2..Len(h) /\ i < j /\ (j = 2 * i \/ j = 2 * i + 1)
  BY <1>1 DEF LargerChild
<1>3. parent(j) = i
  BY <1>2, Parents
<1>4. ASSUME NEW k \in 2..Len(h), parent(k) = i PROVE h[k].error <= h[j].error
  <2>1. k = 2 * i \/ k = 2 * i + 1
    BY <1>4, Parents
  <2>2. h[k].error \in Nat /\ h[2 * i].error \in Nat /\ h[j].error \in Nat
    BY <1>1, <1>2, HeapTypes
  <2> QED BY <1>1, <2>1, <2>2 DEF LargerChild
<1> QED BY <1>2, <1>3, <1>4

LEMMA SinksOn ==
  ASSUME NEW h \in Heap, NEW i, Sinking(h, i), 2 * i <= Len(h),
         h[LargerChild(h, i)].error > h[i].error,
         NEW g, g = Swap(h, i, LargerChild(h, i))
  PROVE  Sinking(g, LargerChild(h, i))
<1> DEFINE j == LargerChild(h, i)
<1>1. /\ i \in 1..Len(h) /\ j \in 2..Len(h) /\ j \in 1..Len(h) /\ i < j /\ i # j
      /\ parent(j) = i /\ Len(h) \in Nat
      /\ \A k \in 2..Len(h) : parent(k) = i => h[k].error <= h[j].error
  <2>1. i \in 1..Len(h) /\ Len(h) \in Nat
    BY HeapTypes DEF Sinking
  <2>2. /\ j \in 2..Len(h) /\ i < j /\ parent(j) = i
        /\ \A k \in 2..Len(h) : parent(k) = i => h[k].error <= h[j].error
    BY <2>1, Children
  <2> HIDE DEF j
  <2> QED BY <2>1, <2>2
<1>2. /\ g \in Heap /\ Len(g) = Len(h)
      /\ g[i].error = h[j].error /\ g[i].key = i
      /\ g[j].error = h[i].error
      /\ \A k \in 1..Len(h) : k # i /\ k # j => g[k] = h[k]
  <2>1. g = Swap(h, i, j) /\ i # j /\ i \in 1..Len(h) /\ j \in 1..Len(h)
    BY <1>1
  <2> HIDE DEF j
  <2> QED BY <2>1, Swapped
<1>3. h[j].error > h[i].error
  OBVIOUS
<1> HIDE DEF j
<1>4. \A k \in 1..Len(h) : h[k].error \in Nat /\ g[k].error \in Nat
  BY <1>2, HeapTypes
<1>5. \A k \in 2..Len(h) : k \in 1..Len(h) /\ parent(k) \in 1..Len(h) /\ parent(k) < k
  BY Parents
<1>6. ASSUME NEW k \in 2..Len(h), parent(k) # j PROVE g[k].error <= g[parent(k)].error
  <2>1. CASE k = j
    BY <1>1, <1>2, <1>3, <1>4, <2>1
  <2>2. CASE k # j /\ parent(k) = i
    <3>1. k # i
      BY <1>5, <2>2
    <3>2. g[k].error = h[k].error
      BY <1>2, <1>5, <2>2, <3>1
    <3> QED BY <1>1, <1>2, <2>2, <3>2
  <2>3. CASE k = i
    <3>1. h[j].error <= h[parent(i)].error
      <4>1. i > 1
        BY <2>3
      <4> QED BY <1>1, <4>1 DEF Sinking
    <3>2. parent(i) # i /\ parent(i) # j /\ parent(i) \in 1..Len(h)
      BY <1>5, <1>6, <2>3
    <3> QED BY <1>2, <2>3, <3>1, <3>2
  <2>4. CASE k # j /\ k # i /\ parent(k) # i
    <3>1. h[k].error <= h[parent(k)].error
      BY <2>4 DEF Sinking
    <3>2. g[k] = h[k] /\ g[parent(k)] = h[parent(k)]
      BY <1>2, <1>5, <1>6, <2>4
    <3> QED BY <3>1, <3>2
  <2> QED BY <2>1, <2>2, <2>3, <2>4
<1>7. ASSUME NEW k \in 2..Len(h), parent(k) = j PROVE g[k].error <= g[parent(j)].error
  <2>1. h[k].error <= h[j].error
    BY <1>1, <1>7 DEF Sinking
  <2>2. k # j /\ k # i
    <3>1. j < k
      BY <1>5, <1>7
    <3> QED BY <1>1, <3>1
  <2> QED BY <1>1, <1>2, <1>5, <2>1, <2>2
<1>8. \A k \in 1..Len(h) : k # j => g[k].key = k
  BY <1>2 DEF Sinking
<1> QED BY <1>1, <1>2, <1>6, <1>7, <1>8 DEF Sinking, j

Rests(h, i) == ~(2 * i <= Len(h) /\ h[LargerChild(h, i)].error > h[i].error)

LEMMA RestsInOrder ==
  ASSUME NEW h \in Heap, NEW i, Sinking(h, i), Rests(h, i)
  PROVE  Ordered(h)
<1>1. i \in 1..Len(h) /\ Len(h) \in Nat
  BY HeapTypes DEF Sinking
<1>2. ASSUME NEW k \in 2..Len(h), parent(k) = i PROVE h[k].error <= h[i].error
  <2>1. 2 * i <= Len(h)
    <3>1. k = 2 * i \/ k = 2 * i + 1
      BY <1>1, <1>2, Parents
    <3> QED BY <1>1, <3>1
  <2> DEFINE j == LargerChild(h, i)
  <2>2. h[k].error <= h[j].error /\ j \in 1..Len(h)
    BY <1>1, <1>2, <2>1, Children
  <2>3. ~(h[j].error > h[i].error)
    BY <2>1 DEF Rests
  <2> HIDE DEF j
  <2>4. h[k].error \in Nat /\ h[i].error \in Nat /\ h[j].error \in Nat
    BY <1>1, <2>2, HeapTypes
  <2> QED BY <2>2, <2>3, <2>4
<1> QED BY <1>2 DEF Sinking, Ordered

(* moveDown makes a heap of what it was given. *)
LEMMA MovedDown ==
  ASSUME NEW h \in Heap, NEW i, Sinking(h, i), Distinct(h), NEW g, g = moveDown(h, i)
  PROVE  HeapGood(g) /\ Holds(g, h)
<1> DEFINE V == {a \in [h : Heap, i : Nat] : Sinking(a.h, a.i) /\ Holds(a.h, h)}
           F == [a \in V |-> Down(a)]
           N == Len(h)
           M == [a \in V |-> N - a.i]
<1>1. At(h, i) \in V /\ M[At(h, i)] <= N /\ N \in Nat
  <2>1. At(h, i) \in [h : Heap, i : Nat] /\ At(h, i).h = h /\ At(h, i).i = i
    BY DEF At, Sinking
  <2>2. Holds(h, h)
    BY DEF Holds
  <2>3. At(h, i) \in V
    BY <2>1, <2>2
  <2> QED BY <2>1, <2>3, HeapTypes DEF Sinking
<1>2. ASSUME NEW a \in V
      PROVE  /\ F[a] \in V /\ M[a] \in Nat
             /\ F[a] = a \/ M[F[a]] < M[a]
             /\ F[a] = a => Rests(a.h, a.i)
  <2> DEFINE q == a.i
             e == a.h
             j == LargerChild(e, q)
             Goes == 2 * q <= Len(e) /\ e[j].error > e[q].error
  <2>1. a \in [h : Heap, i : Nat] /\ Sinking(e, q) /\ Holds(e, h) /\ e \in Heap /\ q \in Nat
    OBVIOUS
  <2>2. F[a] = Down(a) /\ M[a] = N - q /\ q <= N /\ N \in Nat /\ Len(e) = N
    BY <1>1 DEF Sinking, Holds
  <2>3. CASE Goes
    <3>1. Down(a) = At(Swap(e, q, j), j)
      BY <2>3 DEF Down
    <3>2. Sinking(Swap(e, q, j), j)
      <4>1. 2 * q <= Len(e) /\ e[LargerChild(e, q)].error > e[q].error
        BY <2>3
      <4> HIDE DEF e, q, V, F, M
      <4> QED BY <2>1, <4>1, SinksOn
    <3>3. j \in Nat /\ q < j /\ q \in 1..Len(e) /\ j \in 1..Len(e) /\ q # j
      <4>1. q \in 1..Len(e) /\ Len(e) \in Nat
        BY <2>1, HeapTypes DEF Sinking
      <4>2. j \in 2..Len(e) /\ q < j
        <5> HIDE DEF e, q, V, F, M
        <5> QED BY <2>1, <2>3, <4>1, Children
      <4> HIDE DEF e, q, j, V, F, M
      <4> QED BY <4>1, <4>2
    <3>4. Swap(e, q, j) \in Heap
      <4> HIDE DEF e, q, j, V
      <4> QED BY <2>1, <3>3, Swapped
    <3>5. Holds(Swap(e, q, j), h)
      <4>1. Distinct(e)
        BY <2>1 DEF Holds
      <4> HIDE DEF e, q, j, V
      <4>2. Holds(Swap(e, q, j), e)
        BY <2>1, <3>3, <4>1, SwapHolds
      <4> QED BY <2>1, <4>2, HoldsOn
    <3>6. Down(a) \in V /\ Down(a).i = j
      <4>1. At(Swap(e, q, j), j).i = j /\ At(Swap(e, q, j), j).h = Swap(e, q, j)
        BY DEF At
      <4>2. At(Swap(e, q, j), j) \in [h : Heap, i : Nat]
        BY <3>3, <3>4 DEF At
      <4> QED BY <3>1, <3>2, <3>5, <4>1, <4>2
    <3>7. M[Down(a)] = N - j /\ j <= N
      BY <2>2, <3>3, <3>6
    <3> HIDE DEF V, M, F
    <3>8. Down(a) # a
      BY <3>3, <3>6
    <3> QED BY <2>1, <2>2, <3>3, <3>6, <3>7, <3>8
  <2>4. CASE ~Goes
    <3>1. Down(a) = a
      BY <2>4 DEF Down
    <3>2. Rests(e, q)
      BY <2>4 DEF Rests
    <3> QED BY <2>1, <2>2, <3>1, <3>2
  <2> QED BY <2>3, <2>4
<1>3. F \in [V -> V] /\ M \in [V -> Nat]
  BY <1>2
<1> HIDE DEF V, F, M, N
<1>5. PICK f : ComesToRest(f, V, At(h, i), N, F)
  <2>1. \A a \in V : F[a] = a \/ M[F[a]] < M[a]
    BY <1>2
  <2> QED BY <1>1, <1>3, <2>1, IterationRests
<1>6. Sink(h, i) = f[N]
  <2>1. f = [n \in 0..N |-> IF n = 0 THEN At(h, i) ELSE Down(f[n - 1])]
    <3>1. f \in [0..N -> V] /\ f[0] = At(h, i)
      BY <1>5 DEF ComesToRest
    <3>2. \A n \in 1..N : f[n - 1] \in V /\ f[n] = F[f[n - 1]]
      BY <1>5 DEF ComesToRest
    <3>3. \A n \in 1..N : f[n] = Down(f[n - 1])
      BY <3>2 DEF F
    <3>4. \A n \in 0..N : n = 0 \/ n \in 1..N
      BY <1>1
    <3> QED BY <3>1, <3>3, <3>4
  <2> DEFINE w[n \in 0..N] == IF n = 0 THEN At(h, i) ELSE Down(w[n - 1])
  <2>2. w = CHOOSE w_ : w_ = [n \in 0..N |-> IF n = 0 THEN At(h, i) ELSE Down(w_[n - 1])]
    OBVIOUS
  <2>3. w = [n \in 0..N |-> IF n = 0 THEN At(h, i) ELSE Down(w[n - 1])]
    <3> HIDE DEF w
    <3> QED BY <2>1, <2>2
  <2>4. Sink(h, i) = w[N]
    BY DEF Sink, N
  <2> HIDE DEF w
  <2>5. 0 \in 0..N /\ \A n \in 1..N : n \in 0..N /\ n # 0
    BY <1>1
  <2>6. w[0] = f[0] /\ \A n \in 1..N : w[n] = Down(w[n - 1]) /\ f[n] = Down(f[n - 1])
    BY <2>1, <2>3, <2>5
  <2>7. w[N] = f[N]
    BY <1>1, <2>6, EndAlike
  <2> QED BY <2>4, <2>7
<1> DEFINE b == f[N]
<1>7. /\ b \in [h : Heap, i : Nat] /\ Sinking(b.h, b.i) /\ Holds(b.h, h)
      /\ Rests(b.h, b.i)
  <2>1. b \in V /\ F[b] = b
    BY <1>5 DEF ComesToRest
  <2>2. b \in [h : Heap, i : Nat] /\ Sinking(b.h, b.i) /\ Holds(b.h, h)
    BY <2>1 DEF V
  <2> QED BY <2>1, <2>2, <1>2
<1>8. b.h \in Heap /\ b.i \in 1..Len(b.h) /\ Distinct(b.h) /\ b = At(b.h, b.i)
  BY <1>7 DEF Sinking, Holds, At
<1>9. Ordered(b.h) /\ \A k \in 1..Len(b.h) : k # b.i => b.h[k].key = k
  <2>1. Ordered(b.h)
    BY <1>7, <1>8, RestsInOrder
  <2> QED BY <1>7, <2>1 DEF Sinking
<1>10. g = Settled(At(b.h, b.i))
  BY <1>6, <1>8 DEF moveDown
<1> HIDE DEF b
<1>11. HeapGood(g) /\ Holds(g, b.h)
  BY <1>8, <1>9, <1>10, SettledHolds
<1> QED BY <1>7, <1>11, HoldsOn

-----------------------------------------------------------------------------
(* What insert, remove and extractMax do to the entries. *)


LEMMA HeapInserts ==
  ASSUME NEW h, HeapGood(h), NEW x \in Slots, x \notin Nodes(h), NEW e \in Nat,
         NEW g, g = HeapInsert(h, e, x)
  PROVE  HeapGood(g) /\ Entries(g) = Entries(h) \cup {<<x, e>>} /\ Len(g) = Len(h) + 1
<1> DEFINE y == [error |-> e, i |-> x, key |-> 0]
           k0 == Append(h, y)
           m == Len(h) + 1
<1>1. h \in Heap /\ Len(h) \in Nat /\ y \in HeapNode
  BY HeapTypes DEF HeapGood, HeapNode
<1>2. /\ k0 \in Heap /\ Len(k0) = m /\ k0[m] = y /\ m \in Nat
      /\ \A k \in 1..Len(h) : k0[k] = h[k]
  <2> HIDE DEF y
  <2> QED BY <1>1 DEF Heap
<1>3. y.error = e /\ y.i = x
  OBVIOUS
<1> HIDE DEF y, k0
<1>4. \A k \in 1..m : k \in 1..Len(h) \/ k = m
  BY <1>1
<1>5. Rising(k0, m)
  <2>1. \A k \in 2..m : k # m =>
          k \in 2..Len(h) /\ parent(k) \in 1..Len(h) /\ k \in 1..Len(h)
    BY <1>1, Parents
  <2>2. \A k \in 2..m : parent(k) # m
    BY <1>1, Parents
  <2>3. \A k \in 2..m : k # m => k0[k].error <= k0[parent(k)].error
    BY <1>1, <1>2, <2>1 DEF HeapGood, Ordered
  <2>4. \A k \in 1..m : k # m => k0[k].key = k
    BY <1>2, <1>4 DEF HeapGood, Keyed
  <2>5. m \in 1..m
    BY <1>1
  <2> HIDE DEF m
  <2> QED BY <1>2, <2>2, <2>3, <2>4, <2>5 DEF Rising
<1>6. Distinct(k0)
  <2>1. \A k \in 1..Len(h) : h[k].i # x
    BY DEF Nodes
  <2> HIDE DEF m
  <2> QED BY <1>2, <1>3, <1>4, <2>1 DEF Distinct, HeapGood
<1>7. Entries(k0) = Entries(h) \cup {<<x, e>>}
  <2>1. \A k \in 1..Len(h) : k \in 1..m
    BY <1>1
  <2>2. m \in 1..m
    BY <1>1
  <2> HIDE DEF m
  <2>3. \A k \in 1..Len(h) : <<k0[k].i, k0[k].error>> = <<h[k].i, h[k].error>>
    BY <1>2
  <2>4. <<k0[m].i, k0[m].error>> = <<x, e>>
    BY <1>2, <1>3
  <2>5. Entries(k0) \subseteq Entries(h) \cup {<<x, e>>}
    BY <1>2, <1>4, <2>3, <2>4 DEF Entries
  <2>6. Entries(h) \cup {<<x, e>>} \subseteq Entries(k0)
    BY <1>2, <2>1, <2>2, <2>3, <2>4 DEF Entries
  <2> QED BY <2>5, <2>6
<1>8. g = moveUp(k0, m)
  BY DEF HeapInsert, k0, y
<1>9. HeapGood(g) /\ Holds(g, k0)
  <2> HIDE DEF m
  <2> QED BY <1>2, <1>5, <1>6, <1>8, MovedUp
<1> QED BY <1>2, <1>7, <1>9 DEF Holds

(* The last one in the place of the one at i. *)
LEMMA LastMoved ==
  ASSUME NEW h, HeapGood(h), NEW i \in 1..Len(h), NEW g, g = LastTo(h, i)
  PROVE  /\ g \in Heap /\ Len(g) = Len(h) - 1 /\ Distinct(g)
         /\ Entries(g) = Entries(h) \ {<<h[i].i, h[i].error>>}
         /\ \A k \in 1..Len(g) : k \in 1..Len(h) /\ (k # i => g[k] = h[k]) /\ g[k].key = k
<1>1. h \in Heap /\ Len(h) \in Nat /\ \A k \in 1..Len(h) : h[k] \in HeapNode
  BY HeapTypes DEF HeapGood
<1> DEFINE n == Len(h)
           y == [h[n] EXCEPT !.key = i]
<1>2. n \in 1..n /\ n \in Nat /\ h[n] \in HeapNode
  BY <1>1
<1>3. y \in HeapNode /\ y.error = h[n].error /\ y.i = h[n].i /\ y.key = i
  <2>1. i \in Nat
    BY <1>1
  <2> QED BY <1>2, <2>1 DEF HeapNode
<1>4. g = [k \in 1..(n - 1) |-> IF k = i THEN y ELSE h[k]]
  BY DEF LastTo
<1> HIDE DEF y, n
<1>5. n = Len(h)
  BY DEF n
<1>6. \A k \in 1..(n - 1) : k \in 1..n /\ k # n /\ (IF k = i THEN y ELSE h[k]) \in HeapNode
  BY <1>1, <1>2, <1>3, <1>5
<1>7. g \in Heap /\ Len(g) = n - 1
  <2>1. n - 1 \in Nat
    BY <1>2
  <2>2. g \in [1..(n - 1) -> HeapNode]
    BY <1>4, <1>6
  <2> QED BY <2>1, <2>2 DEF Heap
<1> DEFINE from(k) == IF k = i THEN n ELSE k
<1>8. \A k \in 1..(n - 1) :
        /\ from(k) \in 1..n /\ from(k) # i
        /\ g[k].i = h[from(k)].i /\ g[k].error = h[from(k)].error
        /\ g[k].key = k /\ (k # i => g[k] = h[k])
  BY <1>2, <1>3, <1>4, <1>5, <1>6 DEF HeapGood, Keyed
<1>9. \A k \in 1..n : k # i => \E l \in 1..(n - 1) : from(l) = k
  <2>1. \A k \in 1..n : k # n => k \in 1..(n - 1)
    BY <1>2
  <2>2. i # n => i \in 1..(n - 1) /\ from(i) = n
    BY <1>5, <2>1
  <2> QED BY <2>1, <2>2
<1>10. \A j, k \in 1..(n - 1) : from(j) = from(k) => j = k
  BY <1>6
<1> HIDE DEF from
<1>11. Distinct(g)
  BY <1>5, <1>7, <1>8, <1>10 DEF HeapGood, Distinct
<1>12. Entries(g) = Entries(h) \ {<<h[i].i, h[i].error>>}
  <2>1. \A k \in 1..(n - 1) : <<g[k].i, g[k].error>> = <<h[from(k)].i, h[from(k)].error>>
    BY <1>8
  <2>2. \A k \in 1..n : k # i => h[k].i # h[i].i
    BY <1>5 DEF HeapGood, Distinct
  <2>3. Entries(g) \subseteq Entries(h) \ {<<h[i].i, h[i].error>>}
    BY <1>5, <1>7, <1>8, <2>1, <2>2 DEF Entries
  <2>4. ASSUME NEW p \in Entries(h), p # <<h[i].i, h[i].error>> PROVE p \in Entries(g)
    <3>1. PICK k \in 1..n : p = <<h[k].i, h[k].error>>
      BY <1>5 DEF Entries
    <3>2. PICK l \in 1..(n - 1) : from(l) = k
      BY <1>9, <2>4, <3>1
    <3>3. p = <<g[l].i, g[l].error>>
      BY <2>1, <3>1, <3>2
    <3> QED BY <1>7, <3>3 DEF Entries
  <2> QED BY <2>3, <2>4
<1> QED BY <1>5, <1>6, <1>7, <1>8, <1>11, <1>12

(* The entries but for that of x. *)
Without(h, x) == {p \in Entries(h) : p[1] # x}

LEMMA WithoutOne ==
  ASSUME NEW h, HeapGood(h), NEW i \in 1..Len(h)
  PROVE  Entries(h) \ {<<h[i].i, h[i].error>>} = Without(h, h[i].i)
<1>1. \A p \in Entries(h) : p[1] = h[i].i => p = <<h[i].i, h[i].error>>
  <2> SUFFICES ASSUME NEW k \in 1..Len(h), h[k].i = h[i].i
               PROVE  <<h[k].i, h[k].error>> = <<h[i].i, h[i].error>>
    BY DEF Entries
  <2> QED BY DEF HeapGood, Distinct
<1> QED BY <1>1 DEF Without

(* Where the last one is put, it goes up or down until all is in order. *)
LEMMA Restored ==
  ASSUME NEW h, HeapGood(h), NEW i \in 1..Len(h), NEW g, g = LastTo(h, i), i <= Len(g)
  PROVE  /\ ~(i > 1 /\ g[i].error > g[parent(i)].error) => Sinking(g, i)
         /\ i > 1 /\ g[i].error > g[parent(i)].error => Rising(g, i)
<1>1. h \in Heap /\ Len(h) \in Nat /\ Ordered(h)
  BY HeapTypes DEF HeapGood
<1>2. /\ g \in Heap /\ Len(g) = Len(h) - 1
      /\ \A k \in 1..Len(g) : k \in 1..Len(h) /\ (k # i => g[k] = h[k]) /\ g[k].key = k
  BY LastMoved
<1>3. i \in 1..Len(g) /\ Len(g) \in Nat
  BY <1>1, <1>2
<1>4. \A k \in 2..Len(g) : /\ k \in 1..Len(g) /\ parent(k) \in 1..Len(g) /\ parent(k) < k
                           /\ k \in 2..Len(h) /\ parent(k) \in 1..Len(h) /\ k \in 1..Len(h)
  BY <1>1, <1>2, Parents
<1>5. \A k \in 1..Len(g) : g[k].error \in Nat
  BY <1>2, HeapTypes
<1>6. \A k \in 1..Len(h) : h[k].error \in Nat
  BY <1>1, HeapTypes
<1>7. \A k \in 2..Len(g) : k # i /\ parent(k) # i => g[k].error <= g[parent(k)].error
  BY <1>1, <1>2, <1>4 DEF Ordered
<1>8. ASSUME i > 1, NEW k \in 2..Len(g), parent(k) = i PROVE g[k].error <= g[parent(i)].error
  <2>1. i \in 2..Len(g) /\ k # i /\ parent(i) # i
    BY <1>3, <1>4, <1>8
  <2>2. h[k].error <= h[i].error /\ h[i].error <= h[parent(i)].error
    BY <1>1, <1>4, <1>8, <2>1 DEF Ordered
  <2>3. g[k] = h[k] /\ g[parent(i)] = h[parent(i)]
    BY <1>2, <1>4, <2>1
  <2>4. h[k].error \in Nat /\ h[i].error \in Nat /\ h[parent(i)].error \in Nat
    BY <1>4, <1>6, <2>1
  <2> QED BY <2>2, <2>3, <2>4
<1>9. CASE i > 1 /\ g[i].error > g[parent(i)].error
  <2>1. i \in 2..Len(g) /\ parent(i) \in 1..Len(g)
    BY <1>3, <1>4, <1>9
  <2>2. ASSUME NEW k \in 2..Len(g), k # i PROVE g[k].error <= g[parent(k)].error
    <3>1. CASE parent(k) = i
      <4>1. g[k].error <= g[parent(i)].error
        BY <1>8, <1>9, <3>1
      <4> QED BY <1>3, <1>4, <1>5, <1>9, <2>1, <3>1, <4>1
    <3> QED BY <1>7, <2>2, <3>1
  <2>3. Rising(g, i)
    BY <1>2, <1>3, <1>8, <2>2 DEF Rising
  <2> QED BY <1>9, <2>3
<1>10. CASE ~(i > 1 /\ g[i].error > g[parent(i)].error)
  <2>1. ASSUME NEW k \in 2..Len(g), parent(k) # i PROVE g[k].error <= g[parent(k)].error
    <3>1. CASE k = i
      <4>1. g[i].error \in Nat /\ g[parent(i)].error \in Nat
        BY <1>3, <1>4, <1>5, <3>1
      <4> QED BY <1>10, <3>1, <4>1
    <3> QED BY <1>7, <2>1, <3>1
  <2>2. Sinking(g, i)
    BY <1>2, <1>3, <1>8, <2>1 DEF Sinking
  <2> QED BY <1>10, <2>2
<1> QED BY <1>9, <1>10

LEMMA HeapRemoves ==
  ASSUME NEW h, HeapGood(h), NEW x \in Nodes(h), NEW g, g = HeapRemove(h, x)
  PROVE  HeapGood(g) /\ Entries(g) = Without(h, x) /\ Len(g) = Len(h) - 1
<1>1. PICK i \in 1..Len(h) : h[i].i = x
  BY DEF Nodes
<1>2. h \in Heap /\ Len(h) \in Nat /\ \A k \in 1..Len(h) : h[k].i = x => k = i /\ h[k].key = i
  BY <1>1, HeapTypes DEF HeapGood, Distinct, Keyed
<1> DEFINE n == CHOOSE n \in {h[k] : k \in 1..Len(h)} : n.i = x
           l == LastTo(h, i)
<1>3. n.key = i
  <2>1. n \in {h[k] : k \in 1..Len(h)} /\ n.i = x
    BY <1>1
  <2> HIDE DEF n
  <2> QED BY <1>2, <2>1
<1> HIDE DEF n
<1>4. g = IF i > Len(l) THEN l
          ELSE IF i > 1 /\ l[i].error > l[parent(i)].error THEN moveUp(l, i)
          ELSE moveDown(l, i)
  BY <1>3 DEF HeapRemove, n
<1>5. /\ l \in Heap /\ Len(l) = Len(h) - 1 /\ Distinct(l)
      /\ Entries(l) = Without(h, x)
      /\ \A k \in 1..Len(l) : k \in 1..Len(h) /\ (k # i => l[k] = h[k]) /\ l[k].key = k
  <2>1. l = LastTo(h, i)
    OBVIOUS
  <2> HIDE DEF l
  <2>2. /\ l \in Heap /\ Len(l) = Len(h) - 1 /\ Distinct(l)
        /\ Entries(l) = Entries(h) \ {<<h[i].i, h[i].error>>}
        /\ \A k \in 1..Len(l) : k \in 1..Len(h) /\ (k # i => l[k] = h[k]) /\ l[k].key = k
    BY <1>1, <2>1, LastMoved
  <2>3. Entries(h) \ {<<h[i].i, h[i].error>>} = Without(h, x)
    BY <1>1, WithoutOne
  <2> QED BY <2>2, <2>3
<1>6. l = LastTo(h, i)
  OBVIOUS
<1> HIDE DEF l
<1>7. CASE i > Len(l)
  <2>1. g = l /\ \A k \in 1..Len(l) : l[k] = h[k]
    BY <1>2, <1>4, <1>5, <1>7
  <2>2. Len(l) \in Nat /\ Len(h) \in Nat /\ Len(l) <= Len(h)
    BY <1>2, <1>5
  <2>3. ASSUME NEW k \in 2..Len(l)
        PROVE  k \in 2..Len(h) /\ k \in 1..Len(l) /\ parent(k) \in 1..Len(l)
    <3>1. k \in Nat /\ k >= 2 /\ k <= Len(l)
      BY <2>2
    <3>2. parent(k) \in Nat /\ 1 <= parent(k) /\ parent(k) < k
      BY <3>1, Parents
    <3> QED BY <2>2, <3>1, <3>2
  <2>4. Ordered(l)
    BY <2>1, <2>3 DEF HeapGood, Ordered
  <2> QED BY <1>5, <2>1, <2>4 DEF HeapGood, Keyed
<1>8. CASE i <= Len(l)
  <2>1. ~(i > Len(l))
    BY <1>2, <1>5, <1>8
  <2>2. CASE i > 1 /\ l[i].error > l[parent(i)].error
    <3>1. Rising(l, i) /\ g = moveUp(l, i)
      BY <1>4, <1>6, <1>8, <2>1, <2>2, Restored
    <3>2. HeapGood(g) /\ Holds(g, l)
      BY <1>5, <3>1, MovedUp
    <3> QED BY <1>5, <3>2 DEF Holds
  <2>3. CASE ~(i > 1 /\ l[i].error > l[parent(i)].error)
    <3>1. Sinking(l, i) /\ g = moveDown(l, i)
      BY <1>4, <1>6, <1>8, <2>1, <2>3, Restored
    <3>2. HeapGood(g) /\ Holds(g, l)
      BY <1>5, <3>1, MovedDown
    <3> QED BY <1>5, <3>2 DEF Holds
  <2> QED BY <2>2, <2>3
<1> QED BY <1>2, <1>5, <1>7, <1>8

LEMMA HeapExtracts ==
  ASSUME NEW h, HeapGood(h), h # <<>>, NEW g, g = HeapExtract(h)
  PROVE  HeapGood(g) /\ Entries(g) = Without(h, h[1].i) /\ Len(g) = Len(h) - 1
<1> DEFINE l == LastTo(h, 1)
<1>1. h \in Heap /\ Len(h) \in Nat /\ 1 \in 1..Len(h)
  BY HeapTypes DEF HeapGood, Heap
<1>2. /\ l \in Heap /\ Len(l) = Len(h) - 1 /\ Distinct(l)
      /\ Entries(l) = Without(h, h[1].i)
      /\ \A k \in 1..Len(l) : k \in 1..Len(h) /\ (k # 1 => l[k] = h[k]) /\ l[k].key = k
  <2>1. l = LastTo(h, 1)
    OBVIOUS
  <2> HIDE DEF l
  <2>2. /\ l \in Heap /\ Len(l) = Len(h) - 1 /\ Distinct(l)
        /\ Entries(l) = Entries(h) \ {<<h[1].i, h[1].error>>}
        /\ \A k \in 1..Len(l) : k \in 1..Len(h) /\ (k # 1 => l[k] = h[k]) /\ l[k].key = k
    BY <1>1, <2>1, LastMoved
  <2>3. Entries(h) \ {<<h[1].i, h[1].error>>} = Without(h, h[1].i)
    BY <1>1, WithoutOne
  <2> QED BY <2>2, <2>3
<1>3. g = IF l = <<>> THEN l ELSE moveDown(l, 1)
  BY DEF HeapExtract
<1>4. l = LastTo(h, 1)
  OBVIOUS
<1> HIDE DEF l
<1>5. CASE l = <<>>
  <2>1. Ordered(l) /\ Keyed(l)
    BY <1>5 DEF Ordered, Keyed
  <2> QED BY <1>2, <1>3, <1>5, <2>1 DEF HeapGood
<1>6. CASE l # <<>>
  <2>1. 1 <= Len(l)
    BY <1>2, <1>6 DEF Heap
  <2>2. Sinking(l, 1)
    BY <1>1, <1>4, <2>1, Restored
  <2>3. HeapGood(g) /\ Holds(g, l)
    BY <1>2, <1>3, <1>6, <2>2, MovedDown
  <2> QED BY <1>2, <2>3 DEF Holds
<1> QED BY <1>5, <1>6

(* No entry has more error than the first. *)
LEMMA FirstIsLargest ==
  ASSUME NEW h, HeapGood(h), h # <<>>
  PROVE  \A p \in Entries(h) : p[2] <= h[1].error
<1>1. h \in Heap /\ Len(h) \in Nat /\ \A k \in 1..Len(h) : h[k].error \in Nat
  BY HeapTypes DEF HeapGood
<1> DEFINE Below(n) == \A k \in 1..Len(h) : k <= n => h[k].error <= h[1].error
           S == {n \in Nat : Below(n)}
<1>2. 0 \in S
  OBVIOUS
<1>3. ASSUME NEW n \in Nat, n \in S PROVE n + 1 \in S
  <2> SUFFICES ASSUME NEW k \in 1..Len(h), k <= n + 1 PROVE h[k].error <= h[1].error
    OBVIOUS
  <2>1. CASE k = 1
    BY <1>1, <2>1
  <2>2. CASE k # 1
    <3>1. k \in 2..Len(h) /\ parent(k) \in 1..Len(h) /\ parent(k) <= n
      BY <1>1, <2>2, Parents
    <3>2. h[k].error <= h[parent(k)].error /\ h[parent(k)].error <= h[1].error
      BY <1>3, <3>1 DEF HeapGood, Ordered
    <3> QED BY <1>1, <3>1, <3>2
  <2> QED BY <2>1, <2>2
<1>4. Len(h) \in S
  <2> HIDE DEF S
  <2> QED BY <1>1, <1>2, <1>3, SetInduction
<1>5. \A k \in 1..Len(h) : h[k].error <= h[1].error
  BY <1>1, <1>4
<1> QED BY <1>5 DEF Entries

-----------------------------------------------------------------------------
(* The queue *)

LEMMA NodesOfEntries ==
  ASSUME NEW h, NEW x
  PROVE  x \in Nodes(h) <=> \E p \in Entries(h) : p[1] = x
<1>1. \A k \in 1..Len(h) : <<h[k].i, h[k].error>>[1] = h[k].i
  OBVIOUS
<1>2. ASSUME x \in Nodes(h) PROVE \E p \in Entries(h) : p[1] = x
  <2>1. PICK k \in 1..Len(h) : h[k].i = x
    BY <1>2 DEF Nodes
  <2>2. <<h[k].i, h[k].error>> \in Entries(h)
    BY DEF Entries
  <2> QED BY <1>1, <2>1, <2>2
<1>3. ASSUME NEW p \in Entries(h), p[1] = x PROVE x \in Nodes(h)
  BY <1>1, <1>3 DEF Entries, Nodes
<1> QED BY <1>2, <1>3

LEMMA InsertedLazily ==
  ASSUME NEW q, QueueGood(q), NEW x \in Slots, NEW r, r = insertLazy(q, x)
  PROVE  /\ QueueGood(r) /\ r.heap = q.heap /\ r.buffer = q.buffer
         /\ r.onlist = q.onlist \cup {x}
<1>1. CASE x \in q.onlist
  <2>1. r = q /\ q.onlist = q.onlist \cup {x}
    BY <1>1 DEF insertLazy
  <2> QED BY <2>1
<1>2. CASE x \notin q.onlist
  <2> DEFINE l == Append(q.L, x)
             o == q.onlist \cup {x}
  <2>1. q \in Queues /\ q.L \in Seq(Slots) /\ q.onlist \in SUBSET Slots /\ IsInjective(q.L) /\ x \notin Range(q.L)
    BY <1>2 DEF QueueGood, Queues
  <2>2. l \in Seq(Slots) /\ o \in SUBSET Slots
    BY <2>1
  <2>3. IsInjective(l) /\ Range(l) = o
    <3>1. l = Append(q.L, x) /\ Range(q.L) = q.onlist
      BY DEF QueueGood
    <3> HIDE DEF l
    <3> DEFINE u == q.L
    <3>2. u \in Seq(Slots) /\ IsInjective(u) /\ x \notin Range(u) /\ l = Append(u, x)
      BY <2>1, <3>1
    <3> HIDE DEF u
    <3>3. IsInjective(l) /\ Range(l) = Range(u) \cup {x}
      BY <3>2, AppendElements
    <3> QED BY <3>1, <3>3 DEF u
  <2>4. r = [q EXCEPT !.L = l, !.onlist = o]
    BY <1>2 DEF insertLazy
  <2> HIDE DEF l, o
  <2>5. r \in Queues /\ r.heap = q.heap /\ r.buffer = q.buffer /\ r.L = l /\ r.onlist = o
    BY <2>1, <2>2, <2>4 DEF Queues
  <2> QED BY <2>3, <2>5 DEF QueueGood, o
<1> QED BY <1>1, <1>2

LEMMA UpdatedLazily ==
  ASSUME NEW q, QueueGood(q), NEW x \in Slots, NEW r, r = updateLazy(q, x)
  PROVE  /\ QueueGood(r) /\ r.buffer = q.buffer \ {x} /\ r.onlist = q.onlist \cup {x}
         /\ Entries(r.heap) = Without(q.heap, x)
<1> DEFINE h == HeapRemove(q.heap, x)
           b == q.buffer \ {x}
           d == IF x \in q.buffer THEN [q EXCEPT !.heap = h, !.buffer = b] ELSE q
<1>1. QueueGood(d) /\ d.buffer = b /\ d.onlist = q.onlist /\ Entries(d.heap) = Without(q.heap, x)
  <2>1. CASE x \in q.buffer
    <3>1. HeapGood(h) /\ Entries(h) = Without(q.heap, x)
      BY <2>1, HeapRemoves DEF QueueGood
    <3>2. \A y : y \in Nodes(h) <=> y \in Nodes(q.heap) /\ y # x
      <4> SUFFICES ASSUME NEW y PROVE y \in Nodes(h) <=> y \in Nodes(q.heap) /\ y # x
        OBVIOUS
      <4>1. y \in Nodes(h) <=> \E p \in Entries(h) : p[1] = y
        BY NodesOfEntries
      <4>2. y \in Nodes(q.heap) <=> \E p \in Entries(q.heap) : p[1] = y
        BY NodesOfEntries
      <4> HIDE DEF h
      <4> QED BY <3>1, <4>1, <4>2 DEF Without
    <3>3. h \in Heap /\ b \in SUBSET Slots /\ q \in Queues
      BY <3>1 DEF HeapGood, QueueGood, Queues
    <3>4. d = [q EXCEPT !.heap = h, !.buffer = b]
      BY <2>1
    <3>5. Nodes(h) = b
      BY <3>2 DEF QueueGood
    <3> HIDE DEF d, h, b
    <3>6. d \in Queues /\ d.heap = h /\ d.buffer = b /\ d.L = q.L /\ d.onlist = q.onlist
      BY <3>3, <3>4 DEF Queues
    <3> QED BY <3>1, <3>5, <3>6 DEF QueueGood
  <2>2. CASE x \notin q.buffer
    <3>1. d = q /\ b = q.buffer
      BY <2>2
    <3>2. Entries(q.heap) = Without(q.heap, x)
      <4>1. ~ \E p \in Entries(q.heap) : p[1] = x
        BY <2>2, NodesOfEntries DEF QueueGood
      <4> QED BY <4>1 DEF Without
    <3> HIDE DEF d, b
    <3> QED BY <3>1, <3>2
  <2> QED BY <2>1, <2>2
<1>2. r = insertLazy(d, x)
  BY DEF updateLazy
<1> HIDE DEF d, h
<1>3. /\ QueueGood(r) /\ r.heap = d.heap /\ r.buffer = d.buffer
      /\ r.onlist = d.onlist \cup {x}
  BY <1>1, <1>2, InsertedLazily
<1> QED BY <1>1, <1>3

(* The queue r has come of q by entering nodes of its list. *)
Entering(q, r) ==
  /\ r \in Queues /\ HeapGood(r.heap) /\ r.buffer = Nodes(r.heap) /\ r.L = q.L
  /\ q.buffer \subseteq r.buffer
  /\ \A p \in Entries(r.heap) :
       p \in Entries(q.heap) \/ (p[1] \notin q.buffer /\ p[2] = err[p[1]])

LEMMA Inserted ==
  ASSUME NEW q, NEW r, Entering(q, r), NEW x \in Slots, err[x] \in Nat,
         NEW n, n = insert(r, x)
  PROVE  /\ Entering(q, n) /\ n.buffer = r.buffer \cup {x}
         /\ n.onlist = r.onlist \ {x}
<1> DEFINE o == r.onlist \ {x}
           h == HeapInsert(r.heap, err[x], x)
           b == r.buffer \cup {x}
<1>1. r \in Queues /\ o \in SUBSET Slots /\ b \in SUBSET Slots
  BY DEF Entering, Queues
<1>2. CASE x \in r.buffer
  <2>1. n = [r EXCEPT !.onlist = o] /\ b = r.buffer
    BY <1>2 DEF insert
  <2> HIDE DEF o, b
  <2>2. n \in Queues /\ n.heap = r.heap /\ n.buffer = b /\ n.L = r.L /\ n.onlist = o
    BY <1>1, <2>1 DEF Queues
  <2> QED BY <2>1, <2>2 DEF Entering, o, b
<1>3. CASE x \notin r.buffer
  <2>1. n = [r EXCEPT !.heap = h, !.buffer = b, !.onlist = o]
    BY <1>3 DEF insert
  <2>2. HeapGood(h) /\ Entries(h) = Entries(r.heap) \cup {<<x, err[x]>>}
    BY <1>3, HeapInserts DEF Entering
  <2>3. h \in Heap
    BY <2>2 DEF HeapGood
  <2>4. \A y : y \in Nodes(h) <=> y \in b
    <3> SUFFICES ASSUME NEW y PROVE y \in Nodes(h) <=> y \in b
      OBVIOUS
    <3>1. y \in Nodes(h) <=> \E p \in Entries(h) : p[1] = y
      BY NodesOfEntries
    <3>2. y \in r.buffer <=> \E p \in Entries(r.heap) : p[1] = y
      BY NodesOfEntries DEF Entering
    <3>3. <<x, err[x]>>[1] = x
      OBVIOUS
    <3> HIDE DEF h
    <3> QED BY <2>2, <3>1, <3>2, <3>3
  <2> HIDE DEF o, b, h
  <2>5. n \in Queues /\ n.heap = h /\ n.buffer = b /\ n.L = r.L /\ n.onlist = o
    BY <1>1, <2>1, <2>3 DEF Queues
  <2>6. q.buffer \subseteq b /\ x \notin q.buffer
    BY <1>3 DEF Entering, b
  <2>7. ASSUME NEW p \in Entries(h)
        PROVE  p \in Entries(q.heap) \/ (p[1] \notin q.buffer /\ p[2] = err[p[1]])
    <3>1. CASE p \in Entries(r.heap)
      BY <3>1 DEF Entering
    <3>2. CASE p = <<x, err[x]>>
      BY <2>6, <3>2
    <3> QED BY <2>2, <3>1, <3>2
  <2>8. b = Nodes(h)
    BY <2>4
  <2> QED BY <2>2, <2>5, <2>6, <2>7, <2>8 DEF Entering, o, b
<1> QED BY <1>2, <1>3

LEMMA AllInserted ==
  ASSUME NEW q, QueueGood(q), err \in [Slots -> Nat], NEW r, r = insertAll(q)
  PROVE  /\ QueueGood(r) /\ r.onlist = {} /\ r.buffer = q.buffer \cup q.onlist
         /\ \A p \in Entries(r.heap) :
              p \in Entries(q.heap) \/ (p[1] \notin q.buffer /\ p[2] = err[p[1]])
<1> DEFINE N == Len(q.L)
           V == {a \in Queues : Entering(q, a)}
           F == [k \in 1..N |-> [a \in V |-> insert(a, q.L[k])]]
<1>1. /\ q \in Queues /\ N \in Nat /\ q \in V
      /\ \A k \in 1..N : q.L[k] \in Slots /\ err[q.L[k]] \in Nat
  BY DEF QueueGood, Queues, Entering
<1>2. ASSUME NEW a \in V, NEW k \in 1..N
      PROVE  /\ insert(a, q.L[k]) \in V /\ insert(a, q.L[k]).buffer = a.buffer \cup {q.L[k]}
             /\ insert(a, q.L[k]).onlist = a.onlist \ {q.L[k]}
  <2> DEFINE n == insert(a, q.L[k])
  <2>1. Entering(q, a) /\ n = insert(a, q.L[k]) /\ q.L[k] \in Slots /\ err[q.L[k]] \in Nat
    BY <1>1
  <2> HIDE DEF n
  <2>2. /\ Entering(q, n) /\ n.buffer = a.buffer \cup {q.L[k]}
        /\ n.onlist = a.onlist \ {q.L[k]}
    BY <2>1, Inserted
  <2>3. n \in V
    BY <2>2 DEF Entering
  <2> HIDE DEF V
  <2> QED BY <2>2, <2>3 DEF n
<1>3. F \in [1..N -> [V -> V]] /\ \A k \in 1..N, a \in V : F[k][a] = insert(a, q.L[k])
  BY <1>2
<1> HIDE DEF V, F, N
<1>4. PICK f : Iterates(f, V, q, N, F)
  BY <1>1, <1>3, Iteration
<1>5. /\ f \in [0..N -> V] /\ f[0] = q
      /\ \A k \in 1..N : f[k - 1] \in V /\ f[k] = insert(f[k - 1], q.L[k])
  BY <1>3, <1>4 DEF Iterates
<1>6. Entered(q) = f[N]
  <2>1. f = [k \in 0..N |-> IF k = 0 THEN q ELSE insert(f[k - 1], q.L[k])]
    <3>1. \A k \in 0..N : k = 0 \/ k \in 1..N
      BY <1>1
    <3> QED BY <1>5, <3>1
  <2> DEFINE w[k \in 0..N] == IF k = 0 THEN q ELSE insert(w[k - 1], q.L[k])
  <2>2. w = CHOOSE w_ : w_ = [k \in 0..N |-> IF k = 0 THEN q ELSE insert(w_[k - 1], q.L[k])]
    OBVIOUS
  <2>3. w = [k \in 0..N |-> IF k = 0 THEN q ELSE insert(w[k - 1], q.L[k])]
    <3> HIDE DEF w
    <3> QED BY <2>1, <2>2
  <2>4. Entered(q) = w[N]
    BY DEF Entered, N
  <2> HIDE DEF w
  <2>5. 0 \in 0..N /\ \A k \in 1..N : k \in 0..N /\ k # 0
    BY <1>1
  <2>6. /\ w[0] = f[0]
        /\ \A k \in 1..N : w[k] = insert(w[k - 1], q.L[k]) /\ f[k] = insert(f[k - 1], q.L[k])
    BY <2>1, <2>3, <2>5
  <2>7. w[N] = f[N]
    BY <1>1, <2>6, EndAlike
  <2> QED BY <2>4, <2>7
<1> DEFINE Done(n) == {q.L[j] : j \in 1..n}
           S == {n \in Nat : n <= N => /\ f[n].buffer = q.buffer \cup Done(n)
                                       /\ f[n].onlist = q.onlist \ Done(n)}
<1>7. 0 \in S
  <2>1. Done(0) = {}
    OBVIOUS
  <2> HIDE DEF Done
  <2> QED BY <1>5, <2>1
<1>8. ASSUME NEW n \in Nat, n \in S PROVE n + 1 \in S
  <2> SUFFICES ASSUME n + 1 <= N
               PROVE  /\ f[n + 1].buffer = q.buffer \cup Done(n + 1)
                      /\ f[n + 1].onlist = q.onlist \ Done(n + 1)
    OBVIOUS
  <2>1. n + 1 \in 1..N /\ (n + 1) - 1 = n /\ n <= N
    BY <1>1
  <2>2. Done(n + 1) = Done(n) \cup {q.L[n + 1]}
    <3>1. \A j \in 1..(n + 1) : j \in 1..n \/ j = n + 1
      OBVIOUS
    <3>2. \A j \in 1..n : j \in 1..(n + 1)
      OBVIOUS
    <3>3. n + 1 \in 1..(n + 1)
      OBVIOUS
    <3> QED BY <3>1, <3>2, <3>3
  <2>3. f[n].buffer = q.buffer \cup Done(n) /\ f[n].onlist = q.onlist \ Done(n)
    BY <1>8, <2>1
  <2> HIDE DEF Done
  <2>4. f[n] \in V /\ f[n + 1] = insert(f[n], q.L[n + 1])
    BY <1>5, <2>1
  <2>5. f[n + 1].buffer = f[n].buffer \cup {q.L[n + 1]} /\ f[n + 1].onlist = f[n].onlist \ {q.L[n + 1]}
    BY <1>2, <2>1, <2>4
  <2> QED BY <2>2, <2>3, <2>5
<1>9. N \in S
  <2> HIDE DEF S
  <2> QED BY <1>1, <1>7, <1>8, SetInduction
<1>10. Done(N) = q.onlist
  BY DEF N, QueueGood, Queues, Range
<1> DEFINE e == f[N]
<1>11. /\ Entering(q, e) /\ e.buffer = q.buffer \cup q.onlist /\ e.onlist = {}
  <2>1. e \in V
    BY <1>1, <1>5
  <2> HIDE DEF Done
  <2> QED BY <2>1, <1>1, <1>9, <1>10 DEF V
<1>12. r = [e EXCEPT !.L = <<>>]
  BY <1>6 DEF insertAll
<1> HIDE DEF e
<1>13. <<>> \in Seq(Slots) /\ IsInjective(<<>>) /\ Range(<<>>) = {}
  BY DEF IsInjective, Range
<1>14. e \in Queues
  BY <1>11 DEF Entering
<1>15. /\ r \in Queues /\ r.heap = e.heap /\ r.buffer = e.buffer /\ r.L = <<>>
       /\ r.onlist = e.onlist
  BY <1>12, <1>13, <1>14 DEF Queues
<1> QED BY <1>11, <1>13, <1>15 DEF Entering, QueueGood

-----------------------------------------------------------------------------
(* The invariant *)

LEMMA EntryTypes ==
  ASSUME NEW h, HeapGood(h), NEW p \in Entries(h)
  PROVE  p[1] \in Slots /\ p[2] \in Nat /\ p[1] \in Nodes(h)
<1>1. PICK k \in 1..Len(h) : p = <<h[k].i, h[k].error>>
  BY DEF Entries
<1>2. h[k].i \in Slots /\ h[k].error \in Nat
  BY HeapTypes DEF HeapGood
<1> QED BY <1>1, <1>2 DEF Nodes

LEMMA CurrentBound ==
  ASSUME TypeOK, NEW x \in Slots
  PROVE  /\ err[x] \in Nat /\ err[x] <= MaxErr /\ cyc[x] \in Nat /\ cyc[x] <= c
         /\ Current(x) \in Nat /\ Current(x) <= err[x] /\ Current(x) <= MaxErr
         /\ cyc[x] = c => Current(x) = err[x]
<1>1. err[x] \in 0..MaxErr /\ cyc[x] \in 0..c /\ c \in 0..MaxCycle /\ MaxErr \in Nat /\ MaxCycle \in Nat
  BY HeapAssumption DEF TypeOK
<1>2. c - cyc[x] \in 0..MaxCycle /\ 0 \in 0..MaxCycle
  BY <1>1
<1>3. /\ Decay(err[x], c - cyc[x]) \in 0..err[x]
      /\ Decay(err[x], 0) = err[x]
  BY <1>1, <1>2, DecayAssumption
<1>4. cyc[x] = c => c - cyc[x] = 0
  BY <1>1
<1> QED BY <1>1, <1>3, <1>4 DEF Current

LEMMA QueueIs ==
  ASSUME TypeOK, QueueGood(Queue)
  PROVE  /\ Queue.heap = heap /\ Queue.buffer = buffer /\ Queue.L = L /\ Queue.onlist = onlist
         /\ HeapGood(heap) /\ buffer = Nodes(heap) /\ buffer \subseteq Slots
BY DEF QueueGood, Queue, Queues

LEMMA QueueSet ==
  ASSUME NEW r, QueueGood(r), SetQueue(r)
  PROVE  /\ QueueGood(Queue') /\ heap' \in Heap /\ L' \in Seq(Slots)
         /\ heap' = r.heap /\ buffer' = r.buffer /\ onlist' = r.onlist
<1>1. r \in Queues /\ heap' = r.heap /\ buffer' = r.buffer /\ L' = r.L /\ onlist' = r.onlist
  BY DEF SetQueue, QueueGood
<1>2. Queue' = r
  BY <1>1 DEF Queue, Queues
<1> QED BY <1>1, <1>2 DEF Queues

(* Entries that stay, of nodes that stay as they are. *)
LEMMA BoundsKept ==
  ASSUME EntriesBound, NEW p \in Entries(heap), p[1] \in buffer', p[1] \in Slots,
         NEW kept, p[1] \in kept, Stale(kept),
         p[1] \in live' => p[1] \in live,
         err'[p[1]] = err[p[1]], cyc'[p[1]] = cyc[p[1]], c' = c
  PROVE  Bounds(p)'
<1>1. Bounds(p)
  BY DEF EntriesBound
<1>2. p[1] \in stale => p[1] \in stale'
  BY DEF Stale
<1>3. p[1] \notin live' => p[1] \in stale'
  BY DEF Stale
<1>4. p[1] \in live' /\ p[1] \in stale' => p[1] \in stale
  BY DEF Stale
<1> QED BY <1>1, <1>2, <1>3, <1>4 DEF Bounds

LEMMA StaleIn ==
  ASSUME NEW kept, Stale(kept)
  PROVE  stale' \subseteq buffer'
BY DEF Stale

LEMMA AdaptStep ==
  ASSUME HeapInv, NEW n \in live, NEW m \in live, NEW d \in Amounts,
         NEW D \in SUBSET (live \ bare), NEW B \in SUBSET (live \ bare),
         Adapt(n, m, d, D, B)
  PROVE  HeapInv'
<1> DEFINE r == updateLazy(Queue, n)
<1>1. /\ TypeOK /\ QueueGood(Queue) /\ Queued /\ EntriesBound /\ PickedFirst /\ InCycle
      /\ n \in Slots
  BY DEF HeapInv, TypeOK
<1>2. /\ Queue.heap = heap /\ Queue.buffer = buffer /\ Queue.onlist = onlist
      /\ HeapGood(heap) /\ buffer = Nodes(heap) /\ buffer \subseteq Slots
  BY <1>1, QueueIs
<1>3. /\ QueueGood(r) /\ r.buffer = buffer \ {n} /\ r.onlist = onlist \cup {n}
      /\ Entries(r.heap) = Without(heap, n)
  <2>1. r = updateLazy(Queue, n)
    OBVIOUS
  <2> HIDE DEF r
  <2> QED BY <1>1, <1>2, <2>1, UpdatedLazily
<1>4. SetQueue(r) /\ Stale(Slots)
  BY DEF Adapt
<1> HIDE DEF r
<1>5. /\ QueueGood(Queue') /\ heap' \in Heap /\ L' \in Seq(Slots)
      /\ heap' = r.heap /\ buffer' = r.buffer /\ onlist' = r.onlist
  BY <1>3, <1>4, QueueSet
<1>6. TypeOK'
  <2>1. Current(n) \in Nat /\ d \in Nat /\ Current(n) + d <= MaxErr /\ MaxErr \in Nat
    BY <1>1, CurrentBound, HeapAssumption DEF Adapt
  <2>2. err' \in [Slots -> 0..MaxErr]
    BY <1>1, <2>1 DEF Adapt, TypeOK
  <2>3. cyc' \in [Slots -> 0..c']
    BY <1>1 DEF Adapt, TypeOK
  <2>4. s' \in 0..Lambda /\ pc' \in {"adapt", "grow"}
    BY <1>1, HeapAssumption DEF Adapt, TypeOK, InCycle
  <2>5. live' \subseteq Slots /\ bare' \subseteq live' /\ lost' \subseteq live'
    BY <1>1 DEF Adapt, TypeOK
  <2> QED BY <1>1, <1>5, <2>2, <2>3, <2>4, <2>5 DEF Adapt, TypeOK
<1>7. Queued'
  <2>1. n \in onlist'
    BY <1>3, <1>5
  <2>2. \A x \in live' \ lost' : x \in buffer' \cup onlist'
    BY <1>1, <1>3, <1>5 DEF Adapt, Queued
  <2>3. pc' \in {"adapt", "grow"}
    BY DEF Adapt
  <2> QED BY <2>1, <2>2, <2>3 DEF Queued
<1>8. EntriesBound'
  <2>1. ASSUME NEW p \in Entries(heap') PROVE Bounds(p)'
    <3>1. p \in Entries(heap) /\ p[1] # n
      BY <1>3, <1>5 DEF Without
    <3>2. p[1] \in Slots /\ p[1] \in buffer'
      BY <1>2, <1>3, <1>5, <3>1, EntryTypes
    <3>3. err'[p[1]] = err[p[1]] /\ cyc'[p[1]] = cyc[p[1]] /\ c' = c
      BY <1>1, <3>1, <3>2 DEF Adapt, TypeOK
    <3>4. p[1] \in live' => p[1] \in live
      BY DEF Adapt
    <3> QED BY <1>1, <1>4, <3>1, <3>2, <3>3, <3>4, BoundsKept
  <2>2. stale' \subseteq buffer'
    BY <1>4, StaleIn
  <2> QED BY <2>1, <2>2 DEF EntriesBound
<1>9. PickedFirst' /\ InCycle'
  BY <1>1, HeapAssumption DEF Adapt, PickedFirst, InCycle, TypeOK
<1> QED BY <1>5, <1>6, <1>7, <1>8, <1>9 DEF HeapInv

(* A cycle ends: no error is of the next one yet. *)
LEMMA CycleEnds ==
  ASSUME TypeOK, EndCycle
  PROVE  /\ c' \in 0..MaxCycle /\ s' \in 0..Lambda /\ pc' = "adapt" /\ s' < Lambda
         /\ 0..c \subseteq 0..c' /\ \A k \in 0..c : k # c'
BY HeapAssumption DEF TypeOK, EndCycle

LEMMA BoundsNextCycle ==
  ASSUME TypeOK, EntriesBound, EndCycle, NEW p \in Entries(heap), p[1] \in Slots,
         UNCHANGED <<live, err, cyc, stale>>
  PROVE  Bounds(p)'
<1>1. Bounds(p) /\ cyc[p[1]] # c'
  BY CycleEnds DEF EntriesBound, TypeOK
<1> QED BY <1>1 DEF Bounds

LEMMA NothingAdded ==
  ASSUME HeapInv, EndCycle, pc = "grow" \/ pc = "split",
         lost \subseteq lost', lost' \subseteq live,
         pc = "split" => picked \notin live \ lost',
         UNCHANGED <<live, bare, err, cyc, heap, buffer, L, onlist, picked, stale>>
  PROVE  HeapInv'
<1>1. TypeOK /\ QueueGood(Queue) /\ Queued /\ EntriesBound /\ InCycle
  BY DEF HeapInv
<1>2. HeapGood(heap)
  BY <1>1, QueueIs
<1>3. QueueGood(Queue')
  BY <1>1 DEF Queue
<1>4. TypeOK'
  BY <1>1, CycleEnds DEF TypeOK
<1>5. Queued' /\ PickedFirst' /\ InCycle'
  BY <1>1, CycleEnds DEF Queued, PickedFirst, InCycle
<1>6. EntriesBound'
  <2>1. \A p \in Entries(heap) : Bounds(p)'
    BY <1>1, <1>2, BoundsNextCycle, EntryTypes
  <2> QED BY <1>1, <2>1 DEF EntriesBound
<1> QED BY <1>3, <1>4, <1>5, <1>6 DEF HeapInv

LEMMA PickedWildStep ==
  ASSUME HeapInv, PickedWild
  PROVE  HeapInv'
<1>1. TypeOK /\ QueueGood(Queue) /\ Queued /\ EntriesBound /\ InCycle
  BY DEF HeapInv
<1>2. /\ pc' = "wild" /\ pc = "split" /\ lost' = lost \cup ({picked} \cap live)
      /\ UNCHANGED <<live, bare, err, cyc, c, s, heap, buffer, L, onlist, picked, stale>>
  BY DEF PickedWild
<1>3. QueueGood(Queue')
  BY <1>1, <1>2 DEF Queue
<1>4. TypeOK' /\ Queued' /\ PickedFirst' /\ InCycle'
  BY <1>1, <1>2 DEF TypeOK, Queued, PickedFirst, InCycle
<1>5. EntriesBound'
  <2>1. \A p : Bounds(p) => Bounds(p)'
    BY <1>2 DEF Bounds
  <2> QED BY <1>1, <1>2, <2>1 DEF EntriesBound
<1> QED BY <1>3, <1>4, <1>5 DEF HeapInv

LEMMA FillStep ==
  ASSUME HeapInv, Fill
  PROVE  HeapInv'
<1> DEFINE r == insertAll(Queue)
<1>1. TypeOK /\ QueueGood(Queue) /\ Queued /\ EntriesBound /\ PickedFirst /\ InCycle
  BY DEF HeapInv
<1>2. /\ Queue.heap = heap /\ Queue.buffer = buffer /\ Queue.onlist = onlist
      /\ HeapGood(heap) /\ buffer = Nodes(heap) /\ buffer \subseteq Slots
  BY <1>1, QueueIs
<1>3. /\ QueueGood(r) /\ r.onlist = {} /\ r.buffer = buffer \cup onlist
      /\ \A p \in Entries(r.heap) :
           p \in Entries(heap) \/ (p[1] \notin buffer /\ p[2] = err[p[1]])
  <2>1. r = insertAll(Queue)
    OBVIOUS
  <2>2. err \in [Slots -> Nat]
    BY <1>1, HeapAssumption DEF TypeOK
  <2> HIDE DEF r
  <2> QED BY <1>1, <1>2, <2>1, <2>2, AllInserted
<1>4. /\ SetQueue(r) /\ Stale(Slots) /\ pc = "grow" /\ pc' = "extract"
      /\ UNCHANGED <<live, bare, err, cyc, c, s, picked, lost>>
  BY DEF Fill
<1> HIDE DEF r
<1>5. /\ QueueGood(Queue') /\ heap' \in Heap /\ L' \in Seq(Slots)
      /\ heap' = r.heap /\ buffer' = r.buffer /\ onlist' = r.onlist
  BY <1>3, <1>4, QueueSet
<1>6. TypeOK'
  BY <1>1, <1>4, <1>5 DEF TypeOK
<1>7. Queued' /\ PickedFirst' /\ InCycle'
  BY <1>1, <1>3, <1>4, <1>5 DEF Queued, PickedFirst, InCycle
<1>8. EntriesBound'
  <2>1. ASSUME NEW p \in Entries(heap') PROVE Bounds(p)'
    <3>1. p[1] \in Slots /\ p[1] \in buffer' /\ p[2] \in Nat
      BY <1>3, <1>5, EntryTypes DEF QueueGood
    <3>2. CASE p \in Entries(heap)
      BY <1>1, <1>4, <3>1, <3>2, BoundsKept
    <3>3. CASE p[1] \notin buffer /\ p[2] = err[p[1]]
      <4>1. p[1] \notin stale
        BY <1>1, <3>3 DEF EntriesBound
      <4>2. p[1] \in stale' <=> p[1] \notin live'
        BY <1>4, <3>1, <4>1 DEF Stale
      <4>3. err'[p[1]] = p[2]
        BY <1>4, <3>3
      <4> QED BY <3>1, <4>2, <4>3 DEF Bounds
    <3> QED BY <1>3, <1>5, <3>2, <3>3
  <2>2. stale' \subseteq buffer'
    BY <1>4, StaleIn
  <2> QED BY <2>1, <2>2 DEF EntriesBound
<1> QED BY <1>5, <1>6, <1>7, <1>8 DEF HeapInv

(* The first entry is of a node in the buffer. *)
LEMMA First ==
  ASSUME HeapInv, heap # <<>>
  PROVE  /\ heap[1].i \in Slots /\ heap[1].i \in buffer /\ heap[1].error \in Nat
         /\ <<heap[1].i, heap[1].error>> \in Entries(heap)
<1>1. HeapGood(heap) /\ buffer = Nodes(heap)
  BY QueueIs DEF HeapInv
<1>2. heap \in Heap /\ 1 \in 1..Len(heap)
  BY <1>1 DEF HeapGood, Heap
<1> QED BY <1>1, <1>2, HeapTypes DEF Nodes, Entries

LEMMA NodesWithout ==
  ASSUME NEW h, NEW g, NEW x, Entries(g) = Without(h, x)
  PROVE  Nodes(g) = Nodes(h) \ {x}
<1> SUFFICES ASSUME NEW y PROVE y \in Nodes(g) <=> y \in Nodes(h) /\ y # x
  OBVIOUS
<1>1. y \in Nodes(g) <=> \E p \in Entries(g) : p[1] = y
  BY NodesOfEntries
<1>2. y \in Nodes(h) <=> \E p \in Entries(h) : p[1] = y
  BY NodesOfEntries
<1> QED BY <1>1, <1>2 DEF Without

LEMMA RequeueStep ==
  ASSUME HeapInv, Requeue
  PROVE  HeapInv' /\ heap[1].i \in buffer /\ buffer' = buffer
<1> DEFINE x == heap[1].i
           h == HeapExtract(heap)
           e == Current(x)
           g == HeapInsert(h, e, x)
<1>1. /\ TypeOK /\ QueueGood(Queue) /\ Queued /\ EntriesBound /\ PickedFirst /\ InCycle
      /\ x \in Slots /\ x \in buffer /\ heap # <<>>
  BY First DEF HeapInv, Requeue
<1>2. HeapGood(heap) /\ buffer = Nodes(heap) /\ buffer \subseteq Slots
  BY <1>1, QueueIs
<1>3. HeapGood(h) /\ Entries(h) = Without(heap, x)
  BY <1>1, <1>2, HeapExtracts
<1>4. Nodes(h) = Nodes(heap) \ {x}
  <2> HIDE DEF h
  <2> QED BY <1>3, NodesWithout
<1>5. e \in Nat /\ e <= MaxErr
  <2> HIDE DEF x
  <2> QED BY <1>1, CurrentBound
<1>6. HeapGood(g) /\ Entries(g) = Without(heap, x) \cup {<<x, e>>}
  <2>1. g = HeapInsert(h, e, x) /\ x \notin Nodes(h)
    BY <1>4
  <2> HIDE DEF g, h, x, e
  <2> QED BY <1>1, <1>3, <1>5, <2>1, HeapInserts
<1>7. Nodes(g) = buffer
  <2> SUFFICES ASSUME NEW y PROVE y \in Nodes(g) <=> y \in Nodes(heap)
    BY <1>2
  <2>1. y \in Nodes(g) <=> \E p \in Entries(g) : p[1] = y
    BY NodesOfEntries
  <2>2. y \in Nodes(heap) <=> \E p \in Entries(heap) : p[1] = y
    BY NodesOfEntries
  <2>3. <<x, e>>[1] = x /\ x \in Nodes(heap)
    BY <1>1, <1>2
  <2> HIDE DEF g, h, x, e
  <2> QED BY <1>6, <2>1, <2>2, <2>3 DEF Without
<1>8. /\ fixErrorNew({x}) /\ heap' = g /\ Stale(Slots \ {x})
      /\ UNCHANGED <<live, bare, c, s, buffer, L, onlist, pc, picked, lost>>
      /\ pc = "extract"
  BY DEF Requeue
<1>9. /\ err' = [err EXCEPT ![x] = e] /\ cyc' = [cyc EXCEPT ![x] = c]
  BY <1>1, <1>8 DEF fixErrorNew, TypeOK
<1> HIDE DEF x, h, e, g
<1>10. QueueGood(Queue') /\ heap' \in Heap
  <2>1. Queue' = [Queue EXCEPT !.heap = g]
    BY <1>8 DEF Queue
  <2>2. g \in Heap /\ Queue \in Queues
    BY <1>1, <1>6 DEF HeapGood, QueueGood
  <2>3. /\ Queue' \in Queues /\ Queue'.heap = g /\ Queue'.buffer = buffer
        /\ Queue'.L = Queue.L /\ Queue'.onlist = Queue.onlist
    BY <2>1, <2>2 DEF Queues, Queue
  <2> QED BY <1>1, <1>6, <1>7, <1>8, <2>2, <2>3 DEF QueueGood
<1>11. TypeOK'
  <2>1. err' \in [Slots -> 0..MaxErr]
    BY <1>1, <1>5, <1>9, HeapAssumption DEF TypeOK
  <2>2. cyc' \in [Slots -> 0..c'] /\ c' = c
    BY <1>1, <1>8, <1>9 DEF TypeOK
  <2> QED BY <1>1, <1>8, <1>10, <2>1, <2>2 DEF TypeOK
<1>12. Queued' /\ PickedFirst' /\ InCycle'
  BY <1>1, <1>8 DEF Queued, PickedFirst, InCycle
<1>13. EntriesBound'
  <2>1. ASSUME NEW p \in Entries(heap') PROVE Bounds(p)'
    <3>1. CASE p \in Entries(heap) /\ p[1] # x
      <4>1. p[1] \in Slots /\ p[1] \in buffer'
        BY <1>2, <1>8, <3>1, EntryTypes
      <4>2. p[1] \in Slots \ {x}
        BY <3>1, <4>1
      <4>3. err'[p[1]] = err[p[1]] /\ cyc'[p[1]] = cyc[p[1]] /\ c' = c /\ live' = live
        BY <1>1, <1>8, <1>9, <3>1, <4>1 DEF TypeOK
      <4> QED BY <1>1, <1>8, <3>1, <4>1, <4>2, <4>3, BoundsKept
    <3>2. CASE p = <<x, e>>
      <4>1. p[1] = x /\ p[2] = e /\ err'[x] = e
        BY <1>1, <1>9, <3>2 DEF TypeOK
      <4>2. x \in stale' <=> x \notin live'
        BY <1>1, <1>8 DEF Stale
      <4> QED BY <1>5, <4>1, <4>2 DEF Bounds
    <3> QED BY <1>6, <1>8, <3>1, <3>2 DEF Without
  <2>2. stale' \subseteq buffer'
    BY <1>8, StaleIn
  <2> QED BY <2>1, <2>2 DEF EntriesBound
<1> QED BY <1>1, <1>8, <1>10, <1>11, <1>12, <1>13 DEF HeapInv, x

LEMMA PickStep ==
  ASSUME HeapInv, Pick
  PROVE  HeapInv'
<1> DEFINE x == heap[1].i
           g == HeapExtract(heap)
<1>1. /\ TypeOK /\ QueueGood(Queue) /\ Queued /\ EntriesBound /\ PickedFirst /\ InCycle
      /\ x \in Slots /\ x \in buffer /\ heap[1].error \in Nat /\ heap # <<>>
      /\ <<x, heap[1].error>> \in Entries(heap) /\ cyc[x] = c
  BY First DEF HeapInv, Pick
<1>2. HeapGood(heap) /\ buffer = Nodes(heap) /\ buffer \subseteq Slots
  BY <1>1, QueueIs
<1>3. HeapGood(g) /\ Entries(g) = Without(heap, x)
  BY <1>1, <1>2, HeapExtracts
<1>4. Nodes(g) = buffer \ {x}
  <2> HIDE DEF g
  <2> QED BY <1>2, <1>3, NodesWithout
<1>5. /\ picked' = x /\ heap' = g /\ buffer' = buffer \ {x} /\ pc = "extract" /\ pc' = "split"
      /\ UNCHANGED <<live, bare, err, cyc, c, s, L, onlist, lost>> /\ Stale(Slots)
  BY DEF Pick
<1>6. \A p \in Entries(heap) : p[2] <= heap[1].error
  BY <1>1, <1>2, FirstIsLargest
<1> HIDE DEF x, g
<1>7. QueueGood(Queue') /\ heap' \in Heap
  <2> DEFINE b == buffer \ {x}
  <2>1. heap' = g /\ buffer' = b /\ L' = L /\ onlist' = onlist
    BY <1>5
  <2>2. g \in Heap /\ Queue \in Queues /\ b \in SUBSET Slots
    BY <1>1, <1>2, <1>3 DEF HeapGood, QueueGood
  <2> HIDE DEF b
  <2>3. /\ Queue' \in Queues /\ Queue'.heap = g /\ Queue'.buffer = b
        /\ Queue'.L = Queue.L /\ Queue'.onlist = Queue.onlist
    BY <2>1, <2>2 DEF Queues, Queue
  <2> QED BY <1>1, <1>3, <1>4, <1>5, <2>2, <2>3 DEF QueueGood, b
<1>8. TypeOK'
  BY <1>1, <1>5, <1>7 DEF TypeOK
<1>9. Queued' /\ InCycle'
  BY <1>1, <1>5 DEF Queued, InCycle
<1>10. EntriesBound'
  <2>1. ASSUME NEW p \in Entries(heap') PROVE Bounds(p)'
    <3>1. p \in Entries(heap) /\ p[1] # x
      BY <1>3, <1>5, <2>1 DEF Without
    <3>2. p[1] \in Slots /\ p[1] \in buffer'
      BY <1>2, <1>5, <3>1, EntryTypes
    <3> QED BY <1>1, <1>5, <3>1, <3>2, BoundsKept
  <2>2. stale' \subseteq buffer'
    BY <1>5, StaleIn
  <2> QED BY <2>1, <2>2 DEF EntriesBound
<1>11. PickedFirst'
  <2> SUFFICES ASSUME x \in live
               PROVE  cyc[x] = c /\ \A p \in Entries(heap') : p[2] <= err[x]
    BY <1>5 DEF PickedFirst
  <2>1. <<x, heap[1].error>>[1] = x /\ <<x, heap[1].error>>[2] = heap[1].error
    OBVIOUS
  <2>2. err[x] = heap[1].error
    BY <1>1, <2>1 DEF EntriesBound, Bounds
  <2>3. \A p \in Entries(heap') : p \in Entries(heap)
    BY <1>3, <1>5 DEF Without
  <2> QED BY <1>1, <1>6, <2>2, <2>3
<1> QED BY <1>7, <1>8, <1>9, <1>10, <1>11 DEF HeapInv

LEMMA SplitStep ==
  ASSUME HeapInv, NEW N \in SUBSET (live \ (bare \cup {picked})), NEW y \in N,
         NEW z \in Slots \ live, Split(N, y, z)
  PROVE  HeapInv'
<1> DEFINE q1 == updateLazy(Queue, picked)
           q2 == updateLazy(q1, y)
           q3 == insertLazy(q2, z)
<1>1. /\ TypeOK /\ QueueGood(Queue) /\ Queued /\ EntriesBound /\ PickedFirst /\ InCycle
      /\ picked \in Slots /\ y \in Slots /\ z \in Slots /\ y # picked /\ z # picked /\ z # y
  BY DEF HeapInv, TypeOK, Split, NoEdges
<1>2. /\ Queue.heap = heap /\ Queue.buffer = buffer /\ Queue.onlist = onlist
      /\ HeapGood(heap) /\ buffer = Nodes(heap) /\ buffer \subseteq Slots
  BY <1>1, QueueIs
<1>3. /\ QueueGood(q3) /\ q3.buffer = buffer \ {picked, y}
      /\ q3.onlist = onlist \cup {picked, y, z}
      /\ \A p \in Entries(q3.heap) : p \in Entries(heap) /\ p[1] # picked /\ p[1] # y
  <2>1. q1 = updateLazy(Queue, picked)
    OBVIOUS
  <2>2. q2 = updateLazy(q1, y)
    OBVIOUS
  <2>3. q3 = insertLazy(q2, z)
    OBVIOUS
  <2> HIDE DEF q1, q2, q3
  <2>4. /\ QueueGood(q1) /\ q1.buffer = buffer \ {picked} /\ q1.onlist = onlist \cup {picked}
        /\ Entries(q1.heap) = Without(heap, picked)
    BY <1>1, <1>2, <2>1, UpdatedLazily
  <2>5. /\ QueueGood(q2) /\ q2.buffer = q1.buffer \ {y} /\ q2.onlist = q1.onlist \cup {y}
        /\ Entries(q2.heap) = Without(q1.heap, y)
    BY <1>1, <2>2, <2>4, UpdatedLazily
  <2>6. /\ QueueGood(q3) /\ q3.heap = q2.heap /\ q3.buffer = q2.buffer
        /\ q3.onlist = q2.onlist \cup {z}
    BY <1>1, <2>3, <2>5, InsertedLazily
  <2> QED BY <2>4, <2>5, <2>6 DEF Without
<1>4. /\ SetQueue(q3) /\ Stale(Slots) /\ EndCycle /\ pc = "split" /\ picked \in live
      /\ live' = live \cup {z} /\ picked' = picked /\ bare' = bare /\ lost' = lost \ {y}
      /\ cyc' = [x \in Slots |-> IF x \in N \cup {picked, z} THEN c ELSE cyc[x]]
  BY DEF Split, NoEdges
<1> HIDE DEF q1, q2, q3
<1>5. /\ QueueGood(Queue') /\ heap' \in Heap /\ L' \in Seq(Slots)
      /\ heap' = q3.heap /\ buffer' = q3.buffer /\ onlist' = q3.onlist
  BY <1>3, <1>4, QueueSet
<1>6. /\ c' \in 0..MaxCycle /\ s' \in 0..Lambda /\ pc' = "adapt" /\ s' < Lambda
      /\ 0..c \subseteq 0..c' /\ \A k \in 0..c : k # c'
  BY <1>1, <1>4, CycleEnds
<1>7. cyc' \in [Slots -> 0..c]
  BY <1>1, <1>4 DEF TypeOK
<1>8. /\ err' \in [Slots -> 0..MaxErr]
      /\ \A x \in Slots \ {picked, y, z} : err'[x] <= err[x]
  <2> DEFINE e == [x \in Slots |-> IF x \in N \cup {picked} THEN Current(x) ELSE err[x]]
             a == e[picked] \div 2
             b == e[y] \div 2
  <2>1. err' = [e EXCEPT ![picked] = a, ![y] = b, ![z] = (a + b) \div 2]
    BY DEF Split
  <2>2. \A x \in Slots : e[x] \in Nat /\ e[x] <= MaxErr /\ e[x] <= err[x]
    BY <1>1, CurrentBound, HeapAssumption
  <2>3. e \in [Slots -> 0..MaxErr]
    <3>1. \A x \in Slots : e[x] \in 0..MaxErr
      BY <2>2, HeapAssumption
    <3> QED BY <3>1
  <2> HIDE DEF e
  <2>4. a \in 0..MaxErr /\ b \in 0..MaxErr
    BY <1>1, <2>2, HeapAssumption
  <2> HIDE DEF a, b
  <2>5. (a + b) \div 2 \in 0..MaxErr
    BY <2>4, HeapAssumption
  <2> DEFINE m == (a + b) \div 2
  <2>6. err' = [e EXCEPT ![picked] = a, ![y] = b, ![z] = m]
    BY <2>1
  <2> HIDE DEF m
  <2> QED BY <1>1, <2>2, <2>3, <2>4, <2>5, <2>6 DEF m
<1>9. TypeOK'
  <2>1. cyc' \in [Slots -> 0..c']
    BY <1>6, <1>7
  <2> QED BY <1>1, <1>4, <1>5, <1>6, <1>8, <2>1 DEF TypeOK
<1>10. Queued'
  <2>1. \A x \in live' \ lost' : x \in buffer' \cup onlist'
    BY <1>1, <1>3, <1>4, <1>5 DEF Queued
  <2> QED BY <1>4, <1>6, <2>1 DEF Queued
<1>11. PickedFirst' /\ InCycle'
  BY <1>6 DEF PickedFirst, InCycle
<1>12. EntriesBound'
  <2>1. ASSUME NEW p \in Entries(heap') PROVE Bounds(p)'
    <3>1. p \in Entries(heap) /\ p[1] # picked /\ p[1] # y
      BY <1>3, <1>5
    <3>2. p[1] \in Slots /\ p[1] \in buffer' /\ p[2] \in Nat
      BY <1>2, <1>3, <1>5, <3>1, EntryTypes
    <3>3. cyc'[p[1]] # c'
      BY <1>6, <1>7, <3>2
    <3>4. Bounds(p)
      BY <1>1, <3>1 DEF EntriesBound
    <3>5. p[1] \in stale => p[1] \in stale'
      BY <1>4, <3>2 DEF Stale
    <3>6. p[1] \notin live' => p[1] \in stale'
      BY <1>4, <3>2 DEF Stale
    <3>7. p[1] \in live' \ stale' => err'[p[1]] <= p[2]
      <4> SUFFICES ASSUME p[1] \in live', p[1] \notin stale' PROVE err'[p[1]] <= p[2]
        OBVIOUS
      <4>1. p[1] \in live \ stale /\ p[1] # z
        BY <1>4, <3>4, <3>5 DEF Bounds
      <4>2. err[p[1]] <= p[2]
        BY <3>4, <4>1 DEF Bounds
      <4>3. err'[p[1]] <= err[p[1]] /\ err'[p[1]] \in Nat /\ err[p[1]] \in Nat
        BY <1>1, <1>8, <3>1, <3>2, <4>1, HeapAssumption DEF TypeOK
      <4> QED BY <3>2, <4>2, <4>3
    <3> QED BY <3>3, <3>6, <3>7 DEF Bounds
  <2>2. stale' \subseteq buffer'
    BY <1>4, StaleIn
  <2> QED BY <2>1, <2>2 DEF EntriesBound
<1> QED BY <1>5, <1>9, <1>10, <1>11, <1>12 DEF HeapInv

LEMMA HeapInvInit ==
  Init => HeapInv
<1> SUFFICES ASSUME Init PROVE HeapInv
  OBVIOUS
<1>1. /\ live \subseteq Slots /\ picked \in live /\ picked \in Slots /\ IsFiniteSet(live)
      /\ bare \subseteq live /\ lost = {}
      /\ heap = <<>> /\ buffer = {} /\ onlist = live /\ L \in SetToSeqs(live)
      /\ pc = "adapt" /\ s = 0 /\ c = 0 /\ stale = {}
      /\ err \in [Slots -> 0..MaxErr] /\ cyc = [x \in Slots |-> 0]
  <2>1. PICK e \in [live -> LoadedErrs] : err = [x \in Slots |-> IF x \in live THEN e[x] ELSE 0]
    BY DEF Init
  <2>2. err \in [Slots -> 0..MaxErr]
    <3>1. \A x \in live : e[x] \in 0..MaxErr
      BY <2>1, HeapAssumption
    <3>2. 0 \in 0..MaxErr
      BY HeapAssumption
    <3> QED BY <2>1, <3>1, <3>2
  <2> QED BY <2>2, FS_Subset, HeapAssumption DEF Init
<1>2. L \in Seq(live) /\ IsInjective(L) /\ Range(L) = live
  BY <1>1, SetToSeqsElements
<1>3. L \in Seq(Slots)
  BY <1>1, <1>2
<1>4. HeapGood(heap) /\ Nodes(heap) = {} /\ Entries(heap) = {} /\ heap \in Heap
  BY <1>1 DEF HeapGood, Heap, Ordered, Keyed, Distinct, Nodes, Entries
<1>5. TypeOK
  BY <1>1, <1>3, <1>4, HeapAssumption DEF TypeOK
<1>6. QueueGood(Queue)
  <2>1. Queue \in Queues
    BY <1>1, <1>3, <1>4 DEF Queue, Queues
  <2> QED BY <1>1, <1>2, <1>4, <2>1 DEF QueueGood, Queue
<1>7. Queued /\ EntriesBound /\ PickedFirst /\ InCycle
  BY <1>1, <1>4, HeapAssumption DEF Queued, EntriesBound, PickedFirst, InCycle
<1> QED BY <1>5, <1>6, <1>7 DEF HeapInv

LEMMA HeapInvStep ==
  HeapInv /\ [Next]_vars => HeapInv'
<1> SUFFICES ASSUME HeapInv, [Next]_vars PROVE HeapInv'
  OBVIOUS
<1>1. CASE \E n, m \in live, d \in Amounts :
             \E D, B \in SUBSET (live \ bare) : Adapt(n, m, d, D, B)
  BY <1>1, AdaptStep
<1>2. CASE Full
  <2>1. lost \subseteq live
    BY DEF HeapInv, TypeOK
  <2> QED BY <1>2, <2>1, NothingAdded DEF Full
<1>3. CASE Fill
  BY <1>3, FillStep
<1>4. CASE Requeue
  BY <1>4, RequeueStep
<1>5. CASE Pick
  BY <1>5, PickStep
<1>6. CASE PickedNone
  <2>1. lost \subseteq live
    BY DEF HeapInv, TypeOK
  <2> QED BY <1>6, <2>1, NothingAdded DEF PickedNone
<1>7. CASE PickedWild
  BY <1>7, PickedWildStep
<1>8. CASE \E N \in SUBSET (live \ (bare \cup {picked})) \ {{}}, z \in Slots \ live :
             \E y \in N : Split(N, y, z)
  BY <1>8, SplitStep
<1>9. CASE UNCHANGED vars
  <2>1. Queue' = Queue
    BY <1>9 DEF vars, Queue
  <2>2. QueueGood(Queue')
    BY <2>1 DEF HeapInv
  <2>3. EntriesBound'
    <3>1. \A p : Bounds(p) => Bounds(p)'
      BY <1>9 DEF vars, Bounds
    <3> QED BY <1>9, <3>1 DEF HeapInv, EntriesBound, vars
  <2>4. TypeOK' /\ Queued' /\ PickedFirst' /\ InCycle'
    BY <1>9 DEF HeapInv, TypeOK, Queued, PickedFirst, InCycle, vars
  <2> QED BY <2>2, <2>3, <2>4 DEF HeapInv
<1> QED BY <1>1, <1>2, <1>3, <1>4, <1>5, <1>6, <1>7, <1>8, <1>9 DEF Next

LEMMA HeapInvHolds == Spec => []HeapInv
BY HeapInvInit, HeapInvStep, PTL DEF Spec

-----------------------------------------------------------------------------
(* What the invariant implies *)

LEMMA EntriesCount ==
  ASSUME NEW h, HeapGood(h)
  PROVE  Len(h) = Cardinality(Nodes(h))
<1> DEFINE f == [k \in 1..Len(h) |-> h[k].i]
<1>1. Len(h) \in Nat
  BY HeapTypes DEF HeapGood
<1>2. IsInjective(f) /\ Range(f) = Nodes(h)
  BY DEF IsInjective, Range, HeapGood, Distinct, Nodes
<1>3. DOMAIN f = 1..Len(h) /\ f = [k \in 1..Len(h) |-> f[k]]
  OBVIOUS
<1> HIDE DEF f
<1> QED BY <1>1, <1>2, <1>3, InjectiveCount

(* The heap is in order, every node knows its place, m_buffer points to the *)
(* only entry of its node, and m_isonlist says who is on the list, once     *)
(* each: for every pool and every sequence of updates and deletions.        *)
THEOREM HeapOKHolds == Spec => []HeapOK
<1>1. HeapInv => HeapOK
  <2> SUFFICES ASSUME HeapInv PROVE HeapOK
    OBVIOUS
  <2>1. TypeOK /\ QueueGood(Queue)
    BY DEF HeapInv
  <2>2. HeapGood(heap) /\ buffer = Nodes(heap) /\ heap \in Heap
    BY <2>1, QueueIs DEF HeapGood
  <2>3. ASSUME NEW k \in 1..Len(heap)
        PROVE  heap[k].key = k /\ (k > 1 => heap[k].error <= heap[parent(k)].error)
    <3>1. heap[k].key = k
      BY <2>2 DEF HeapGood, Keyed
    <3>2. k > 1 => k \in 2..Len(heap)
      BY <2>2, HeapTypes
    <3> QED BY <2>2, <3>1, <3>2 DEF HeapGood, Ordered
  <2>4. Len(heap) = Cardinality(buffer)
    BY <2>2, EntriesCount
  <2>5. buffer = {heap[k].i : k \in 1..Len(heap)}
    BY <2>2 DEF Nodes
  <2>6. L \in Seq(Slots) /\ IsInjective(L) /\ onlist = Range(L)
    BY <2>1 DEF QueueGood, Queue, TypeOK
  <2>7. Len(L) \in Nat /\ DOMAIN L = 1..Len(L) /\ L = [k \in 1..Len(L) |-> L[k]]
    BY <2>6
  <2>8. Len(L) = Cardinality(onlist)
    BY <2>6, <2>7, InjectiveCount
  <2>9. onlist = {L[k] : k \in 1..Len(L)}
    BY <2>6, <2>7 DEF Range
  <2> QED BY <2>1, <2>3, <2>4, <2>5, <2>8, <2>9 DEF HeapOK
<1> QED BY <1>1, HeapInvHolds, PTL

(* Every node is queued or being split, but one that was picked when it had *)
(* no edges and has not won since, and extractMax never meets an empty heap. *)
THEOREM NodesQueuedHolds == Spec => []NodesQueued
<1>1. HeapInv => NodesQueued
  <2> SUFFICES ASSUME HeapInv PROVE NodesQueued
    OBVIOUS
  <2>1. Queued /\ buffer = Nodes(heap)
    BY QueueIs DEF HeapInv
  <2>2. ASSUME pc = "extract", heap = <<>> PROVE FALSE
    <3>1. Nodes(heap) = {}
      BY <2>2 DEF Nodes
    <3> QED BY <2>1, <2>2, <3>1 DEF Queued
  <2> QED BY <2>1, <2>2 DEF Queued, NodesQueued
<1> QED BY <1>1, HeapInvHolds, PTL

(* The node that is picked has a largest error of those not lost, decay     *)
(* included, unless a slot was taken again whose old entry the heap still   *)
(* holds.                                                                   *)
THEOREM PicksLargestHolds == Spec => []PicksLargest
<1>1. HeapInv => PicksLargest
  <2> SUFFICES ASSUME HeapInv, pc = "split", picked \in live, stale \cap live = {}
               PROVE  cyc[picked] = c /\ \A x \in live \ lost : Current(x) <= err[picked]
    BY DEF PicksLargest
  <2>1. /\ TypeOK /\ Queued /\ EntriesBound /\ PickedFirst
        /\ HeapGood(heap) /\ buffer = Nodes(heap) /\ live \subseteq Slots
    BY QueueIs DEF HeapInv, TypeOK
  <2>2. cyc[picked] = c /\ \A p \in Entries(heap) : p[2] <= err[picked]
    BY <2>1 DEF PickedFirst
  <2>3. ASSUME NEW x \in live \ lost PROVE Current(x) <= err[picked]
    <3>1. /\ err[x] \in Nat /\ Current(x) \in Nat /\ Current(x) <= err[x]
          /\ err[picked] \in Nat /\ Current(picked) = err[picked]
      BY <2>1, <2>2, CurrentBound
    <3>2. CASE x = picked
      BY <3>1, <3>2
    <3>3. CASE x # picked
      <4>1. x \in Nodes(heap)
        BY <2>1, <3>3 DEF Queued
      <4>2. PICK p \in Entries(heap) : p[1] = x
        BY <4>1, NodesOfEntries
      <4>3. err[x] <= p[2] /\ p[2] <= err[picked] /\ p[2] \in Nat
        BY <2>1, <2>2, <4>2, EntryTypes DEF EntriesBound, Bounds
      <4> QED BY <3>1, <4>3
    <3> QED BY <3>2, <3>3
  <2> QED BY <2>2, <2>3
<1> QED BY <1>1, HeapInvHolds, PTL

(* The loop for the largest error ends: with every node that goes back into *)
(* the heap there is one fewer with an error of an earlier cycle.           *)
THEOREM ExtractAdvancesHolds == Spec => ExtractAdvances
<1> DEFINE Advances == pc = "extract" /\ pc' = "extract" =>
                         Cardinality(Outdated') < Cardinality(Outdated)
<1>1. HeapInv /\ [Next]_vars => [Advances]_vars
  <2> SUFFICES ASSUME HeapInv, Next, pc = "extract", pc' = "extract"
               PROVE  Cardinality(Outdated') < Cardinality(Outdated)
    OBVIOUS
  <2>1. Requeue
    BY DEF Next, Adapt, Full, Fill, Pick, PickedNone, PickedWild, Split, EndCycle
  <2> DEFINE x == heap[1].i
  <2>2. x \in buffer /\ buffer' = buffer /\ cyc[x] # c /\ c' = c
    BY <2>1, RequeueStep DEF Requeue
  <2>3. TypeOK /\ buffer \subseteq Slots
    BY QueueIs DEF HeapInv
  <2>4. cyc' = [cyc EXCEPT ![x] = c]
    BY <2>1, <2>3 DEF Requeue, fixErrorNew, TypeOK
  <2> HIDE DEF x
  <2>5. Outdated' = Outdated \ {x} /\ x \in Outdated
    BY <2>2, <2>3, <2>4 DEF Outdated, TypeOK
  <2>6. IsFiniteSet(Outdated)
    BY <2>3, FS_Subset, HeapAssumption DEF Outdated
  <2>7. Cardinality(Outdated') = Cardinality(Outdated) - 1 /\ Cardinality(Outdated) \in Nat
    BY <2>5, <2>6, FS_RemoveElement, FS_CardinalityType
  <2> QED BY <2>7
<1>2. Spec => [][Advances]_vars
  BY <1>1, HeapInvHolds, PTL DEF Spec
<1> QED BY <1>2 DEF ExtractAdvances
=============================================================================
