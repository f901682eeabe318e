--------------------------- MODULE MCLazyErrorHeap ----------------------------
(* The slots are interchangeable.  They are too few for a deep heap, so the  *)
(* heap's own operations are checked on every sequence of N insertions.      *)
EXTENDS LazyErrorHeap

CONSTANT N

Of == INSTANCE LazyErrorHeap WITH Slots <- 1..N

(* betha^lambda is one half, rounded down. *)
Halves(e, k) == e \div 2^k

Symmetry == Permutations(Slots)

InOrder(h) ==
  \A k \in 1..Len(h) :
    h[k].key = k /\ (k > 1 => h[k].error <= h[parent(k)].error)

Entries(h) == {<<h[k].i, h[k].error>> : k \in 1..Len(h)}

Built(es) ==
  LET f[k \in 0..N] == IF k = 0 THEN <<>> ELSE Of!HeapInsert(f[k - 1], es[k], k)
  IN  f[N]

(* Insertion, removal by key and extraction keep the order and the keys, and *)
(* leave exactly the other entries.                                          *)
HeapOfN(es) ==
  LET h == Built(es)
      full == {<<k, es[k]>> : k \in 1..N}
  IN  /\ InOrder(h) /\ Len(h) = N /\ Entries(h) = full
      /\ \A x \in 1..N :
           LET g == Of!HeapRemove(h, x)
           IN  InOrder(g) /\ Len(g) = N - 1 /\ Entries(g) = full \ {<<x, es[x]>>}
      /\ LET g == Of!HeapExtract(h)
         IN  /\ InOrder(g) /\ Len(g) = N - 1
             /\ Entries(g) = full \ {<<h[1].i, h[1].error>>}

ASSUME HeapIsCorrect == \A es \in [1..N -> 0..2] : HeapOfN(es)
=============================================================================
