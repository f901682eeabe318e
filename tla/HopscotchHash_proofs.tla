------------------------- MODULE HopscotchHash_proofs -------------------------
(***************************************************************************)
(* Proofs about HopscotchHash: the tables are in order at every step of    *)
(* every call, the rehashes within rehashes lose no key, a loop over the   *)
(* table meets every key, and all of it together is a set of keys.         *)
(***************************************************************************)
EXTENDS HopscotchHash, DataFacts
-----------------------------------------------------------------------------
(* What is true of each table.                                              *)

Cells == [value : Keys \cup {None}, neighbors : SUBSET Int, overflow : BOOLEAN]

(* A table of c homes. *)
Sized(c) ==
  [count : {c}, nb_elements : Int, list : SUBSET Keys,
   bucket : [0..(c + NeighborhoodSize - 2) -> Cells]]

Tables == UNION {Sized(c) : c \in Counts}
Value(t, b) == t.bucket[b].value

Placed(t) == {b \in Buckets(t) : Value(t, b) # None}

InBuckets(t) == {Value(t, b) : b \in Placed(t)}

All(t) == InBuckets(t) \cup t.list

(* A home knows of the buckets that hold its keys, *)
Exact(t) ==
  \A h \in Buckets(t) : \A o \in Int :
    o \in t.bucket[h].neighbors
      <=> h + o \in Placed(t) /\ bucket_for_hash(t, Value(t, h + o)) = h

(* which are near it, *)
Near(t) ==
  \A b \in Placed(t) : b - bucket_for_hash(t, Value(t, b)) \in 0..(NeighborhoodSize - 1)

(* and of the list. *)
Told(t) ==
  \A h \in Buckets(t) :
    t.bucket[h].overflow <=> \E k \in t.list : bucket_for_hash(t, k) = h

(* No key is in two places. *)
Once(t) ==
  /\ \A a, b \in Placed(t) : Value(t, a) = Value(t, b) => a = b
  /\ \A b \in Placed(t) : Value(t, b) \notin t.list

Counted(t) == t.nb_elements = Cardinality(Placed(t)) + Cardinality(t.list)

Loaded(t) == Cardinality(Placed(t)) <= load_threshold(t)

Good(t) ==
  /\ t \in Tables
  /\ Exact(t) /\ Near(t) /\ Told(t) /\ Once(t) /\ Counted(t) /\ Loaded(t)

-----------------------------------------------------------------------------
(* What is true of each rehash that goes on.                                *)

(* k is to be inserted in t. *)
Awaits(t, k) == Good(t) /\ k \in Keys \cup {None} /\ k \notin All(t)

(* The keys of the old table that the rehash f has taken. *)
Taken(f) == f.old.list \cup {Value(f.old, b) : b \in {p \in Placed(f.old) : p < f.next}}

(* They are in the table t that it fills, or k is on its way there. *)
Fills(f, t, k) ==
  /\ All(t) \cup ({k} \ {None}) = Taken(f)
  /\ f.old.list \subseteq t.list
  /\ f.back # "ready" => t.count >= 2 * f.old.count

Frames ==
  [old : Tables, next : Nat, key : Keys \cup {None}, back : {"ready", "insert", "probe"}]

(* The rehash of an erase is the outermost. *)
Frame(f, i) ==
  /\ Awaits(f.old, f.key)
  /\ f.key = None <=> f.back = "ready"
  /\ f.back = "ready" => i = 1

(* t is the innermost table and k the key that is to be inserted there. *)
Chain(cs, t, k) ==
  /\ cs \in Seq(Frames)
  /\ \A i \in 1..Len(cs) : Frame(cs[i], i)
  /\ \A i \in 1..(Len(cs) - 1) : Fills(cs[i], cs[i + 1].old, cs[i + 1].key)
  /\ cs # <<>> => Fills(cs[Len(cs)], t, k)
  /\ Awaits(t, k)

-----------------------------------------------------------------------------
Labels ==
  /\ label \in {"ready", "insert", "probe", "place", "rehash"}
  /\ label \in {"ready", "rehash"} <=> todo = None
  /\ label = "ready" => calls = <<>>
  /\ label = "rehash" => calls # <<>>

(* The place the search for a bucket has come to. *)
HoleOK ==
  label = "place" =>
    \/ hole = Cardinality(Buckets(table))
    \/ hole \in Buckets(table) \ Placed(table) /\ Home <= hole

Inv ==
  /\ Chain(calls, table, todo) /\ Labels /\ HoleOK
  /\ label \in {"probe", "place"} => ~Overloaded(table)
-----------------------------------------------------------------------------
(* The sizes of tables are positive. *)
LEMMA CountsPositive == Counts \subseteq Nat \ {0}
<1> DEFINE V == Nat \ {0}
           F == [n \in 1..MaxExponent |-> [v \in V |-> 2 * v]]
           E(g) == g = [i \in 0..MaxExponent |-> IF i = 0 THEN 1 ELSE 2 * g[i - 1]]
           w == CHOOSE g : E(g)
<1>1. MaxExponent \in Nat
  BY TableAssumption
<1>2. 1 \in V /\ F \in [1..MaxExponent -> [V -> V]]
  OBVIOUS
<1>3. PICK f : Iterates(f, V, 1, MaxExponent, F)
  <2> HIDE DEF V, F
  <2> QED
    BY <1>1, <1>2, Iteration
<1>4. f \in [0..MaxExponent -> V] /\ f[0] = 1 /\ \A n \in 1..MaxExponent : f[n] = F[n][f[n - 1]]
  BY <1>3 DEF Iterates
<1>5. ASSUME NEW i \in 0..MaxExponent
      PROVE  f[i] = IF i = 0 THEN 1 ELSE 2 * f[i - 1]
  <2>1. CASE i = 0
    BY <2>1, <1>4
  <2>2. CASE i # 0
    <3>1. i \in 1..MaxExponent /\ i - 1 \in 0..MaxExponent
      BY <2>2, <1>1
    <3> QED
      BY <3>1, <2>2, <1>4
  <2> QED
    BY <2>1, <2>2
<1>6. E(f)
  BY <1>4, <1>5
<1>7. E(w)
  <2> HIDE DEF E
  <2> QED
    BY <1>6
<1>8. /\ DOMAIN w = 0..MaxExponent /\ w[0] = 1
      /\ \A i \in 1..MaxExponent : w[i] = 2 * w[i - 1]
  <2> HIDE DEF w
  <2>1. w = [i \in 0..MaxExponent |-> IF i = 0 THEN 1 ELSE 2 * w[i - 1]]
    BY <1>7
  <2>2. \A i \in 0..MaxExponent : w[i] = IF i = 0 THEN 1 ELSE 2 * w[i - 1]
    BY <2>1, Zenon
  <2>3. DOMAIN w = 0..MaxExponent
    BY <2>1
  <2> QED
    BY <2>2, <2>3, <1>1
<1>9. \A n \in 0..MaxExponent : w[n] \in V
  <2> HIDE DEF w
  <2>1. w[0] \in V /\ \A n \in 1..MaxExponent : w[n - 1] \in V => w[n] \in V
    BY <1>8
  <2> HIDE DEF V
  <2> QED
    BY <2>1, <1>1, StaysIn
<1>10. Counts = {w[i] : i \in 1..MaxExponent}
  BY DEF Counts
<1> QED
  <2> HIDE DEF w
  <2> QED
    BY <1>9, <1>10, <1>1

LEMMA RoundsUp ==
  ASSUME NEW n \in Int, WithinMaximum(n)
  PROVE  RoundUp(n) \in Counts /\ RoundUp(n) >= n
<1> DEFINE S == {c \in Counts : c >= n}
<1>1. S \subseteq Nat /\ S # {}
  BY CountsPositive DEF WithinMaximum
<1>2. Min(S) \in S
  <2> HIDE DEF S
  <2> QED
    BY <1>1, LeastNat
<1> QED
  BY <1>2 DEF RoundUp

-----------------------------------------------------------------------------
LEMMA TableShape ==
  ASSUME NEW t \in Tables
  PROVE  /\ t.count \in Counts /\ t.count \in Nat /\ t.count > 0
         /\ t.nb_elements \in Int /\ t.list \subseteq Keys
         /\ t.bucket \in [0..(t.count + NeighborhoodSize - 2) -> Cells]
         /\ t \in Sized(t.count)
         /\ Buckets(t) = 0..(t.count + NeighborhoodSize - 2)
         /\ \A b \in Buckets(t) : t.bucket[b] \in Cells
<1>1. PICK c \in Counts : t \in Sized(c)
  BY DEF Tables
<1>2. c \in Nat /\ c > 0 /\ t.count = c
  BY <1>1, CountsPositive DEF Sized
<1> QED
  BY <1>1, <1>2 DEF Sized, Buckets

(* A home is a bucket. *)
LEMMA HomeIn ==
  ASSUME NEW t \in Tables, NEW k \in Nat
  PROVE  /\ bucket_for_hash(t, k) \in 0..(t.count - 1)
         /\ bucket_for_hash(t, k) \in Buckets(t)
         /\ Cardinality(Buckets(t)) = t.count + NeighborhoodSize - 1
<1>1. t.count \in Nat /\ t.count > 0 /\ Buckets(t) = 0..(t.count + NeighborhoodSize - 2)
  BY TableShape
<1>2. k % t.count \in 0..(t.count - 1)
  BY <1>1
<1>3. NeighborhoodSize \in Nat /\ NeighborhoodSize >= 4
  BY TableAssumption
<1>4. Cardinality(0..(t.count + NeighborhoodSize - 2)) = t.count + NeighborhoodSize - 1
  <2>1. t.count + NeighborhoodSize - 2 \in Int /\ 0 <= t.count + NeighborhoodSize - 2
    BY <1>1, <1>3
  <2>2. Cardinality(0..(t.count + NeighborhoodSize - 2)) = (t.count + NeighborhoodSize - 2) - 0 + 1
    BY <2>1, FS_Interval
  <2> QED
    BY <1>1, <1>3, <2>2
<1> QED
  BY <1>1, <1>2, <1>3, <1>4 DEF bucket_for_hash

LEMMA KeysAre ==
  ASSUME NEW k \in Keys
  PROVE  k \in Nat /\ k # None
BY TableAssumption DEF None

LEMMA PlacedFinite ==
  ASSUME NEW t \in Tables
  PROVE  /\ IsFiniteSet(Placed(t)) /\ Cardinality(Placed(t)) \in Nat
         /\ IsFiniteSet(t.list) /\ Cardinality(t.list) \in Nat
<1>1. t.count \in Nat /\ Buckets(t) = 0..(t.count + NeighborhoodSize - 2) /\ t.list \subseteq Keys
  BY TableShape
<1>2. IsFiniteSet(Buckets(t))
  <2>1. t.count + NeighborhoodSize - 2 \in Int
    BY <1>1, TableAssumption
  <2> QED
    BY <1>1, <2>1, FS_Interval
<1>3. IsFiniteSet(Placed(t)) /\ IsFiniteSet(t.list)
  BY <1>1, <1>2, TableAssumption, FS_Subset DEF Placed
<1> QED
  BY <1>3, FS_CardinalityType

(* u has the buckets of t. *)
Alike(t, u) ==
  u \in Tables /\ u.count = t.count /\ Buckets(u) = Buckets(t)

LEMMA PlacedAre ==
  ASSUME NEW t \in Tables, NEW b \in Placed(t)
  PROVE  /\ b \in Buckets(t) /\ Value(t, b) \in Keys
         /\ bucket_for_hash(t, Value(t, b)) \in Buckets(t)
<1>1. b \in Buckets(t) /\ t.bucket[b] \in Cells /\ Value(t, b) # None
  BY TableShape DEF Placed
<1>2. Value(t, b) \in Keys
  BY <1>1 DEF Value, Cells
<1> QED
  BY <1>1, <1>2, KeysAre, HomeIn

-----------------------------------------------------------------------------
(* What the operations leave in each field of a table.                      *)

Update(t, l, B, n) ==
  [[[t EXCEPT !.list = l] EXCEPT !.bucket = B] EXCEPT !.nb_elements = n]

LEMMA UpdateFields ==
  ASSUME NEW t \in Tables, NEW B \in [0..(t.count + NeighborhoodSize - 2) -> Cells],
         NEW n \in Int, NEW l \in SUBSET Keys,
         NEW u, u = Update(t, l, B, n)
  PROVE  /\ Alike(t, u) /\ u.count = t.count /\ u.nb_elements = n /\ u.list = l
         /\ u.bucket = B
<1> DEFINE v == [t EXCEPT !.list = l]
           w == [v EXCEPT !.bucket = B]
<1>1. t.count \in Counts /\ t \in Sized(t.count) /\ Buckets(t) = 0..(t.count + NeighborhoodSize - 2)
  BY TableShape
<1>2. v \in Sized(t.count) /\ v.list = l
  BY <1>1 DEF Sized
<1>3. w \in Sized(t.count) /\ w.list = l /\ w.bucket = B
  <2> HIDE DEF v
  <2> QED
    BY <1>2 DEF Sized
<1>4. /\ u \in Sized(t.count) /\ u.list = l /\ u.bucket = B /\ u.nb_elements = n
  <2>1. u = [w EXCEPT !.nb_elements = n]
    BY DEF Update
  <2> HIDE DEF w
  <2> QED
    BY <1>3, <2>1 DEF Sized
<1>5. u.count = t.count /\ u.bucket \in [0..(t.count + NeighborhoodSize - 2) -> Cells]
  BY <1>4 DEF Sized
<1> QED
  BY <1>1, <1>4, <1>5 DEF Alike, Tables, Buckets

LEMMA ToggleFields ==
  ASSUME NEW t \in Tables, NEW h \in Buckets(t), NEW o \in Int,
         NEW u, u = toggle_neighbor_presence(t, h, o)
  PROVE  /\ Alike(t, u) /\ u.list = t.list /\ u.nb_elements = t.nb_elements
         /\ \A b \in Buckets(t) :
              /\ Value(u, b) = Value(t, b) /\ u.bucket[b].overflow = t.bucket[b].overflow
              /\ b # h => u.bucket[b].neighbors = t.bucket[b].neighbors
         /\ u.bucket[h].neighbors = (t.bucket[h].neighbors \ {o}) \cup ({o} \ t.bucket[h].neighbors)
<1> DEFINE nb == (t.bucket[h].neighbors \ {o}) \cup ({o} \ t.bucket[h].neighbors)
           cell == [t.bucket[h] EXCEPT !.neighbors = nb]
           B == [t.bucket EXCEPT ![h] = cell]
<1>1. /\ t.count \in Counts /\ t \in Sized(t.count)
      /\ t.bucket \in [0..(t.count + NeighborhoodSize - 2) -> Cells]
      /\ Buckets(t) = 0..(t.count + NeighborhoodSize - 2)
      /\ t.bucket[h] \in Cells
  BY TableShape
<1>2. u = [t EXCEPT !.bucket = B]
  BY DEF toggle_neighbor_presence
<1>3. /\ cell \in Cells /\ cell.neighbors = nb /\ cell.value = t.bucket[h].value
      /\ cell.overflow = t.bucket[h].overflow
  BY <1>1 DEF Cells
<1>4. /\ B \in [0..(t.count + NeighborhoodSize - 2) -> Cells]
      /\ B[h] = cell /\ \A b \in Buckets(t) : b # h => B[b] = t.bucket[b]
  <2> HIDE DEF cell
  <2> QED
    BY <1>1, <1>3
<1>5. /\ u.count = t.count /\ u.nb_elements = t.nb_elements /\ u.list = t.list
      /\ u.bucket = B /\ u \in Sized(t.count)
  <2> HIDE DEF B
  <2> QED
    BY <1>1, <1>2, <1>4 DEF Sized
<1>6. u \in Tables /\ Buckets(u) = Buckets(t)
  BY <1>1, <1>4, <1>5 DEF Tables, Buckets
<1> HIDE DEF cell, B
<1> QED
  BY <1>3, <1>4, <1>5, <1>6 DEF Alike, Value

LEMMA MoveFields ==
  ASSUME NEW t \in Tables, NEW a \in Buckets(t), NEW e \in Buckets(t), a # e,
         NEW u, u = MoveValue(t, a, e)
  PROVE  /\ Alike(t, u) /\ u.list = t.list /\ u.nb_elements = t.nb_elements
         /\ Value(u, e) = Value(t, a) /\ Value(u, a) = None
         /\ \A b \in Buckets(t) :
              /\ b \notin {a, e} => Value(u, b) = Value(t, b)
              /\ u.bucket[b].overflow = t.bucket[b].overflow
              /\ u.bucket[b].neighbors = t.bucket[b].neighbors
<1> DEFINE full == [t.bucket[e] EXCEPT !.value = t.bucket[a].value]
           free == [t.bucket[a] EXCEPT !.value = None]
           B == [[t.bucket EXCEPT ![e] = full] EXCEPT ![a] = free]
<1>1. /\ t.count \in Counts /\ t \in Sized(t.count)
      /\ t.bucket \in [0..(t.count + NeighborhoodSize - 2) -> Cells]
      /\ Buckets(t) = 0..(t.count + NeighborhoodSize - 2)
      /\ t.bucket[a] \in Cells /\ t.bucket[e] \in Cells
  BY TableShape
<1>2. u = [t EXCEPT !.bucket = B]
  <2>1. u = [t EXCEPT !.bucket[e].value = t.bucket[a].value, !.bucket[a].value = None]
    BY DEF MoveValue
  <2>2. [t.bucket EXCEPT ![e] = full][a] = t.bucket[a]
    BY <1>1
  <2> QED
    BY <1>1, <2>1, <2>2 DEF Sized
<1>3. /\ full \in Cells /\ full.value = t.bucket[a].value
      /\ full.neighbors = t.bucket[e].neighbors /\ full.overflow = t.bucket[e].overflow
      /\ free \in Cells /\ free.value = None
      /\ free.neighbors = t.bucket[a].neighbors /\ free.overflow = t.bucket[a].overflow
  BY <1>1 DEF Cells
<1>4. /\ B \in [0..(t.count + NeighborhoodSize - 2) -> Cells]
      /\ B[e] = full /\ B[a] = free
      /\ \A b \in Buckets(t) : b \notin {a, e} => B[b] = t.bucket[b]
  <2> HIDE DEF full, free
  <2> QED
    BY <1>1, <1>3
<1>5. /\ u.count = t.count /\ u.nb_elements = t.nb_elements /\ u.list = t.list
      /\ u.bucket = B /\ u \in Sized(t.count)
  <2> HIDE DEF B
  <2> QED
    BY <1>1, <1>2, <1>4 DEF Sized
<1>6. u \in Tables /\ Buckets(u) = Buckets(t)
  BY <1>1, <1>4, <1>5 DEF Tables, Buckets
<1> HIDE DEF full, free, B
<1> QED
  BY <1>3, <1>4, <1>5, <1>6 DEF Alike, Value

(* A home has its own keys, and no others, in what it knows. *)
LEMMA ExactIn ==
  ASSUME NEW t \in Tables, Exact(t), Near(t), NEW h \in Buckets(t), NEW o \in t.bucket[h].neighbors
  PROVE  /\ o \in 0..(NeighborhoodSize - 1) /\ h + o \in Placed(t)
         /\ bucket_for_hash(t, Value(t, h + o)) = h
<1>1. t.bucket[h] \in Cells /\ h \in Int
  BY TableShape, TableAssumption
<1>2. o \in Int
  BY <1>1 DEF Cells
<1>3. h + o \in Placed(t) /\ bucket_for_hash(t, Value(t, h + o)) = h
  BY <1>2 DEF Exact
<1>4. (h + o) - h \in 0..(NeighborhoodSize - 1)
  BY <1>3 DEF Near
<1> QED
  BY <1>1, <1>2, <1>3, <1>4

(* The search in the buckets finds where the key is. *)
LEMMA FindsInBuckets ==
  ASSUME NEW t, Good(t), NEW k \in Keys
  PROVE  FindInBuckets(t, k) = {b \in Placed(t) : Value(t, b) = k}
<1> DEFINE home == bucket_for_hash(t, k)
<1>1. t \in Tables /\ Exact(t) /\ Near(t)
  BY DEF Good
<1>2. k \in Nat /\ k # None /\ home \in Buckets(t) /\ home \in Nat
  BY <1>1, KeysAre, HomeIn
<1>3. FindInBuckets(t, k) =
        {home + i : i \in {o \in t.bucket[home].neighbors : t.bucket[home + o].value = k}}
  BY DEF FindInBuckets
<1>4. ASSUME NEW o \in t.bucket[home].neighbors, t.bucket[home + o].value = k
      PROVE  home + o \in Placed(t) /\ Value(t, home + o) = k
  <2> HIDE DEF home
  <2> QED
    BY <1>1, <1>2, <1>4, ExactIn DEF Value
<1>5. ASSUME NEW b \in Placed(t), Value(t, b) = k
      PROVE  \E o \in t.bucket[home].neighbors : t.bucket[home + o].value = k /\ b = home + o
  <2>1. b \in Int /\ b - home \in Int /\ home + (b - home) = b
    BY <1>1, <1>2, PlacedAre, TableShape, TableAssumption
  <2>2. b - home \in t.bucket[home].neighbors
    BY <2>1, <1>1, <1>2, <1>5 DEF Exact
  <2> QED
    BY <2>1, <2>2, <1>5 DEF Value
<1> HIDE DEF home
<1> QED
  BY <1>3, <1>4, <1>5

(* A lookup finds exactly the keys that are in the table. *)
LEMMA FindsAll ==
  ASSUME NEW t, Good(t), NEW k \in Keys
  PROVE  Find(t, k) <=> k \in All(t)
<1>1. FindInBuckets(t, k) = {b \in Placed(t) : Value(t, b) = k}
  BY FindsInBuckets
<1>2. FindInBuckets(t, k) # {} <=> k \in InBuckets(t)
  BY <1>1 DEF InBuckets
<1>3. t \in Tables /\ Told(t) /\ k \in Nat
  BY KeysAre DEF Good
<1>4. bucket_for_hash(t, k) \in Buckets(t)
  BY <1>3, HomeIn
<1>5. k \in t.list => t.bucket[bucket_for_hash(t, k)].overflow
  BY <1>3, <1>4 DEF Told
<1> QED
  BY <1>2, <1>5 DEF Find, All

-----------------------------------------------------------------------------
(* A key goes into a bucket near its home. *)
LEMMA InsertsInBucket ==
  ASSUME NEW t, Good(t), NEW k \in Keys, k \notin All(t), ~Overloaded(t),
         NEW e \in Buckets(t) \ Placed(t),
         e - bucket_for_hash(t, k) \in 0..(NeighborhoodSize - 1),
         NEW u, u = InsertInBucket(t, k, e)
  PROVE  Good(u) /\ All(u) = All(t) \cup {k} /\ u.list = t.list /\ u.count = t.count
<1> DEFINE home == bucket_for_hash(t, k)
           s == [t EXCEPT !.bucket[e].value = k, !.nb_elements = @ + 1]
<1>1. /\ t \in Tables /\ Exact(t) /\ Near(t) /\ Told(t) /\ Once(t) /\ Counted(t) /\ Loaded(t)
      /\ k \in Nat /\ k # None /\ e \in Buckets(t)
  BY KeysAre DEF Good
<1>2. /\ t.count \in Counts /\ t \in Sized(t.count) /\ t.count \in Nat /\ t.nb_elements \in Int
      /\ t.bucket \in [0..(t.count + NeighborhoodSize - 2) -> Cells]
      /\ Buckets(t) = 0..(t.count + NeighborhoodSize - 2)
      /\ t.bucket[e] \in Cells
      /\ home \in Buckets(t)
  BY <1>1, TableShape, HomeIn
<1>3. /\ Alike(t, s) /\ s.list = t.list /\ s.nb_elements = t.nb_elements + 1
      /\ Value(s, e) = k
      /\ \A b \in Buckets(t) :
           /\ b # e => Value(s, b) = Value(t, b)
           /\ s.bucket[b].overflow = t.bucket[b].overflow
           /\ s.bucket[b].neighbors = t.bucket[b].neighbors
  <2> DEFINE cell == [t.bucket[e] EXCEPT !.value = k]
             B == [t.bucket EXCEPT ![e] = cell]
  <2>1. s = Update(t, t.list, B, t.nb_elements + 1)
    BY <1>2 DEF Sized, Update
  <2>2. /\ cell \in Cells /\ cell.value = k
        /\ cell.neighbors = t.bucket[e].neighbors /\ cell.overflow = t.bucket[e].overflow
    BY <1>2 DEF Cells
  <2>3. /\ B \in [0..(t.count + NeighborhoodSize - 2) -> Cells]
        /\ B[e] = cell /\ \A b \in Buckets(t) : b # e => B[b] = t.bucket[b]
    <3> HIDE DEF cell
    <3> QED
      BY <1>2, <2>2
  <2>4. /\ Alike(t, s) /\ s.nb_elements = t.nb_elements + 1 /\ s.list = t.list
        /\ s.bucket = B
    <3>1. t.nb_elements + 1 \in Int /\ t.list \in SUBSET Keys
      BY <1>1, <1>2, TableShape
    <3> HIDE DEF B, s
    <3> QED
      BY <1>1, <2>1, <2>3, <3>1, UpdateFields
  <2> HIDE DEF s, cell, B
  <2> QED
    BY <2>2, <2>3, <2>4 DEF Value
<1>4. u = toggle_neighbor_presence(s, home, e - home)
  BY DEF InsertInBucket
<1>5. e - home \in Int /\ home \in Buckets(s) /\ s \in Tables
  BY <1>2, <1>3, TableAssumption DEF Alike
<1>6. /\ Alike(s, u) /\ u.list = s.list /\ u.nb_elements = s.nb_elements
      /\ \A b \in Buckets(s) :
           /\ Value(u, b) = Value(s, b) /\ u.bucket[b].overflow = s.bucket[b].overflow
           /\ b # home => u.bucket[b].neighbors = s.bucket[b].neighbors
      /\ u.bucket[home].neighbors =
           (s.bucket[home].neighbors \ {e - home}) \cup ({e - home} \ s.bucket[home].neighbors)
  <2> HIDE DEF home, s
  <2> QED
    BY <1>4, <1>5, ToggleFields
<1> HIDE DEF home, s
<1>7. /\ u \in Tables /\ u.count = t.count /\ Buckets(u) = Buckets(t)
      /\ u.list = t.list /\ u.nb_elements = t.nb_elements + 1
      /\ Value(u, e) = k /\ \A b \in Buckets(t) : b # e => Value(u, b) = Value(t, b)
      /\ \A b \in Buckets(t) : u.bucket[b].overflow = t.bucket[b].overflow
      /\ \A b \in Buckets(t) : b # home => u.bucket[b].neighbors = t.bucket[b].neighbors
  BY <1>3, <1>6 DEF Alike
<1>8. e - home \notin t.bucket[home].neighbors
  <2>1. home + (e - home) = e
    BY <1>2, TableAssumption
  <2> QED
    BY <2>1, <1>1, <1>2, <1>5 DEF Exact
<1>9. u.bucket[home].neighbors = t.bucket[home].neighbors \cup {e - home}
  BY <1>2, <1>3, <1>6, <1>8
<1>10. Placed(u) = Placed(t) \cup {e}
  BY <1>1, <1>7 DEF Placed
<1>11. \A x : bucket_for_hash(u, x) = bucket_for_hash(t, x)
  BY <1>7 DEF bucket_for_hash
<1>12. \A b \in Placed(t) : b # e /\ b \in Buckets(t) /\ Value(u, b) = Value(t, b)
  BY <1>7 DEF Placed
<1>13. bucket_for_hash(u, Value(u, e)) = home
  BY <1>7, <1>11 DEF home
<1>14. Exact(u)
  <2> SUFFICES ASSUME NEW h \in Buckets(u), NEW o \in Int
               PROVE  o \in u.bucket[h].neighbors
                        <=> h + o \in Placed(u) /\ bucket_for_hash(u, Value(u, h + o)) = h
    BY DEF Exact
  <2>1. h \in Buckets(t) /\ h \in Int /\ e \in Int /\ home \in Int
    BY <1>2, <1>7, TableAssumption
  <2>2. o \in t.bucket[h].neighbors
           <=> h + o \in Placed(t) /\ bucket_for_hash(t, Value(t, h + o)) = h
    BY <2>1, <1>1 DEF Exact
  <2>3. CASE h + o # e
    <3>1. h = home => o # e - home
      BY <2>1, <2>3
    <3>2. o \in u.bucket[h].neighbors <=> o \in t.bucket[h].neighbors
      BY <2>1, <3>1, <1>7, <1>9
    <3>3. h + o \in Placed(u) <=> h + o \in Placed(t)
      BY <2>3, <1>10
    <3> QED
      BY <2>2, <3>2, <3>3, <1>11, <1>12
  <2>4. CASE h + o = e
    <3>1. h + o \notin Placed(t) /\ h + o \in Placed(u)
      BY <2>4, <1>10
    <3>2. bucket_for_hash(u, Value(u, h + o)) = home
      BY <2>4, <1>13
    <3>3. CASE h = home
      <4>1. o = e - home
        BY <2>1, <2>4, <3>3
      <4> QED
        BY <3>1, <3>2, <3>3, <4>1, <1>9
    <3>4. CASE h # home
      BY <2>1, <2>2, <3>1, <3>2, <3>4, <1>7
    <3> QED
      BY <3>3, <3>4
  <2> QED
    BY <2>3, <2>4
<1>15. Near(u)
  <2> SUFFICES ASSUME NEW b \in Placed(u)
               PROVE  b - bucket_for_hash(u, Value(u, b)) \in 0..(NeighborhoodSize - 1)
    BY DEF Near
  <2>1. CASE b = e
    BY <2>1, <1>13 DEF home
  <2>2. CASE b # e
    BY <2>2, <1>1, <1>10, <1>11, <1>12 DEF Near
  <2> QED
    BY <2>1, <2>2
<1>16. Told(u)
  BY <1>1, <1>7, <1>11 DEF Told
<1>17. k \notin t.list /\ \A b \in Placed(t) : Value(t, b) # k
  BY DEF All, InBuckets
<1>18. Once(u)
  BY <1>1, <1>7, <1>10, <1>12, <1>17 DEF Once
<1>19. Cardinality(Placed(u)) = Cardinality(Placed(t)) + 1
  BY <1>1, <1>10, PlacedFinite, FS_AddElement
<1>20. /\ Cardinality(Placed(t)) \in Nat /\ Cardinality(t.list) \in Nat
  BY <1>1, PlacedFinite
<1>21. Counted(u)
  BY <1>1, <1>7, <1>19, <1>20 DEF Counted
<1>22. load_threshold(u) = load_threshold(t) /\ load_threshold(t) \in Int
  BY <1>2, <1>7 DEF load_threshold
<1>23. Loaded(u)
  BY <1>1, <1>2, <1>19, <1>20, <1>22 DEF Loaded, Overloaded, Counted
<1>24. All(u) = All(t) \cup {k}
  BY <1>7, <1>10, <1>12 DEF All, InBuckets
<1> QED
  BY <1>7, <1>14, <1>15, <1>16, <1>18, <1>21, <1>23, <1>24 DEF Good

(* A key goes into the list. *)
LEMMA InsertsInOverflow ==
  ASSUME NEW t, Good(t), NEW k \in Keys, k \notin All(t),
         NEW u, u = InsertInOverflow(t, k)
  PROVE  Good(u) /\ All(u) = All(t) \cup {k} /\ u.list = t.list \cup {k} /\ u.count = t.count
<1> DEFINE home == bucket_for_hash(t, k)
           cell == [t.bucket[home] EXCEPT !.overflow = TRUE]
           B == [t.bucket EXCEPT ![home] = cell]
<1>1. /\ t \in Tables /\ Exact(t) /\ Near(t) /\ Told(t) /\ Once(t) /\ Counted(t) /\ Loaded(t)
      /\ k \in Nat /\ k # None
  BY KeysAre DEF Good
<1>2. /\ t.count \in Counts /\ t \in Sized(t.count) /\ t.count \in Nat /\ t.nb_elements \in Int
      /\ t.bucket \in [0..(t.count + NeighborhoodSize - 2) -> Cells]
      /\ Buckets(t) = 0..(t.count + NeighborhoodSize - 2)
      /\ t.list \subseteq Keys
      /\ home \in Buckets(t)
      /\ t.bucket[home] \in Cells
  BY <1>1, TableShape, HomeIn
<1>3. u = Update(t, t.list \cup {k}, B, t.nb_elements + 1)
  BY <1>2 DEF InsertInOverflow, Sized, Update
<1>4. /\ cell \in Cells /\ cell.value = t.bucket[home].value
      /\ cell.neighbors = t.bucket[home].neighbors /\ cell.overflow = TRUE
  BY <1>2 DEF Cells
<1>5. /\ B \in [0..(t.count + NeighborhoodSize - 2) -> Cells]
      /\ B[home] = cell /\ \A b \in Buckets(t) : b # home => B[b] = t.bucket[b]
  <2> HIDE DEF cell
  <2> QED
    BY <1>2, <1>4
<1>6. /\ u.count = t.count /\ u.nb_elements = t.nb_elements + 1 /\ u.list = t.list \cup {k}
      /\ u.bucket = B /\ Alike(t, u)
  <2>1. t.nb_elements + 1 \in Int /\ t.list \cup {k} \in SUBSET Keys
    BY <1>2
  <2> HIDE DEF B
  <2> QED
    BY <1>1, <1>3, <1>5, <2>1, UpdateFields
<1>7. u \in Tables /\ Buckets(u) = Buckets(t)
  BY <1>6 DEF Alike
<1> HIDE DEF cell, B, home
<1>8. \A b \in Buckets(t) :
        /\ Value(u, b) = Value(t, b) /\ u.bucket[b].neighbors = t.bucket[b].neighbors
        /\ u.bucket[b].overflow <=> t.bucket[b].overflow \/ b = home
  BY <1>4, <1>5, <1>6 DEF Value
<1>9. Placed(u) = Placed(t)
  BY <1>7, <1>8 DEF Placed
<1>10. \A x : bucket_for_hash(u, x) = bucket_for_hash(t, x)
  BY <1>6 DEF bucket_for_hash
<1>11. \A b \in Placed(t) : Value(u, b) = Value(t, b)
  BY <1>8 DEF Placed
<1>12. Exact(u)
  <2> SUFFICES ASSUME NEW h \in Buckets(u), NEW o \in Int
               PROVE  o \in u.bucket[h].neighbors
                        <=> h + o \in Placed(u) /\ bucket_for_hash(u, Value(u, h + o)) = h
    BY DEF Exact
  <2>1. o \in t.bucket[h].neighbors
           <=> h + o \in Placed(t) /\ bucket_for_hash(t, Value(t, h + o)) = h
    BY <1>1, <1>7 DEF Exact
  <2> QED
    BY <2>1, <1>7, <1>8, <1>9, <1>10, <1>11
<1>13. Near(u)
  BY <1>1, <1>9, <1>10, <1>11 DEF Near
<1>14. Told(u)
  <2> SUFFICES ASSUME NEW h \in Buckets(u)
               PROVE  u.bucket[h].overflow <=> \E x \in u.list : bucket_for_hash(u, x) = h
    BY DEF Told
  <2>1. t.bucket[h].overflow <=> \E x \in t.list : bucket_for_hash(t, x) = h
    BY <1>1, <1>7 DEF Told
  <2>2. home = bucket_for_hash(t, k)
    BY DEF home
  <2> QED
    BY <2>1, <2>2, <1>6, <1>7, <1>8, <1>10
<1>15. k \notin t.list /\ \A b \in Placed(t) : Value(t, b) # k
  BY DEF All, InBuckets
<1>16. Once(u)
  BY <1>1, <1>6, <1>9, <1>11, <1>15 DEF Once
<1>17. Cardinality(u.list) = Cardinality(t.list) + 1
  BY <1>1, <1>6, <1>15, PlacedFinite, FS_AddElement
<1>18. Cardinality(Placed(t)) \in Nat /\ Cardinality(t.list) \in Nat
  BY <1>1, PlacedFinite
<1>19. Counted(u)
  BY <1>1, <1>6, <1>9, <1>17, <1>18 DEF Counted
<1>20. Loaded(u)
  BY <1>1, <1>6, <1>9 DEF Loaded, load_threshold
<1>21. All(u) = All(t) \cup {k}
  BY <1>6, <1>9, <1>11 DEF All, InBuckets
<1> QED
  BY <1>6, <1>7, <1>12, <1>13, <1>14, <1>16, <1>19, <1>20, <1>21 DEF Good

(* A key is taken out of its bucket. *)
LEMMA ErasesFromBucket ==
  ASSUME NEW t, Good(t), NEW e \in Placed(t),
         NEW u, u = EraseFromBucket(t, Value(t, e), e)
  PROVE  Good(u) /\ All(u) = All(t) \ {Value(t, e)} /\ u.list = t.list /\ u.count = t.count
<1> DEFINE k == Value(t, e)
           home == bucket_for_hash(t, k)
           s == [t EXCEPT !.bucket[e].value = None, !.nb_elements = @ - 1]
<1>1. /\ t \in Tables /\ Exact(t) /\ Near(t) /\ Told(t) /\ Once(t) /\ Counted(t) /\ Loaded(t)
      /\ e \in Buckets(t) /\ k \in Keys /\ home \in Buckets(t)
  BY PlacedAre DEF Good
<1>2. /\ t.count \in Counts /\ t \in Sized(t.count) /\ t.count \in Nat /\ t.nb_elements \in Int
      /\ t.bucket \in [0..(t.count + NeighborhoodSize - 2) -> Cells]
      /\ Buckets(t) = 0..(t.count + NeighborhoodSize - 2)
      /\ t.bucket[e] \in Cells
  BY <1>1, TableShape
<1>3. /\ Alike(t, s) /\ s.list = t.list /\ s.nb_elements = t.nb_elements - 1
      /\ Value(s, e) = None
      /\ \A b \in Buckets(t) :
           /\ b # e => Value(s, b) = Value(t, b)
           /\ s.bucket[b].overflow = t.bucket[b].overflow
           /\ s.bucket[b].neighbors = t.bucket[b].neighbors
  <2> DEFINE cell == [t.bucket[e] EXCEPT !.value = None]
             B == [t.bucket EXCEPT ![e] = cell]
  <2>1. s = Update(t, t.list, B, t.nb_elements - 1)
    BY <1>2 DEF Sized, Update
  <2>2. /\ cell \in Cells /\ cell.value = None
        /\ cell.neighbors = t.bucket[e].neighbors /\ cell.overflow = t.bucket[e].overflow
    BY <1>2 DEF Cells
  <2>3. /\ B \in [0..(t.count + NeighborhoodSize - 2) -> Cells]
        /\ B[e] = cell /\ \A b \in Buckets(t) : b # e => B[b] = t.bucket[b]
    <3> HIDE DEF cell
    <3> QED
      BY <1>2, <1>1, <2>2
  <2>4. /\ Alike(t, s) /\ s.nb_elements = t.nb_elements - 1 /\ s.list = t.list
        /\ s.bucket = B
    <3>1. t.nb_elements - 1 \in Int /\ t.list \in SUBSET Keys
      BY <1>1, <1>2, TableShape
    <3> HIDE DEF B, s
    <3> QED
      BY <1>1, <2>1, <2>3, <3>1, UpdateFields
  <2> HIDE DEF s, cell, B
  <2> QED
    BY <2>2, <2>3, <2>4 DEF Value
<1>4. u = toggle_neighbor_presence(s, home, e - home)
  BY DEF EraseFromBucket
<1>5. e - home \in Int /\ home \in Buckets(s) /\ s \in Tables
  BY <1>1, <1>2, <1>3, TableAssumption DEF Alike
<1>6. /\ Alike(s, u) /\ u.list = s.list /\ u.nb_elements = s.nb_elements
      /\ \A b \in Buckets(s) :
           /\ Value(u, b) = Value(s, b) /\ u.bucket[b].overflow = s.bucket[b].overflow
           /\ b # home => u.bucket[b].neighbors = s.bucket[b].neighbors
      /\ u.bucket[home].neighbors =
           (s.bucket[home].neighbors \ {e - home}) \cup ({e - home} \ s.bucket[home].neighbors)
  <2> HIDE DEF home, s
  <2> QED
    BY <1>4, <1>5, ToggleFields
<1> HIDE DEF home, s
<1>7. /\ u \in Tables /\ u.count = t.count /\ Buckets(u) = Buckets(t)
      /\ u.list = t.list /\ u.nb_elements = t.nb_elements - 1
      /\ Value(u, e) = None /\ \A b \in Buckets(t) : b # e => Value(u, b) = Value(t, b)
      /\ \A b \in Buckets(t) : u.bucket[b].overflow = t.bucket[b].overflow
      /\ \A b \in Buckets(t) : b # home => u.bucket[b].neighbors = t.bucket[b].neighbors
  BY <1>1, <1>3, <1>6 DEF Alike
<1>8. e - home \in t.bucket[home].neighbors
  <2>1. home + (e - home) = e
    BY <1>1, <1>2, TableAssumption
  <2> QED
    BY <2>1, <1>1, <1>2, <1>5 DEF Exact, home
<1>9. u.bucket[home].neighbors = t.bucket[home].neighbors \ {e - home}
  BY <1>1, <1>2, <1>3, <1>6, <1>8
<1>10. Placed(u) = Placed(t) \ {e}
  BY <1>1, <1>7 DEF Placed
<1>11. \A x : bucket_for_hash(u, x) = bucket_for_hash(t, x)
  BY <1>7 DEF bucket_for_hash
<1>12. \A b \in Placed(u) : b # e /\ b \in Placed(t) /\ Value(u, b) = Value(t, b)
  BY <1>7, <1>10 DEF Placed
<1>13. Exact(u)
  <2> SUFFICES ASSUME NEW h \in Buckets(u), NEW o \in Int
               PROVE  o \in u.bucket[h].neighbors
                        <=> h + o \in Placed(u) /\ bucket_for_hash(u, Value(u, h + o)) = h
    BY DEF Exact
  <2>1. h \in Buckets(t) /\ h \in Int /\ e \in Int /\ home \in Int
    BY <1>1, <1>2, <1>7, TableAssumption
  <2>2. o \in t.bucket[h].neighbors
           <=> h + o \in Placed(t) /\ bucket_for_hash(t, Value(t, h + o)) = h
    BY <2>1, <1>1 DEF Exact
  <2>3. CASE h + o # e
    <3>1. h = home => o # e - home
      BY <2>1, <2>3
    <3>2. o \in u.bucket[h].neighbors <=> o \in t.bucket[h].neighbors
      BY <2>1, <3>1, <1>7, <1>9
    <3>3. h + o \in Placed(u) <=> h + o \in Placed(t)
      BY <2>3, <1>10
    <3> QED
      BY <2>2, <3>2, <3>3, <1>11, <1>12
  <2>4. CASE h + o = e
    <3>1. h + o \notin Placed(u)
      BY <2>4, <1>10
    <3>2. CASE h = home
      <4>1. o = e - home
        BY <2>1, <2>4, <3>2
      <4> QED
        BY <3>1, <3>2, <4>1, <1>9
    <3>3. CASE h # home
      <4>1. bucket_for_hash(t, Value(t, h + o)) = home
        BY <2>4 DEF home
      <4> QED
        BY <2>1, <2>2, <3>1, <3>3, <4>1, <1>7
    <3> QED
      BY <3>2, <3>3
  <2> QED
    BY <2>3, <2>4
<1>14. Near(u)
  BY <1>1, <1>11, <1>12 DEF Near
<1>15. Told(u)
  BY <1>1, <1>7, <1>11 DEF Told
<1>16. Once(u)
  BY <1>1, <1>7, <1>12 DEF Once
<1>17. Cardinality(Placed(u)) = Cardinality(Placed(t)) - 1
  BY <1>1, <1>10, PlacedFinite, FS_RemoveElement
<1>18. Cardinality(Placed(t)) \in Nat /\ Cardinality(t.list) \in Nat
  BY <1>1, PlacedFinite
<1>19. Counted(u)
  BY <1>1, <1>7, <1>17, <1>18 DEF Counted
<1>20. load_threshold(u) = load_threshold(t) /\ load_threshold(t) \in Int
  BY <1>2, <1>7 DEF load_threshold
<1>21. Loaded(u)
  BY <1>1, <1>17, <1>18, <1>20 DEF Loaded
<1>22. All(u) = All(t) \ {k}
  <2>1. \A b \in Placed(u) : Value(t, b) # k
    BY <1>1, <1>12 DEF Once
  <2>2. k \notin t.list
    BY <1>1 DEF Once
  <2>3. \A b \in Placed(t) : Value(t, b) # k => b \in Placed(u)
    BY <1>10
  <2> HIDE DEF k
  <2> QED
    BY <2>1, <2>2, <2>3, <1>7, <1>12 DEF All, InBuckets
<1> QED
  BY <1>7, <1>13, <1>14, <1>15, <1>16, <1>19, <1>21, <1>22 DEF Good

(* A key is taken out of the list. *)
LEMMA ErasesFromOverflow ==
  ASSUME NEW t, Good(t), NEW k \in t.list,
         NEW u, u = EraseFromOverflow(t, k)
  PROVE  Good(u) /\ All(u) = All(t) \ {k} /\ u.list = t.list \ {k} /\ u.count = t.count
<1> DEFINE home == bucket_for_hash(t, k)
           still == \E x \in t.list \ {k} : bucket_for_hash(t, x) = home
           cell == [t.bucket[home] EXCEPT !.overflow = still]
           B == [t.bucket EXCEPT ![home] = cell]
<1>1. /\ t \in Tables /\ Exact(t) /\ Near(t) /\ Told(t) /\ Once(t) /\ Counted(t) /\ Loaded(t)
      /\ k \in Keys /\ k \in Nat /\ k # None
  BY TableShape, KeysAre DEF Good
<1>2. /\ t.count \in Counts /\ t \in Sized(t.count) /\ t.count \in Nat /\ t.nb_elements \in Int
      /\ t.bucket \in [0..(t.count + NeighborhoodSize - 2) -> Cells]
      /\ Buckets(t) = 0..(t.count + NeighborhoodSize - 2)
      /\ t.list \subseteq Keys
      /\ home \in Buckets(t)
      /\ t.bucket[home] \in Cells
  BY <1>1, TableShape, HomeIn
<1>3. u = Update(t, t.list \ {k}, B, t.nb_elements - 1)
  <2>1. u = [t EXCEPT !.list = @ \ {k}, !.nb_elements = @ - 1, !.bucket[home].overflow = still]
    BY DEF EraseFromOverflow
  <2> HIDE DEF still
  <2>2. u = [[[t EXCEPT !.list = t.list \ {k}] EXCEPT !.nb_elements = t.nb_elements - 1]
               EXCEPT !.bucket = B]
    BY <1>2, <2>1 DEF Sized
  <2> HIDE DEF B
  <2> QED
    BY <1>2, <2>2 DEF Sized, Update
<1>4. /\ cell \in Cells /\ cell.value = t.bucket[home].value
      /\ cell.neighbors = t.bucket[home].neighbors /\ cell.overflow = still
  <2>1. still \in BOOLEAN
    OBVIOUS
  <2> HIDE DEF still
  <2> QED
    BY <1>2, <2>1 DEF Cells
<1>5. /\ B \in [0..(t.count + NeighborhoodSize - 2) -> Cells]
      /\ B[home] = cell /\ \A b \in Buckets(t) : b # home => B[b] = t.bucket[b]
  <2> HIDE DEF cell
  <2> QED
    BY <1>2, <1>4
<1>6. /\ u.count = t.count /\ u.nb_elements = t.nb_elements - 1 /\ u.list = t.list \ {k}
      /\ u.bucket = B /\ Alike(t, u)
  <2>1. t.nb_elements - 1 \in Int /\ t.list \ {k} \in SUBSET Keys
    BY <1>2
  <2> HIDE DEF B
  <2> QED
    BY <1>1, <1>3, <1>5, <2>1, UpdateFields
<1>7. u \in Tables /\ Buckets(u) = Buckets(t)
  BY <1>6 DEF Alike
<1>8. \A x : bucket_for_hash(u, x) = bucket_for_hash(t, x)
  BY <1>6 DEF bucket_for_hash
<1>9. still <=> \E x \in u.list : bucket_for_hash(u, x) = home
  <2> HIDE DEF B, home
  <2> QED
    BY <1>6, <1>8
<1> HIDE DEF still, cell, B
<1>10. \A b \in Buckets(t) :
         /\ Value(u, b) = Value(t, b) /\ u.bucket[b].neighbors = t.bucket[b].neighbors
         /\ b # home => u.bucket[b].overflow = t.bucket[b].overflow
  <2> HIDE DEF home
  <2> QED
    BY <1>4, <1>5, <1>6 DEF Value
<1>11. u.bucket[home].overflow = still
  BY <1>4, <1>5, <1>6
<1>12. Placed(u) = Placed(t)
  BY <1>7, <1>10 DEF Placed
<1>13. \A b \in Placed(t) : Value(u, b) = Value(t, b)
  BY <1>10 DEF Placed
<1>14. Exact(u)
  <2> SUFFICES ASSUME NEW h \in Buckets(u), NEW o \in Int
               PROVE  o \in u.bucket[h].neighbors
                        <=> h + o \in Placed(u) /\ bucket_for_hash(u, Value(u, h + o)) = h
    BY DEF Exact
  <2>1. o \in t.bucket[h].neighbors
           <=> h + o \in Placed(t) /\ bucket_for_hash(t, Value(t, h + o)) = h
    BY <1>1, <1>7 DEF Exact
  <2> QED
    BY <2>1, <1>7, <1>8, <1>10, <1>12, <1>13
<1>15. Near(u)
  BY <1>1, <1>8, <1>12, <1>13 DEF Near
<1>16. Told(u)
  <2> SUFFICES ASSUME NEW h \in Buckets(u)
               PROVE  u.bucket[h].overflow <=> \E x \in u.list : bucket_for_hash(u, x) = h
    BY DEF Told
  <2>1. t.bucket[h].overflow <=> \E x \in t.list : bucket_for_hash(t, x) = h
    BY <1>1, <1>7 DEF Told
  <2>2. CASE h = home
    BY <2>2, <1>9, <1>11
  <2>3. CASE h # home
    BY <2>1, <2>3, <1>6, <1>7, <1>8, <1>10
  <2> QED
    BY <2>2, <2>3
<1>17. Once(u)
  BY <1>1, <1>6, <1>12, <1>13 DEF Once
<1>18. Cardinality(u.list) = Cardinality(t.list) - 1
  BY <1>1, <1>6, PlacedFinite, FS_RemoveElement
<1>19. Cardinality(Placed(t)) \in Nat /\ Cardinality(t.list) \in Nat
  BY <1>1, PlacedFinite
<1>20. Counted(u)
  BY <1>1, <1>6, <1>12, <1>18, <1>19 DEF Counted
<1>21. Loaded(u)
  BY <1>1, <1>6, <1>12 DEF Loaded, load_threshold
<1>22. All(u) = All(t) \ {k}
  <2>1. \A b \in Placed(t) : Value(t, b) # k
    BY <1>1 DEF Once
  <2> QED
    BY <2>1, <1>6, <1>12, <1>13 DEF All, InBuckets
<1> QED
  BY <1>6, <1>7, <1>14, <1>15, <1>16, <1>17, <1>20, <1>21, <1>22 DEF Good

(* A key goes into an empty bucket that is farther from its home. *)
LEMMA Hops ==
  ASSUME NEW t, Good(t), NEW e \in Buckets(t) \ Placed(t), NEW m \in Movable(t, e),
         NeighborhoodSize - 1 <= e,
         NEW u, u = Hop(t, e, m)
  PROVE  /\ Good(u) /\ All(u) = All(t) /\ u.list = t.list /\ u.count = t.count
         /\ u.nb_elements = t.nb_elements
         /\ m[1] + m[2] \in Buckets(u) \ Placed(u) /\ e - NeighborhoodSize + 1 <= m[1] + m[2]
<1> DEFINE c == m[1]
           o1 == m[2]
           a == m[1] + m[2]
           k == Value(t, a)
           s == MoveValue(t, a, e)
           r == toggle_neighbor_presence(s, c, e - c)
<1>1. /\ t \in Tables /\ Exact(t) /\ Near(t) /\ Told(t) /\ Once(t) /\ Counted(t) /\ Loaded(t)
      /\ e \in Buckets(t)
  BY DEF Good
<1>2. /\ t.count \in Nat /\ Buckets(t) = 0..(t.count + NeighborhoodSize - 2)
      /\ NeighborhoodSize \in Nat
  BY <1>1, TableShape, TableAssumption
<1>3. /\ c \in (e - NeighborhoodSize + 1)..(e - 1) /\ o1 \in 0..(NeighborhoodSize - 1)
      /\ o1 \in t.bucket[c].neighbors /\ a < e
  BY DEF Movable
<1>4. c \in Buckets(t) /\ a \in Buckets(t) /\ a # e /\ e - c \in Int /\ e - c # o1
      /\ c \in Int /\ o1 \in Int /\ e \in Int /\ a \in Int /\ a - c = o1
  BY <1>1, <1>2, <1>3
<1>5. a \in Placed(t) /\ bucket_for_hash(t, k) = c
  BY <1>1, <1>3, <1>4, ExactIn
<1> HIDE DEF c, o1, a, s, r
<1>6. /\ Alike(t, s) /\ s.list = t.list /\ s.nb_elements = t.nb_elements
      /\ Value(s, e) = k /\ Value(s, a) = None
      /\ \A b \in Buckets(t) :
           /\ b \notin {a, e} => Value(s, b) = Value(t, b)
           /\ s.bucket[b].overflow = t.bucket[b].overflow
           /\ s.bucket[b].neighbors = t.bucket[b].neighbors
  <2>1. s = MoveValue(t, a, e)
    BY DEF s
  <2> QED
    BY <2>1, <1>1, <1>4, MoveFields
<1>7. s \in Tables /\ c \in Buckets(s)
  BY <1>4, <1>6 DEF Alike
<1>8. /\ Alike(s, r) /\ r.list = s.list /\ r.nb_elements = s.nb_elements
      /\ \A b \in Buckets(s) :
           /\ Value(r, b) = Value(s, b) /\ r.bucket[b].overflow = s.bucket[b].overflow
           /\ b # c => r.bucket[b].neighbors = s.bucket[b].neighbors
      /\ r.bucket[c].neighbors =
           (s.bucket[c].neighbors \ {e - c}) \cup ({e - c} \ s.bucket[c].neighbors)
  <2>1. r = toggle_neighbor_presence(s, c, e - c)
    BY DEF r
  <2> QED
    BY <2>1, <1>4, <1>7, ToggleFields
<1>9. u = toggle_neighbor_presence(r, c, o1)
  BY DEF Hop, s, r, c, o1, a
<1>10. r \in Tables /\ c \in Buckets(r)
  BY <1>7, <1>8 DEF Alike
<1>11. /\ Alike(r, u) /\ u.list = r.list /\ u.nb_elements = r.nb_elements
       /\ \A b \in Buckets(r) :
            /\ Value(u, b) = Value(r, b) /\ u.bucket[b].overflow = r.bucket[b].overflow
            /\ b # c => u.bucket[b].neighbors = r.bucket[b].neighbors
       /\ u.bucket[c].neighbors =
            (r.bucket[c].neighbors \ {o1}) \cup ({o1} \ r.bucket[c].neighbors)
  BY <1>4, <1>9, <1>10, ToggleFields
<1>12. /\ u \in Tables /\ u.count = t.count /\ Buckets(u) = Buckets(t)
       /\ u.list = t.list /\ u.nb_elements = t.nb_elements
       /\ Value(u, e) = k /\ Value(u, a) = None
       /\ \A b \in Buckets(t) : b \notin {a, e} => Value(u, b) = Value(t, b)
       /\ \A b \in Buckets(t) : u.bucket[b].overflow = t.bucket[b].overflow
       /\ \A b \in Buckets(t) : b # c => u.bucket[b].neighbors = t.bucket[b].neighbors
  BY <1>1, <1>4, <1>6, <1>8, <1>11 DEF Alike
<1>13. e - c \notin t.bucket[c].neighbors
  <2>1. c + (e - c) = e
    BY <1>4
  <2> QED
    BY <2>1, <1>1, <1>4 DEF Exact
<1>14. u.bucket[c].neighbors = (t.bucket[c].neighbors \cup {e - c}) \ {o1}
  <2>1. s.bucket[c].neighbors = t.bucket[c].neighbors
    BY <1>4, <1>6
  <2>2. r.bucket[c].neighbors = t.bucket[c].neighbors \cup {e - c}
    BY <2>1, <1>8, <1>13
  <2>3. o1 \in r.bucket[c].neighbors
    BY <2>2, <1>3
  <2> QED
    BY <2>2, <2>3, <1>11
<1>15. k # None /\ k \in Keys
  BY <1>1, <1>5, PlacedAre DEF Placed
<1>16. Placed(u) = (Placed(t) \ {a}) \cup {e}
  <2> HIDE DEF k
  <2> QED
    BY <1>1, <1>12, <1>15 DEF Placed
<1>17. \A x : bucket_for_hash(u, x) = bucket_for_hash(t, x)
  BY <1>12 DEF bucket_for_hash
<1>18. \A b \in Placed(t) : b # e /\ (b # a => Value(u, b) = Value(t, b))
  BY <1>12 DEF Placed
<1>19. bucket_for_hash(u, Value(u, e)) = c
  BY <1>5, <1>12, <1>17
<1>20. Exact(u)
  <2> SUFFICES ASSUME NEW h \in Buckets(u), NEW o \in Int
               PROVE  o \in u.bucket[h].neighbors
                        <=> h + o \in Placed(u) /\ bucket_for_hash(u, Value(u, h + o)) = h
    BY DEF Exact
  <2>1. h \in Buckets(t) /\ h \in Int
    BY <1>2, <1>12
  <2>2. o \in t.bucket[h].neighbors
           <=> h + o \in Placed(t) /\ bucket_for_hash(t, Value(t, h + o)) = h
    BY <2>1, <1>1 DEF Exact
  <2>3. CASE h + o \notin {a, e}
    <3>1. h = c => o # e - c /\ o # o1
      BY <2>1, <2>3, <1>4
    <3>2. o \in u.bucket[h].neighbors <=> o \in t.bucket[h].neighbors
      <4>1. CASE h = c
        BY <3>1, <4>1, <1>14
      <4>2. CASE h # c
        BY <4>2, <2>1, <1>12
      <4> QED
        BY <4>1, <4>2
    <3>3. h + o \in Placed(u) <=> h + o \in Placed(t)
      BY <2>3, <1>16
    <3> QED
      BY <2>2, <2>3, <3>2, <3>3, <1>17, <1>18
  <2>4. CASE h + o = e
    <3>1. h + o \notin Placed(t) /\ h + o \in Placed(u)
      BY <2>4, <1>16
    <3>2. bucket_for_hash(u, Value(u, h + o)) = c
      BY <2>4, <1>19
    <3>3. CASE h = c
      <4>1. o = e - c /\ o # o1
        BY <2>1, <2>4, <3>3, <1>4
      <4> QED
        BY <3>1, <3>2, <3>3, <4>1, <1>14
    <3>4. CASE h # c
      BY <2>1, <2>2, <3>1, <3>2, <3>4, <1>12
    <3> QED
      BY <3>3, <3>4
  <2>5. CASE h + o = a
    <3>1. h + o \notin Placed(u)
      BY <2>5, <1>4, <1>16
    <3>2. bucket_for_hash(t, Value(t, h + o)) = c
      BY <2>5, <1>5
    <3>3. CASE h = c
      <4>1. o = o1
        BY <2>1, <2>5, <3>3, <1>4
      <4> QED
        BY <3>1, <3>3, <4>1, <1>14
    <3>4. CASE h # c
      BY <2>1, <2>2, <3>1, <3>2, <3>4, <1>12
    <3> QED
      BY <3>3, <3>4
  <2> QED
    BY <2>3, <2>4, <2>5
<1>21. Near(u)
  <2> SUFFICES ASSUME NEW b \in Placed(u)
               PROVE  b - bucket_for_hash(u, Value(u, b)) \in 0..(NeighborhoodSize - 1)
    BY DEF Near
  <2>1. CASE b = e
    <3>1. e - c \in 0..(NeighborhoodSize - 1)
      BY <1>2, <1>3, <1>4
    <3> QED
      BY <2>1, <3>1, <1>19
  <2>2. CASE b # e
    BY <2>2, <1>1, <1>16, <1>17, <1>18 DEF Near
  <2> QED
    BY <2>1, <2>2
<1>22. Told(u)
  BY <1>1, <1>12, <1>17 DEF Told
<1>23. Once(u)
  <2>1. \A b \in Placed(t) : b # a => Value(t, b) # k
    BY <1>1, <1>5 DEF Once
  <2>2. k \notin t.list
    BY <1>1, <1>5 DEF Once
  <2> HIDE DEF k
  <2> QED
    BY <2>1, <2>2, <1>1, <1>12, <1>16, <1>18 DEF Once
<1>24. Cardinality(Placed(u)) = Cardinality(Placed(t))
  BY <1>1, <1>5, <1>16, PlacedFinite, Exchanged
<1>25. Counted(u)
  BY <1>1, <1>12, <1>24 DEF Counted
<1>26. Loaded(u)
  BY <1>1, <1>12, <1>24 DEF Loaded, load_threshold
<1>27. All(u) = All(t)
  <2>1. InBuckets(u) \subseteq InBuckets(t)
    BY <1>5, <1>12, <1>16, <1>18 DEF InBuckets
  <2>2. InBuckets(t) \subseteq InBuckets(u)
    <3> SUFFICES ASSUME NEW b \in Placed(t)
                 PROVE  Value(t, b) \in InBuckets(u)
      BY DEF InBuckets
    <3>1. CASE b = a
      BY <3>1, <1>12, <1>16 DEF InBuckets
    <3>2. CASE b # a
      BY <3>2, <1>16, <1>18 DEF InBuckets
    <3> QED
      BY <3>1, <3>2
  <2> QED
    BY <2>1, <2>2, <1>12 DEF All
<1>28. a \in Buckets(u) \ Placed(u)
  BY <1>4, <1>12, <1>16
<1>29. e - NeighborhoodSize + 1 <= a
  BY <1>2, <1>3, <1>4
<1>30. Good(u)
  BY <1>12, <1>20, <1>21, <1>22, <1>23, <1>25, <1>26 DEF Good
<1> QED
  BY <1>12, <1>27, <1>28, <1>29, <1>30 DEF a

-----------------------------------------------------------------------------
(* A new table, and the one that a rehash begins with.                      *)

LEMMA IsNew ==
  ASSUME NEW n \in Int, WithinMaximum(n), NEW u, u = New(n)
  PROVE  /\ Good(u) /\ u.count >= n /\ u.list = {} /\ u.nb_elements = 0
         /\ \A b \in Buckets(u) : u.bucket[b] = empty_bucket
<1> DEFINE c == RoundUp(n)
           B == [b \in 0..(c + NeighborhoodSize - 2) |-> empty_bucket]
<1>1. c \in Counts /\ c >= n /\ c \in Nat /\ c > 0
  <2>1. c \in Counts /\ c >= n
    BY RoundsUp
  <2> HIDE DEF c
  <2> QED
    BY <2>1, CountsPositive
<1>2. u = [count |-> c, nb_elements |-> 0, list |-> {}, bucket |-> B]
  BY DEF New
<1>3. /\ empty_bucket \in Cells /\ empty_bucket.value = None
      /\ empty_bucket.neighbors = {} /\ empty_bucket.overflow = FALSE
  BY DEF empty_bucket, Cells
<1>4. B \in [0..(c + NeighborhoodSize - 2) -> Cells]
  BY <1>3
<1>5. /\ u.count = c /\ u.list = {} /\ u.nb_elements = 0 /\ u.bucket = B
      /\ u \in Tables /\ Buckets(u) = 0..(c + NeighborhoodSize - 2)
  <2>1. u \in Sized(c)
    <3> HIDE DEF c, B
    <3> QED
      BY <1>2, <1>4 DEF Sized
  <2>2. DOMAIN B = 0..(c + NeighborhoodSize - 2)
    OBVIOUS
  <2> HIDE DEF c, B
  <2> QED
    BY <1>1, <1>2, <2>1, <2>2 DEF Tables, Buckets
<1>6. \A b \in Buckets(u) : u.bucket[b] = empty_bucket
  BY <1>5
<1> HIDE DEF c, B
<1>7. Placed(u) = {}
  BY <1>3, <1>6 DEF Placed, Value
<1>8. Exact(u) /\ Near(u) /\ Told(u) /\ Once(u)
  BY <1>3, <1>5, <1>6, <1>7 DEF Exact, Near, Told, Once
<1>9. Counted(u) /\ Loaded(u)
  <2>1. Cardinality(Placed(u)) = 0 /\ Cardinality(u.list) = 0
    BY <1>5, <1>7, FS_EmptySet
  <2>2. (9 * c) \div 10 >= 0
    BY <1>1
  <2> QED
    BY <1>5, <2>1, <2>2 DEF Counted, Loaded, load_threshold
<1> QED
  BY <1>1, <1>5, <1>6, <1>8, <1>9 DEF Good

LEMMA DividedIsInt ==
  ASSUME NEW n \in Int
  PROVE  Divided(10 * n, 9) \in Int
BY DEF Divided

LEMMA AtLeastIs ==
  ASSUME NEW t \in Tables, NEW count \in Int
  PROVE  AtLeast(t, count) \in Int /\ AtLeast(t, count) >= count
<1> DEFINE d == Divided(10 * t.nb_elements, 9)
<1>1. d \in Int
  BY TableShape, DividedIsInt
<1>2. \E x \in {count, d} : \A y \in {count, d} : x >= y
  <2> HIDE DEF d
  <2> QED
    BY <1>1
<1> HIDE DEF d
<1>3. Max({count, d}) \in {count, d} /\ \A y \in {count, d} : Max({count, d}) >= y
  BY <1>2 DEF Max
<1> QED
  BY <1>1, <1>3 DEF AtLeast, d

LEMMA TakesOver ==
  ASSUME NEW t, Good(t), NEW count \in Int, WithinMaximum(AtLeast(t, count)),
         NEW u, u = TakeOver(t, count)
  PROVE  Good(u) /\ All(u) = t.list /\ u.list = t.list /\ u.count >= count
<1> DEFINE n == New(AtLeast(t, count))
           told(b) == \E k \in t.list : bucket_for_hash(n, k) = b
           B == [b \in DOMAIN n.bucket |-> [n.bucket[b] EXCEPT !.overflow = told(b)]]
<1>1. t \in Tables /\ t.list \subseteq Keys
  BY TableShape DEF Good
<1>2. AtLeast(t, count) \in Int /\ AtLeast(t, count) >= count
  BY <1>1, AtLeastIs
<1>3. /\ Good(n) /\ n.count >= AtLeast(t, count) /\ n.list = {}
      /\ \A b \in Buckets(n) : n.bucket[b] = empty_bucket
  BY <1>2, IsNew
<1> HIDE DEF n
<1>4. /\ n \in Tables /\ n.count \in Nat /\ n \in Sized(n.count)
      /\ n.bucket \in [0..(n.count + NeighborhoodSize - 2) -> Cells]
      /\ Buckets(n) = 0..(n.count + NeighborhoodSize - 2)
  BY <1>3, TableShape DEF Good
<1>5. Cardinality(t.list) \in Nat
  BY <1>1, PlacedFinite
<1>6. u = Update(n, t.list, B, Cardinality(t.list))
  <2>1. u = [[[n EXCEPT !.list = t.list] EXCEPT !.nb_elements = Cardinality(t.list)]
               EXCEPT !.bucket = [b \in DOMAIN n.bucket |->
                 [n.bucket[b] EXCEPT !.overflow = told(b)]]]
    BY <1>4 DEF TakeOver, n, Sized
  <2> HIDE DEF B, told
  <2> QED
    BY <2>1, <1>4 DEF Update, Sized, B
<1>7. /\ empty_bucket \in Cells /\ empty_bucket.value = None
      /\ empty_bucket.neighbors = {}
  BY DEF empty_bucket, Cells
<1>8. \A b \in Buckets(n) :
        /\ B[b] \in Cells /\ B[b].value = None /\ B[b].neighbors = {}
        /\ B[b].overflow <=> told(b)
  <2> SUFFICES ASSUME NEW b \in Buckets(n)
               PROVE  /\ B[b] \in Cells /\ B[b].value = None /\ B[b].neighbors = {}
                      /\ B[b].overflow <=> told(b)
    OBVIOUS
  <2>1. B[b] = [empty_bucket EXCEPT !.overflow = told(b)]
    BY <1>3 DEF Buckets
  <2>2. told(b) \in BOOLEAN
    OBVIOUS
  <2> HIDE DEF B, told
  <2> QED
    BY <2>1, <2>2, <1>7 DEF Cells
<1>9. B \in [0..(n.count + NeighborhoodSize - 2) -> Cells]
  <2>1. DOMAIN n.bucket = 0..(n.count + NeighborhoodSize - 2)
    BY <1>4
  <2>2. B = [b \in 0..(n.count + NeighborhoodSize - 2) |-> B[b]]
    BY <2>1
  <2> HIDE DEF B
  <2> QED
    BY <1>4, <1>8, <2>2
<1>10. /\ Alike(n, u) /\ u.count = n.count /\ u.nb_elements = Cardinality(t.list)
       /\ u.list = t.list /\ u.bucket = B
  <2> HIDE DEF B
  <2> QED
    BY <1>1, <1>4, <1>5, <1>6, <1>9, UpdateFields
<1>11. u \in Tables /\ Buckets(u) = Buckets(n)
  BY <1>10 DEF Alike
<1> HIDE DEF B
<1>12. Placed(u) = {}
  BY <1>8, <1>10, <1>11 DEF Placed, Value
<1>13. \A x : bucket_for_hash(u, x) = bucket_for_hash(n, x)
  BY <1>10 DEF bucket_for_hash
<1>14. Exact(u) /\ Near(u) /\ Once(u)
  BY <1>8, <1>10, <1>11, <1>12 DEF Exact, Near, Once
<1>15. Told(u)
  BY <1>8, <1>10, <1>11, <1>13 DEF Told
<1>16. Counted(u) /\ Loaded(u)
  <2>1. Cardinality(Placed(u)) = 0
    BY <1>12, FS_EmptySet
  <2>2. (9 * n.count) \div 10 >= 0
    BY <1>4
  <2> QED
    BY <1>5, <1>10, <2>1, <2>2 DEF Counted, Loaded, load_threshold
<1>17. All(u) = t.list
  BY <1>10, <1>12 DEF All, InBuckets
<1>18. u.count >= count
  BY <1>2, <1>3, <1>4, <1>10
<1> QED
  BY <1>10, <1>11, <1>14, <1>15, <1>16, <1>17, <1>18 DEF Good

-----------------------------------------------------------------------------
(* A table counts its keys. *)
LEMMA Size ==
  ASSUME NEW t, Good(t)
  PROVE  /\ IsFiniteSet(All(t)) /\ Cardinality(All(t)) = t.nb_elements
         /\ t.nb_elements \in Nat
         /\ t.nb_elements = Cardinality(Placed(t)) + Cardinality(t.list)
<1> DEFINE f == [b \in Placed(t) |-> Value(t, b)]
<1>1. t \in Tables /\ Once(t) /\ Counted(t)
  BY DEF Good
<1>2. /\ IsFiniteSet(Placed(t)) /\ Cardinality(Placed(t)) \in Nat
      /\ IsFiniteSet(t.list) /\ Cardinality(t.list) \in Nat
  BY <1>1, PlacedFinite
<1>3. f \in Bijection(Placed(t), InBuckets(t))
  <2>1. f \in [Placed(t) -> InBuckets(t)]
    BY DEF InBuckets
  <2>2. \A a, b \in Placed(t) : f[a] = f[b] => a = b
    BY <1>1 DEF Once
  <2>3. \A k \in InBuckets(t) : \E b \in Placed(t) : f[b] = k
    BY DEF InBuckets
  <2> HIDE DEF f
  <2> QED
    BY <2>1, <2>2, <2>3 DEF Bijection, Injection, Surjection, IsInjective
<1>4. IsFiniteSet(InBuckets(t)) /\ Cardinality(InBuckets(t)) = Cardinality(Placed(t))
  <2>1. ExistsBijection(Placed(t), InBuckets(t))
    BY <1>3 DEF ExistsBijection
  <2> QED
    BY <2>1, <1>2, FS_Bijection
<1>5. InBuckets(t) \cap t.list = {}
  BY <1>1 DEF Once, InBuckets
<1>6. /\ IsFiniteSet(InBuckets(t) \cup t.list)
      /\ Cardinality(InBuckets(t) \cup t.list) = Cardinality(InBuckets(t)) + Cardinality(t.list)
  <2>1. Cardinality(InBuckets(t) \cap t.list) = 0
    BY <1>5, FS_EmptySet
  <2>2. /\ IsFiniteSet(InBuckets(t) \cup t.list)
        /\ Cardinality(InBuckets(t) \cup t.list) =
             Cardinality(InBuckets(t)) + Cardinality(t.list) - Cardinality(InBuckets(t) \cap t.list)
    BY <1>2, <1>4, FS_Union
  <2> QED
    BY <2>1, <2>2, <1>2, <1>4
<1> QED
  BY <1>1, <1>2, <1>4, <1>6 DEF All, Counted

(* A table that is rehashed for its load has room in its buckets for a key. *)
LEMMA HasRoom ==
  ASSUME NEW t, Good(t), NEW u, Good(u), All(u) = All(t), t.list \subseteq u.list,
         u.count >= 2 * t.count
  PROVE  ~Overloaded(u)
<1>1. /\ t \in Tables /\ u \in Tables /\ Loaded(t)
      /\ t.nb_elements \in Nat /\ u.nb_elements = t.nb_elements
      /\ t.nb_elements = Cardinality(Placed(t)) + Cardinality(t.list)
  BY Size DEF Good
<1>2. /\ Cardinality(Placed(t)) \in Nat /\ Cardinality(t.list) \in Nat
      /\ Cardinality(u.list) \in Nat /\ Cardinality(t.list) <= Cardinality(u.list)
  BY <1>1, PlacedFinite, FS_Subset
<1>3. /\ t.count \in Nat /\ t.count > 0 /\ u.count \in Nat
  BY <1>1, TableShape
<1>4. (9 * t.count) \div 10 < (9 * u.count) \div 10
  BY <1>3
<1>5. (9 * t.count) \div 10 \in Int /\ (9 * u.count) \div 10 \in Int
  BY <1>3
<1>6. Cardinality(Placed(t)) <= (9 * t.count) \div 10
  BY <1>1 DEF Loaded, load_threshold
<1>7. u.nb_elements - Cardinality(u.list) < (9 * u.count) \div 10
  BY <1>1, <1>2, <1>4, <1>5, <1>6
<1> QED
  BY <1>1, <1>2, <1>5, <1>7 DEF Overloaded, load_threshold

(* Where a key can go, the search for an empty bucket begins at its home. *)
LEMMA FindsEmpty ==
  ASSUME NEW t, Good(t), NEW home \in Buckets(t), NEW e, e = FindEmpty(t, home)
  PROVE  e = Cardinality(Buckets(t)) \/ (e \in Buckets(t) \ Placed(t) /\ home <= e)
<1> DEFINE near == {b \in Buckets(t) : home <= b /\ b < home + 12 * NeighborhoodSize}
           S == {b \in near : t.bucket[b].value = None} \cup {Cardinality(Buckets(t))}
<1>1. t \in Tables /\ Buckets(t) \subseteq Nat
  <2>1. t \in Tables
    BY DEF Good
  <2> QED
    BY <2>1, TableShape, TableAssumption
<1>2. Cardinality(Buckets(t)) \in Nat
  <2>1. 0 \in Nat /\ t.count \in Nat /\ t.count > 0
    BY <1>1, TableShape
  <2> QED
    BY <2>1, <1>1, HomeIn, TableAssumption
<1>3. S \subseteq Nat /\ S # {}
  BY <1>1, <1>2
<1>4. Min(S) \in S
  <2> HIDE DEF S
  <2> QED
    BY <1>3, LeastNat
<1>5. e \in S
  BY <1>4 DEF FindEmpty
<1> QED
  BY <1>5 DEF Placed, Value

(* swap_empty_bucket_closer takes a key that can be moved. *)
LEMMA FirstIsMovable ==
  ASSUME NEW t \in Tables, NEW e \in Int, Movable(t, e) # {}
  PROVE  FirstMovable(t, e) \in Movable(t, e)
<1> DEFINE A == (e - NeighborhoodSize + 1)..(e - 1)
           C == {m[1] : m \in Movable(t, e)}
           D(c) == {m[2] : m \in {x \in Movable(t, e) : x[1] = c}}
<1>1. Movable(t, e) \subseteq A \X (0..(NeighborhoodSize - 1))
  BY DEF Movable
<1>2. NeighborhoodSize \in Nat /\ A \subseteq Int /\ \A a \in A : e - NeighborhoodSize + 1 <= a
  BY TableAssumption
<1>3. PICK c \in C : \A x \in C : c <= x
  <2>1. C \subseteq Int /\ C # {} /\ \A a \in C : e - NeighborhoodSize + 1 <= a
    BY <1>1, <1>2
  <2>2. e - NeighborhoodSize + 1 \in Int
    BY <1>2
  <2> HIDE DEF C
  <2> QED
    BY <2>1, <2>2, LeastInt
<1>4. D(c) \subseteq Nat /\ D(c) # {}
  BY <1>1, <1>2, <1>3
<1>5. PICK o \in D(c) : \A x \in D(c) : o <= x
  <2> HIDE DEF D
  <2> QED
    BY <1>4, LeastOf
<1>6. PICK m \in Movable(t, e) : m[1] = c /\ m[2] = o
  BY <1>5
<1>7. ASSUME NEW n \in Movable(t, e)
      PROVE  m[1] < n[1] \/ (m[1] = n[1] /\ m[2] <= n[2])
  <2>1. n[1] \in Int /\ c \in Int /\ c <= n[1]
    BY <1>1, <1>2, <1>3
  <2>2. n[1] = c => o <= n[2]
    BY <1>5
  <2> HIDE DEF C, D, A
  <2> QED
    BY <2>1, <2>2, <1>6
<1> QED
  BY <1>6, <1>7 DEF FirstMovable

-----------------------------------------------------------------------------
(* The rehashes that wait.                                                  *)

(* The innermost table, or what is to be inserted there, changes. *)
LEMMA ChainTop ==
  ASSUME NEW cs, NEW t, NEW k, Chain(cs, t, k), NEW u, NEW j, Awaits(u, j),
         cs # <<>> => Fills(cs[Len(cs)], u, j)
  PROVE  Chain(cs, u, j)
BY DEF Chain

(* The innermost table is rehashed. *)
LEMMA ChainPush ==
  ASSUME NEW cs, NEW t, NEW k, Chain(cs, t, k), NEW f \in Frames,
         f.old = t, f.key = k, f.key = None <=> f.back = "ready",
         f.back = "ready" => cs = <<>>,
         NEW u, Awaits(u, None), Fills(f, u, None)
  PROVE  Chain(Append(cs, f), u, None)
<1> DEFINE ds == Append(cs, f)
           n == Len(cs)
<1>1. /\ cs \in Seq(Frames) /\ n \in Nat
      /\ \A i \in 1..n : Frame(cs[i], i)
      /\ \A i \in 1..(n - 1) : Fills(cs[i], cs[i + 1].old, cs[i + 1].key)
      /\ cs # <<>> => Fills(cs[n], t, k)
      /\ Awaits(t, k)
  BY DEF Chain
<1>2. /\ ds \in Seq(Frames) /\ Len(ds) = n + 1 /\ ds[n + 1] = f /\ ds # <<>>
      /\ \A i \in 1..n : ds[i] = cs[i]
  <2>1. ds \in Seq(Frames) /\ Len(ds) = n + 1
    BY <1>1
  <2>2. ds[n + 1] = f
    BY <1>1
  <2>3. \A i \in 1..n : ds[i] = cs[i]
    BY <1>1
  <2>4. ds # <<>>
    <3> HIDE DEF ds, n
    <3> QED
      BY <2>1, <1>1
  <2> QED
    BY <2>1, <2>2, <2>3, <2>4
<1> HIDE DEF ds, n
<1>3. cs = <<>> <=> n = 0
  BY <1>1 DEF n
<1>4. Frame(f, n + 1)
  BY <1>1, <1>3 DEF Frame
<1>5. ASSUME NEW i \in 1..(n + 1)
      PROVE  Frame(ds[i], i)
  <2>1. i = n + 1 \/ i \in 1..n
    BY <1>1
  <2> QED
    BY <2>1, <1>1, <1>2, <1>4
<1>6. ASSUME NEW i \in 1..n
      PROVE  Fills(ds[i], ds[i + 1].old, ds[i + 1].key)
  <2>1. CASE i = n
    <3>1. cs # <<>> /\ ds[i + 1] = f /\ ds[i] = cs[n]
      BY <2>1, <1>1, <1>2, <1>3
    <3> QED
      BY <3>1, <1>1
  <2>2. CASE i # n
    <3>1. i \in 1..(n - 1) /\ i + 1 \in 1..n
      BY <2>2, <1>1
    <3> QED
      BY <3>1, <1>1, <1>2
  <2> QED
    BY <2>1, <2>2
<1>7. Len(ds) - 1 = n
  BY <1>1, <1>2
<1> QED
  BY <1>2, <1>5, <1>6, <1>7 DEF Chain, ds

(* The innermost rehash is over. *)
LEMMA ChainPop ==
  ASSUME NEW cs, NEW t, NEW k, Chain(cs, t, k), cs # <<>>,
         NEW j, j = cs[Len(cs)].key, Awaits(t, j),
         Len(cs) > 1 => Fills(cs[Len(cs) - 1], t, j)
  PROVE  Chain(Front(cs), t, j)
<1> DEFINE ds == Front(cs)
           n == Len(cs)
<1>1. /\ cs \in Seq(Frames) /\ n \in Nat /\ n > 0
      /\ \A i \in 1..n : Frame(cs[i], i)
      /\ \A i \in 1..(n - 1) : Fills(cs[i], cs[i + 1].old, cs[i + 1].key)
  BY DEF Chain
<1>2. /\ ds \in Seq(Frames) /\ Len(ds) = n - 1
      /\ \A i \in 1..(n - 1) : ds[i] = cs[i]
  <2>1. ds = SubSeq(cs, 1, n - 1)
    BY DEF Front
  <2>2. n - 1 \in Nat /\ n - 1 <= Len(cs)
    BY <1>1
  <2> HIDE DEF ds
  <2>3. ds \in Seq(Frames)
    BY <1>1, <2>1, <2>2
  <2>4. Len(ds) = n - 1
    <3> HIDE DEF n
    <3> QED
      BY <1>1, <2>1
  <2>5. \A i \in 1..(n - 1) : ds[i] = cs[i]
    BY <1>1, <2>1, <2>2
  <2> QED
    BY <2>3, <2>4, <2>5
<1>3. n > 1 => Fills(cs[n - 1], t, j)
  OBVIOUS
<1> HIDE DEF ds, n
<1>4. \A i \in 1..(n - 1) : Frame(ds[i], i)
  BY <1>1, <1>2
<1>5. ASSUME NEW i \in 1..((n - 1) - 1)
      PROVE  Fills(ds[i], ds[i + 1].old, ds[i + 1].key)
  <2>1. i \in 1..(n - 1) /\ i + 1 \in 1..(n - 1)
    BY <1>1
  <2> QED
    BY <2>1, <1>1, <1>2
<1>6. ASSUME ds # <<>>
      PROVE  Fills(ds[n - 1], t, j)
  <2>1. n > 1 /\ n - 1 \in 1..(n - 1)
    BY <1>1, <1>2, <1>6
  <2> QED
    BY <2>1, <1>2, <1>3
<1> QED
  BY <1>2, <1>4, <1>5, <1>6 DEF Chain, ds

(* The innermost rehash takes the next key. *)
LEMMA ChainNext ==
  ASSUME NEW cs, NEW t, NEW k, Chain(cs, t, k), cs # <<>>,
         NEW m \in Nat, NEW ds, ds = [cs EXCEPT ![Len(cs)].next = m],
         NEW j, Awaits(t, j), Fills(ds[Len(cs)], t, j)
  PROVE  Chain(ds, t, j)
<1> DEFINE n == Len(cs)
           f == [cs[n] EXCEPT !.next = m]
<1>1. /\ cs \in Seq(Frames) /\ n \in Nat /\ n > 0
      /\ \A i \in 1..n : cs[i] \in Frames /\ Frame(cs[i], i)
      /\ \A i \in 1..(n - 1) : Fills(cs[i], cs[i + 1].old, cs[i + 1].key)
  BY DEF Chain
<1>2. cs[n] \in Frames /\ n \in 1..n
  BY <1>1
<1>3. f \in Frames /\ f.old = cs[n].old /\ f.key = cs[n].key /\ f.back = cs[n].back
  <2> HIDE DEF n
  <2> QED
    BY <1>2 DEF Frames
<1>4. ds = [cs EXCEPT ![n] = f]
  OBVIOUS
<1> HIDE DEF f
<1>5. /\ ds \in Seq(Frames) /\ Len(ds) = n /\ ds # <<>> /\ ds[n] = f
      /\ \A i \in 1..n : i # n => ds[i] = cs[i]
  BY <1>1, <1>2, <1>3, <1>4
<1> HIDE DEF n
<1>6. ASSUME NEW i \in 1..n
      PROVE  Frame(ds[i], i)
  <2>1. Frame(cs[i], i)
    BY <1>1
  <2>2. CASE i = n
    BY <2>1, <2>2, <1>3, <1>5 DEF Frame
  <2>3. CASE i # n
    BY <2>1, <2>3, <1>5
  <2> QED
    BY <2>2, <2>3
<1>7. ASSUME NEW i \in 1..(n - 1)
      PROVE  Fills(ds[i], ds[i + 1].old, ds[i + 1].key)
  <2>1. i \in 1..n /\ i # n /\ i + 1 \in 1..n
    BY <1>1
  <2>2. Fills(cs[i], cs[i + 1].old, cs[i + 1].key) /\ ds[i] = cs[i]
    BY <2>1, <1>1, <1>5
  <2>3. ds[i + 1].old = cs[i + 1].old /\ ds[i + 1].key = cs[i + 1].key
    BY <2>1, <1>3, <1>5
  <2> QED
    BY <2>2, <2>3
<1> QED
  BY <1>5, <1>6, <1>7 DEF Chain, n

-----------------------------------------------------------------------------
(* erase takes the key out, wherever it is. *)
LEMMA Erases ==
  ASSUME NEW t, Good(t), NEW k \in Keys, Find(t, k), NEW u, u = Erased(t, k)
  PROVE  Good(u) /\ All(u) = All(t) \ {k}
<1>1. t \in Tables
  BY DEF Good
<1>2. FindInBuckets(t, k) = {b \in Placed(t) : Value(t, b) = k}
  BY FindsInBuckets
<1>3. CASE FindInBuckets(t, k) # {}
  <2> DEFINE e == Min(FindInBuckets(t, k))
  <2>1. FindInBuckets(t, k) \subseteq Nat
    BY <1>1, <1>2, TableShape, TableAssumption DEF Placed
  <2>2. e \in FindInBuckets(t, k)
    BY <2>1, <1>3, LeastNat
  <2>3. u = EraseFromBucket(t, k, e)
    BY <1>3 DEF Erased
  <2> HIDE DEF e
  <2>4. e \in Placed(t) /\ Value(t, e) = k
    BY <2>2, <1>2
  <2> QED
    BY <2>3, <2>4, ErasesFromBucket
<1>4. CASE FindInBuckets(t, k) = {}
  <2>1. u = EraseFromOverflow(t, k)
    BY <1>4 DEF Erased
  <2>2. k \in t.list
    BY <1>4 DEF Find
  <2> QED
    BY <2>1, <2>2, ErasesFromOverflow
<1> QED
  BY <1>3, <1>4

(* A rehash begins with nothing but the list. *)
LEMMA StartsRehash ==
  ASSUME NEW t, NEW k, NEW count \in Int, NEW back \in {"ready", "insert", "probe"},
         Chain(calls, t, k), Rehash(t, count, k, back),
         k = None <=> back = "ready", back = "ready" => calls = <<>>,
         back # "ready" => count >= 2 * t.count
  PROVE  Inv'
<1> DEFINE f == [old |-> t, next |-> 0, key |-> k, back |-> back]
<1>1. /\ WithinMaximum(AtLeast(t, count))
      /\ calls' = Append(calls, f) /\ table' = TakeOver(t, count)
      /\ todo' = None /\ label' = "rehash" /\ hole' = None
  BY DEF Rehash
<1>2. /\ calls \in Seq(Frames) /\ Awaits(t, k) /\ Good(t) /\ t \in Tables
      /\ k \in Keys \cup {None}
  BY DEF Chain, Awaits, Good
<1>3. f \in Frames /\ f.old = t /\ f.next = 0 /\ f.key = k /\ f.back = back
  BY <1>2 DEF Frames
<1> HIDE DEF f
<1>4. /\ Good(table') /\ All(table') = t.list /\ table'.list = t.list /\ table'.count >= count
  <2>1. \A u : u = TakeOver(t, count) =>
           Good(u) /\ All(u) = t.list /\ u.list = t.list /\ u.count >= count
    BY <1>1, <1>2, TakesOver
  <2> QED
    BY <2>1, <1>1
<1>5. None \notin t.list /\ t.count \in Int /\ table'.count \in Int
  BY <1>2, <1>4, TableShape, TableAssumption DEF None, Good
<1>6. Awaits(table', None)
  BY <1>4, <1>5 DEF Awaits
<1>7. Fills(f, table', None)
  <2>1. {p \in Placed(t) : p < 0} = {}
    BY <1>2, PlacedAre, TableShape, TableAssumption
  <2>2. Taken(f) = t.list
    BY <2>1, <1>3 DEF Taken
  <2>3. back # "ready" => table'.count >= 2 * t.count
    BY <1>4, <1>5
  <2> QED
    BY <2>2, <2>3, <1>3, <1>4 DEF Fills
<1>8. Chain(calls', table', todo')
  BY <1>1, <1>3, <1>6, <1>7, ChainPush
<1>9. calls' # <<>>
  BY <1>1, <1>2
<1>10. Labels' /\ HoleOK' /\ (label' \in {"probe", "place"} => ~Overloaded(table'))
  BY <1>1, <1>9 DEF Labels, HoleOK
<1> QED
  BY <1>8, <1>10 DEF Inv

LEMMA InnermostIs ==
  ASSUME Inv
  PROVE  /\ Good(table) /\ table \in Tables /\ table.count \in Nat /\ table.count > 0
         /\ table.nb_elements \in Nat
         /\ todo \in Keys \cup {None} /\ todo \notin All(table)
         /\ label \notin {"ready", "rehash"} =>
              todo \in Keys /\ Home \in Buckets(table) /\ Home \in 0..(table.count - 1)
         /\ calls \in Seq(Frames)
<1>1. /\ Good(table) /\ table \in Tables /\ todo \in Keys \cup {None} /\ todo \notin All(table)
      /\ calls \in Seq(Frames) /\ (label \notin {"ready", "rehash"} => todo # None)
  BY DEF Inv, Chain, Awaits, Good, Labels
<1>2. table.count \in Nat /\ table.count > 0 /\ table.nb_elements \in Nat
  BY <1>1, TableShape, Size
<1>3. label \notin {"ready", "rehash"} =>
        Home \in Buckets(table) /\ Home \in 0..(table.count - 1)
  BY <1>1, HomeIn, KeysAre DEF Home
<1> QED
  BY <1>1, <1>2, <1>3

(* An insertion in the innermost table is over. *)
LEMMA Returns ==
  ASSUME Inv, todo \in Keys, NEW u, Return(u), Good(u),
         All(u) = All(table) \cup {todo}, table.list \subseteq u.list, u.count = table.count
  PROVE  Inv'
<1>1. Chain(calls, table, todo) /\ calls \in Seq(Frames)
  BY DEF Inv, Chain
<1>2. /\ table' = u /\ todo' = None /\ label' = Caller /\ hole' = None /\ calls' = calls
  BY DEF Return
<1>3. None \notin All(u) /\ todo # None
  BY KeysAre, InnermostIs, TableShape, TableAssumption DEF All, InBuckets, Placed, None
<1>4. Awaits(u, None)
  BY <1>3 DEF Awaits
<1>5. calls # <<>> => Fills(calls[Len(calls)], u, None)
  <2>1. calls # <<>> => Fills(calls[Len(calls)], table, todo)
    BY <1>1 DEF Chain
  <2>2. All(u) \cup ({None} \ {None}) = All(table) \cup ({todo} \ {None})
    BY <1>3
  <2> QED
    BY <2>1, <2>2 DEF Fills
<1>6. Chain(calls, u, None)
  BY <1>1, <1>4, <1>5, ChainTop
<1>7. Labels' /\ HoleOK' /\ (label' \in {"probe", "place"} => ~Overloaded(table'))
  BY <1>2 DEF Labels, HoleOK, Caller
<1> QED
  BY <1>2, <1>6, <1>7 DEF Inv

-----------------------------------------------------------------------------
(* Each action keeps the invariant.                                         *)

LEMMA InsertStep ==
  ASSUME Inv, NEW k \in Keys, Insert(k)
  PROVE  Inv'
<1>1. /\ label = "ready" /\ ~Find(table, k) /\ todo' = k /\ label' = "insert"
      /\ table' = table /\ hole' = hole /\ calls' = calls
  BY DEF Insert
<1>2. Chain(calls, table, todo) /\ calls = <<>>
  BY <1>1 DEF Inv, Labels
<1>3. Awaits(table, k)
  BY <1>1, InnermostIs, FindsAll DEF Awaits
<1>4. Chain(calls, table, k)
  BY <1>2, <1>3, ChainTop
<1>5. Labels' /\ HoleOK' /\ (label' \in {"probe", "place"} => ~Overloaded(table'))
  BY <1>1, KeysAre DEF Labels, HoleOK
<1> QED
  BY <1>1, <1>4, <1>5 DEF Inv

LEMMA EraseStep ==
  ASSUME Inv, NEW k \in Keys, Erase(k)
  PROVE  Inv'
<1> DEFINE t == Erased(table, k)
<1>1. /\ label = "ready" /\ Find(table, k)
      /\ IF TooSparse(t) THEN Rehash(t, (20 * t.nb_elements) \div 9, None, "ready")
         ELSE table' = t /\ UNCHANGED <<todo, label, hole, calls>>
  BY DEF Erase
<1>2. Chain(calls, table, todo) /\ calls = <<>> /\ todo = None /\ Good(table)
  BY <1>1, InnermostIs DEF Inv, Labels
<1>3. Good(t) /\ All(t) = All(table) \ {k}
  BY <1>1, <1>2, Erases
<1> HIDE DEF t
<1>4. Awaits(t, None)
  BY <1>2, <1>3, InnermostIs DEF Awaits
<1>5. Chain(calls, t, None)
  BY <1>2, <1>4, ChainTop
<1>6. CASE TooSparse(t)
  <2>1. (20 * t.nb_elements) \div 9 \in Int
    BY <1>3, Size
  <2> QED
    BY <2>1, <1>1, <1>2, <1>5, <1>6, StartsRehash
<1>7. CASE ~TooSparse(t)
  <2>1. table' = t /\ UNCHANGED <<todo, label, hole, calls>>
    BY <1>1, <1>7
  <2>2. Labels' /\ HoleOK' /\ (label' \in {"probe", "place"} => ~Overloaded(table'))
    BY <2>1, <1>1, <1>2 DEF Labels, HoleOK
  <2> QED
    BY <2>1, <2>2, <1>2, <1>5 DEF Inv
<1> QED
  BY <1>6, <1>7

LEMMA LoadStep ==
  ASSUME Inv, Load
  PROVE  Inv'
<1>1. label = "insert" /\ Rehash(table, 2 * table.count, todo, "probe")
  BY DEF Load
<1>2. todo \in Keys /\ todo # None /\ table.count \in Nat
  BY <1>1, InnermostIs, KeysAre
<1>3. Chain(calls, table, todo)
  BY DEF Inv
<1> QED
  BY <1>1, <1>2, <1>3, StartsRehash

LEMMA GrowStep ==
  ASSUME Inv, Grow
  PROVE  Inv'
<1>1. label = "place" /\ Rehash(table, 2 * table.count, todo, "insert")
  BY DEF Grow
<1>2. todo \in Keys /\ todo # None /\ table.count \in Nat
  BY <1>1, InnermostIs, KeysAre
<1>3. Chain(calls, table, todo)
  BY DEF Inv
<1> QED
  BY <1>1, <1>2, <1>3, StartsRehash

LEMMA ProbeStep ==
  ASSUME Inv, Probe
  PROVE  Inv'
<1>1. /\ label = "probe" \/ (label = "insert" /\ ~Overloaded(table))
      /\ label' = "place" /\ hole' = FindEmpty(table, Home)
      /\ table' = table /\ todo' = todo /\ calls' = calls
  BY DEF Probe
<1>2. Chain(calls, table, todo) /\ Labels /\ ~Overloaded(table)
  BY <1>1 DEF Inv
<1>3. Good(table) /\ Home \in Buckets(table) /\ Home' = Home
  BY <1>1, InnermostIs DEF Home
<1>4. \/ hole' = Cardinality(Buckets(table))
      \/ hole' \in Buckets(table) \ Placed(table) /\ Home <= hole'
  BY <1>1, <1>3, FindsEmpty
<1>5. HoleOK'
  BY <1>1, <1>3, <1>4 DEF HoleOK
<1>6. Labels'
  BY <1>1, <1>2 DEF Labels
<1> QED
  BY <1>1, <1>2, <1>5, <1>6 DEF Inv

(* A bucket in reach of the home is one that exists. *)
LEMMA InReachIs ==
  ASSUME Inv, label = "place", InReach
  PROVE  hole \in Buckets(table) \ Placed(table) /\ hole - Home \in 0..(NeighborhoodSize - 1)
<1>1. /\ table \in Tables /\ table.count \in Nat /\ table.count > 0
      /\ Home \in 0..(table.count - 1) /\ todo \in Keys
  BY InnermostIs
<1>2. Cardinality(Buckets(table)) = table.count + NeighborhoodSize - 1
  BY <1>1, KeysAre, HomeIn
<1>3. NeighborhoodSize \in Nat /\ hole - Home < NeighborhoodSize
  BY TableAssumption DEF InReach
<1>4. hole # Cardinality(Buckets(table))
  BY <1>1, <1>2, <1>3
<1>5. hole \in Buckets(table) \ Placed(table) /\ Home <= hole
  BY <1>4 DEF Inv, HoleOK
<1>6. hole \in Int
  BY <1>1, <1>5, TableShape, TableAssumption
<1> QED
  BY <1>1, <1>3, <1>5, <1>6

LEMMA PlaceInBucketStep ==
  ASSUME Inv, PlaceInBucket
  PROVE  Inv'
<1> DEFINE u == InsertInBucket(table, todo, hole)
<1>1. label = "place" /\ InReach /\ Return(u)
  BY DEF PlaceInBucket
<1>2. hole \in Buckets(table) \ Placed(table) /\ hole - Home \in 0..(NeighborhoodSize - 1)
  BY <1>1, InReachIs
<1>3. Good(table) /\ todo \in Keys /\ todo \notin All(table) /\ ~Overloaded(table)
  BY <1>1, InnermostIs DEF Inv
<1>4. /\ Good(u) /\ All(u) = All(table) \cup {todo} /\ u.list = table.list
      /\ u.count = table.count
  BY <1>2, <1>3, InsertsInBucket DEF Home
<1> HIDE DEF u
<1> QED
  BY <1>1, <1>3, <1>4, Returns

LEMMA PlaceInListStep ==
  ASSUME Inv, PlaceInList
  PROVE  Inv'
<1> DEFINE u == InsertInOverflow(table, todo)
<1>1. label = "place" /\ Return(u)
  BY DEF PlaceInList
<1>2. Good(table) /\ todo \in Keys /\ todo \notin All(table)
  BY <1>1, InnermostIs
<1>3. /\ Good(u) /\ All(u) = All(table) \cup {todo} /\ u.list = table.list \cup {todo}
      /\ u.count = table.count
  BY <1>2, InsertsInOverflow
<1> HIDE DEF u
<1> QED
  BY <1>1, <1>2, <1>3, Returns

(* The keys, the list and the load are the same after a hop. *)
LEMMA SwapKeeps ==
  ASSUME Inv, Swap
  PROVE  /\ Good(table') /\ All(table') = All(table) /\ table'.list = table.list
         /\ table'.count = table.count /\ table'.nb_elements = table.nb_elements
         /\ hole' \in Buckets(table') \ Placed(table') /\ Home <= hole'
         /\ label = "place" /\ todo' = todo /\ label' = label /\ calls' = calls
<1> DEFINE m == FirstMovable(table, hole)
<1>1. /\ label = "place" /\ ~InReach /\ CanSwap
      /\ table' = Hop(table, hole, m) /\ hole' = m[1] + m[2]
      /\ todo' = todo /\ label' = label /\ calls' = calls
  BY DEF Swap
<1> HIDE DEF m
<1>2. hole # Cardinality(Buckets(table)) /\ Movable(table, hole) # {}
  BY <1>1 DEF CanSwap
<1>3. hole \in Buckets(table) \ Placed(table) /\ Home <= hole
  BY <1>1, <1>2 DEF Inv, HoleOK
<1>4. /\ Good(table) /\ table \in Tables /\ table.count \in Nat
      /\ Home \in 0..(table.count - 1)
  BY <1>1, InnermostIs
<1>5. hole \in Int /\ Home \in Int /\ NeighborhoodSize \in Nat
  BY <1>3, <1>4, TableShape, TableAssumption
<1>6. hole - Home >= NeighborhoodSize
  BY <1>1, <1>5 DEF InReach
<1>7. NeighborhoodSize - 1 <= hole
  BY <1>4, <1>5, <1>6
<1>8. m \in Movable(table, hole)
  BY <1>2, <1>4, <1>5, FirstIsMovable DEF m
<1>9. /\ Good(table') /\ All(table') = All(table) /\ table'.list = table.list
      /\ table'.count = table.count /\ table'.nb_elements = table.nb_elements
      /\ m[1] + m[2] \in Buckets(table') \ Placed(table')
      /\ hole - NeighborhoodSize + 1 <= m[1] + m[2]
  <2>1. \A u : u = Hop(table, hole, m) =>
          /\ Good(u) /\ All(u) = All(table) /\ u.list = table.list /\ u.count = table.count
          /\ u.nb_elements = table.nb_elements
          /\ m[1] + m[2] \in Buckets(u) \ Placed(u)
          /\ hole - NeighborhoodSize + 1 <= m[1] + m[2]
    BY <1>3, <1>4, <1>7, <1>8, Hops
  <2> QED
    BY <2>1, <1>1
<1>10. table' \in Tables
  BY <1>9 DEF Good
<1>11. m[1] + m[2] \in Int
  BY <1>9, <1>10, TableShape, TableAssumption
<1>12. Home <= hole'
  BY <1>1, <1>5, <1>6, <1>9, <1>11
<1> QED
  BY <1>1, <1>9, <1>12

LEMMA SwapStep ==
  ASSUME Inv, Swap
  PROVE  Inv'
<1>1. /\ Good(table') /\ All(table') = All(table) /\ table'.list = table.list
      /\ table'.count = table.count /\ table'.nb_elements = table.nb_elements
      /\ hole' \in Buckets(table') \ Placed(table') /\ Home <= hole'
      /\ label = "place" /\ todo' = todo /\ label' = label /\ calls' = calls
  BY SwapKeeps
<1>2. Chain(calls, table, todo) /\ Labels /\ ~Overloaded(table)
  BY <1>1 DEF Inv
<1>3. Home' = Home
  BY <1>1 DEF Home, bucket_for_hash
<1>4. Awaits(table', todo)
  BY <1>1, <1>2 DEF Chain, Awaits
<1>5. calls # <<>> => Fills(calls[Len(calls)], table', todo)
  BY <1>1, <1>2 DEF Chain, Fills
<1>6. Chain(calls, table', todo)
  BY <1>2, <1>4, <1>5, ChainTop
<1>7. HoleOK'
  BY <1>1, <1>3 DEF HoleOK
<1>8. Labels'
  BY <1>1, <1>2 DEF Labels
<1>9. ~Overloaded(table')
  BY <1>1, <1>2 DEF Overloaded, load_threshold
<1> QED
  BY <1>1, <1>6, <1>7, <1>8, <1>9 DEF Inv

LEMMA TopIs ==
  ASSUME Inv, label = "rehash"
  PROVE  /\ calls # <<>> /\ Len(calls) \in Nat /\ Len(calls) > 0
         /\ Top \in Frames /\ Frame(Top, Len(calls)) /\ Fills(Top, table, None)
         /\ Good(Top.old) /\ Top.old \in Tables /\ todo = None /\ Top.next \in Nat
         /\ Left(Top) = {b \in Placed(Top.old) : Top.next <= b}
         /\ Left(Top) \subseteq Nat
<1>1. /\ Chain(calls, table, todo) /\ calls # <<>> /\ todo = None
  BY DEF Inv, Labels
<1>2. calls \in Seq(Frames) /\ Len(calls) \in Nat /\ Len(calls) > 0 /\ Len(calls) \in 1..Len(calls)
  BY <1>1 DEF Chain
<1>3. Top \in Frames /\ Frame(Top, Len(calls)) /\ Fills(Top, table, None)
  BY <1>1, <1>2 DEF Chain, Top
<1>4. Good(Top.old) /\ Top.old \in Tables /\ Top.next \in Nat
  BY <1>3 DEF Frame, Awaits, Good, Frames
<1>5. Left(Top) = {b \in Placed(Top.old) : Top.next <= b}
  BY DEF Left, Placed, Value
<1>6. Buckets(Top.old) \subseteq Nat
  BY <1>4, TableShape, TableAssumption
<1> QED
  BY <1>1, <1>2, <1>3, <1>4, <1>5, <1>6 DEF Placed

LEMMA RehashNextStep ==
  ASSUME Inv, RehashNext
  PROVE  Inv'
<1> DEFINE b == Min(Left(Top))
           n == Len(calls)
           f == [Top EXCEPT !.next = b + 1]
           k == Value(Top.old, b)
<1>1. /\ label = "rehash" /\ Left(Top) # {} /\ todo' = k
      /\ calls' = [calls EXCEPT ![n].next = b + 1]
      /\ label' = "insert" /\ table' = table /\ hole' = hole
  BY DEF RehashNext, Value
<1>2. /\ calls # <<>> /\ n \in Nat /\ n > 0
      /\ Top \in Frames /\ Fills(Top, table, None)
      /\ Good(Top.old) /\ Top.old \in Tables /\ todo = None /\ Top.next \in Nat
      /\ Left(Top) = {p \in Placed(Top.old) : Top.next <= p}
      /\ Left(Top) \subseteq Nat
  BY <1>1, TopIs
<1>3. b \in Left(Top) /\ \A p \in Left(Top) : b <= p
  BY <1>1, <1>2, LeastNat
<1> HIDE DEF b
<1>4. b \in Nat /\ b \in Placed(Top.old) /\ Top.next <= b
  BY <1>2, <1>3
<1>5. k \in Keys /\ k # None
  BY <1>2, <1>4, PlacedAre, KeysAre
<1>6. f \in Frames /\ f.old = Top.old /\ f.next = b + 1 /\ f.back = Top.back
  BY <1>2, <1>4 DEF Frames
<1> HIDE DEF f
<1>7. {p \in Placed(Top.old) : p < b + 1} = {p \in Placed(Top.old) : p < Top.next} \cup {b}
  <2>1. Placed(Top.old) \subseteq Nat
    BY <1>2, TableShape, TableAssumption DEF Placed
  <2>2. \A p \in Placed(Top.old) : Top.next <= p => b <= p
    BY <1>2, <1>3
  <2> QED
    BY <2>1, <2>2, <1>2, <1>4
<1>8. Taken(f) = Taken(Top) \cup {k}
  BY <1>6, <1>7 DEF Taken
<1>9. All(table) = Taken(Top)
  BY <1>2 DEF Fills
<1>10. k \notin Taken(Top)
  <2>1. Once(Top.old) /\ Placed(Top.old) \subseteq Nat
    BY <1>2, TableShape, TableAssumption DEF Placed, Good
  <2>2. k \notin Top.old.list
    BY <2>1, <1>4 DEF Once
  <2>3. ASSUME NEW p \in Placed(Top.old), p < Top.next
        PROVE  Value(Top.old, p) # k
    <3>1. p # b
      BY <2>1, <2>3, <1>2, <1>4
    <3> QED
      BY <2>1, <3>1, <1>4 DEF Once
  <2> HIDE DEF k
  <2> QED
    BY <2>2, <2>3 DEF Taken
<1>11. Awaits(table, k)
  BY <1>5, <1>9, <1>10, InnermostIs DEF Awaits
<1> HIDE DEF k
<1>12. Fills(f, table, k)
  BY <1>2, <1>5, <1>6, <1>8, <1>9 DEF Fills
<1>13. calls'[n] = f
  <2>1. calls \in Seq(Frames) /\ n \in 1..n
    BY <1>2, InnermostIs
  <2> QED
    BY <2>1, <1>1 DEF f, Top
<1>14. Chain(calls, table, todo)
  BY DEF Inv
<1>15. Chain(calls', table, k)
  <2>1. b + 1 \in Nat
    BY <1>4
  <2> QED
    BY <2>1, <1>1, <1>2, <1>11, <1>12, <1>13, <1>14, ChainNext
<1>16. Labels' /\ HoleOK' /\ (label' \in {"probe", "place"} => ~Overloaded(table'))
  BY <1>1, <1>5 DEF Labels, HoleOK
<1> QED
  BY <1>1, <1>15, <1>16 DEF Inv

(* When a rehash is over, the table has the keys of the old one. *)
LEMMA RehashDone ==
  ASSUME Inv, RehashEnd
  PROVE  /\ All(table) = All(Top.old) /\ Good(Top.old)
         /\ label = "rehash" /\ Left(Top) = {}
         /\ todo' = Top.key /\ label' = Top.back /\ calls' = Front(calls)
         /\ table' = table /\ hole' = hole
<1>1. /\ label = "rehash" /\ Left(Top) = {}
      /\ todo' = Top.key /\ label' = Top.back /\ calls' = Front(calls)
      /\ table' = table /\ hole' = hole
  BY DEF RehashEnd
<1>2. /\ Fills(Top, table, None) /\ Good(Top.old) /\ Top.old \in Tables /\ Top.next \in Nat
      /\ Left(Top) = {p \in Placed(Top.old) : Top.next <= p}
  BY <1>1, TopIs
<1>3. Placed(Top.old) \subseteq Nat
  BY <1>2, TableShape, TableAssumption DEF Placed
<1>4. {p \in Placed(Top.old) : p < Top.next} = Placed(Top.old)
  BY <1>1, <1>2, <1>3
<1>5. Taken(Top) = All(Top.old)
  BY <1>4 DEF Taken, All, InBuckets
<1> QED
  BY <1>1, <1>2, <1>5 DEF Fills

LEMMA RehashEndStep ==
  ASSUME Inv, RehashEnd
  PROVE  Inv'
<1> DEFINE n == Len(calls)
<1>1. /\ All(table) = All(Top.old) /\ Good(Top.old)
      /\ label = "rehash"
      /\ todo' = Top.key /\ label' = Top.back /\ calls' = Front(calls)
      /\ table' = table /\ hole' = hole
  BY RehashDone
<1>2. /\ calls # <<>> /\ n \in Nat /\ n > 0
      /\ Top \in Frames /\ Frame(Top, n) /\ Fills(Top, table, None)
      /\ Top.old \in Tables
  BY <1>1, TopIs
<1>3. Chain(calls, table, todo) /\ Good(table) /\ table \in Tables
  BY InnermostIs DEF Inv
<1>4. /\ Awaits(Top.old, Top.key) /\ Top.key \in Keys \cup {None}
      /\ Top.key = None <=> Top.back = "ready"
      /\ Top.back = "ready" => n = 1
      /\ Top.back \in {"ready", "insert", "probe"}
  BY <1>2 DEF Frame, Awaits, Frames
<1>5. Awaits(table, Top.key)
  BY <1>1, <1>3, <1>4 DEF Awaits
<1>6. ASSUME n > 1
      PROVE  Fills(calls[n - 1], table, Top.key)
  <2> DEFINE g == calls[n - 1]
  <2>1. n - 1 \in 1..(n - 1) /\ n - 1 \in 1..n /\ (n - 1) + 1 = n
    BY <1>2, <1>6
  <2>2. Fills(g, calls[(n - 1) + 1].old, calls[(n - 1) + 1].key)
    BY <2>1, <1>3 DEF Chain
  <2>3. Fills(g, Top.old, Top.key)
    BY <2>1, <2>2 DEF Top
  <2>4. g \in Frames
    BY <2>1, <1>3 DEF Chain
  <2> HIDE DEF g
  <2>5. All(table) \cup ({Top.key} \ {None}) = Taken(g)
    BY <2>3, <1>1 DEF Fills
  <2>6. g.old.list \subseteq table.list
    BY <2>3, <1>2 DEF Fills
  <2>7. g.back # "ready" => table.count >= 2 * g.old.count
    <3>1. g.old \in Tables
      BY <2>4 DEF Frames
    <3>2. /\ g.old.count \in Nat /\ Top.old.count \in Nat /\ table.count \in Nat
      BY <3>1, <1>2, <1>3, TableShape
    <3>3. Top.back # "ready"
      <4> HIDE DEF n
      <4>1. n # 1
        BY <1>6
      <4> QED
        BY <4>1, <1>4
    <3>4. table.count >= 2 * Top.old.count
      BY <3>3, <1>2 DEF Fills
    <3>5. g.back # "ready" => Top.old.count >= 2 * g.old.count
      BY <2>3 DEF Fills
    <3> QED
      BY <3>2, <3>4, <3>5
  <2> QED
    BY <2>5, <2>6, <2>7 DEF Fills, g
<1>7. Chain(calls', table, Top.key)
  BY <1>1, <1>2, <1>3, <1>5, <1>6, ChainPop DEF Top
<1>8. Top.back = "ready" => calls' = <<>>
  <2> SUFFICES ASSUME Top.back = "ready"
               PROVE  calls' = <<>>
    OBVIOUS
  <2>1. n = 1 /\ calls \in Seq(Frames)
    BY <1>3, <1>4 DEF Chain
  <2>2. calls' = SubSeq(calls, 1, n - 1)
    BY <1>1 DEF Front
  <2>3. calls' = SubSeq(calls, 1, 0)
    BY <2>1, <2>2
  <2> QED
    BY <2>1, <2>3
<1>9. Labels'
  BY <1>1, <1>4, <1>8 DEF Labels
<1>10. HoleOK'
  BY <1>1, <1>4 DEF HoleOK
<1>11. label' \in {"probe", "place"} => ~Overloaded(table')
  <2> SUFFICES ASSUME Top.back = "probe"
               PROVE  ~Overloaded(table)
    BY <1>1, <1>4
  <2>1. Top.old.list \subseteq table.list /\ table.count >= 2 * Top.old.count
    BY <1>2 DEF Fills
  <2> QED
    BY <2>1, <1>1, <1>3, HasRoom
<1> QED
  BY <1>1, <1>7, <1>9, <1>10, <1>11 DEF Inv

-----------------------------------------------------------------------------
LEMMA InitInv == Init => Inv
<1> SUFFICES ASSUME Init
             PROVE  Inv
  OBVIOUS
<1>1. /\ table = New(InitCount) /\ todo = None
      /\ label = "ready" /\ hole = None /\ calls = <<>>
  BY DEF Init
<1>2. Good(table) /\ table.list = {} /\ \A b \in Buckets(table) : table.bucket[b] = empty_bucket
  <2>1. InitCount \in Int /\ WithinMaximum(InitCount)
    BY TableAssumption
  <2> QED
    BY <2>1, <1>1, IsNew
<1>3. All(table) = {}
  BY <1>2 DEF All, InBuckets, Placed, Value, empty_bucket
<1>4. Chain(calls, table, todo)
  BY <1>1, <1>2, <1>3 DEF Chain, Awaits
<1> QED
  BY <1>1, <1>4 DEF Inv, Labels, HoleOK

LEMMA NextInv == Inv /\ [Next]_vars => Inv'
<1> SUFFICES ASSUME Inv, [Next]_vars
             PROVE  Inv'
  OBVIOUS
<1>1. CASE Load
  BY <1>1, LoadStep
<1>2. CASE Probe
  BY <1>2, ProbeStep
<1>3. CASE PlaceInBucket
  BY <1>3, PlaceInBucketStep
<1>4. CASE Swap
  BY <1>4, SwapStep
<1>5. CASE PlaceInList
  BY <1>5, PlaceInListStep
<1>6. CASE Grow
  BY <1>6, GrowStep
<1>7. CASE RehashNext
  BY <1>7, RehashNextStep
<1>8. CASE RehashEnd
  BY <1>8, RehashEndStep
<1>9. CASE \E k \in Keys : Insert(k) \/ Erase(k)
  BY <1>9, InsertStep, EraseStep
<1>10. CASE UNCHANGED vars
  BY <1>10 DEF vars, Inv, Labels, HoleOK, Overloaded, load_threshold, Home, bucket_for_hash
<1> QED
  BY <1>1, <1>2, <1>3, <1>4, <1>5, <1>6, <1>7, <1>8, <1>9, <1>10 DEF Next, Work

(* The rehashes that wait fit together, and every table is in order. *)
LEMMA InvHolds == Spec => []Inv
BY InitInv, NextInv, PTL DEF Spec

-----------------------------------------------------------------------------
(* The table is in order in every state, also in the middle of an insertion *)
(* and of the rehashes within it: hops, rehashes and removals leave no home *)
(* with a wrong idea of where its keys are, and no key twice.               *)
THEOREM TableOKHolds == Spec => []TableOK
<1>1. ASSUME Inv
      PROVE  TableOK
  <2> DEFINE t == table
             value == [b \in Buckets(t) |-> t.bucket[b].value]
             placed == {b \in Buckets(t) : value[b] # None}
  <2>1. /\ t \in Tables /\ Exact(t) /\ Near(t) /\ Told(t) /\ Once(t) /\ Counted(t) /\ Loaded(t)
    BY <1>1, InnermostIs DEF Good
  <2>2. placed = Placed(t) /\ \A b \in Buckets(t) : value[b] = Value(t, b)
    BY DEF Placed, Value
  <2>3. Buckets(t) \subseteq Int /\ NeighborhoodSize \in Nat
    BY <2>1, TableShape, TableAssumption
  <2> HIDE DEF t, value, placed
  <2>4. ASSUME NEW h \in Buckets(t)
        PROVE  /\ t.bucket[h].neighbors =
                    {b - h : b \in {p \in placed : bucket_for_hash(t, value[p]) = h}}
               /\ t.bucket[h].neighbors \subseteq 0..(NeighborhoodSize - 1)
               /\ t.bucket[h].overflow = \E k \in t.list : bucket_for_hash(t, k) = h
    <3>1. t.bucket[h].neighbors \subseteq 0..(NeighborhoodSize - 1)
      BY <2>1, ExactIn
    <3>2. ASSUME NEW o \in t.bucket[h].neighbors
          PROVE  \E b \in placed : bucket_for_hash(t, value[b]) = h /\ o = b - h
      <4>1. h + o \in Placed(t) /\ bucket_for_hash(t, Value(t, h + o)) = h
        BY <2>1, ExactIn
      <4>2. h + o \in Buckets(t) /\ o = (h + o) - h
        BY <4>1, <3>1, <2>3 DEF Placed
      <4> QED
        BY <4>1, <4>2, <2>2
    <3>3. ASSUME NEW b \in placed, bucket_for_hash(t, value[b]) = h
          PROVE  b - h \in t.bucket[h].neighbors
      <4>1. b \in Placed(t) /\ b \in Buckets(t) /\ bucket_for_hash(t, Value(t, b)) = h
        BY <3>3, <2>2 DEF Placed
      <4>2. b - h \in Int /\ h + (b - h) = b
        BY <4>1, <2>3
      <4> QED
        BY <4>1, <4>2, <2>1 DEF Exact
    <3>4. t.bucket[h].overflow = \E k \in t.list : bucket_for_hash(t, k) = h
      <4>1. t.bucket[h].overflow \in BOOLEAN
        BY <2>1, TableShape DEF Cells
      <4>2. t.bucket[h].overflow <=> \E k \in t.list : bucket_for_hash(t, k) = h
        BY <2>1 DEF Told
      <4> QED
        BY <4>1, <4>2
    <3> QED
      BY <3>1, <3>2, <3>3, <3>4
  <2>5. IsInjective(Restrict(value, placed))
    <3>1. placed \subseteq Buckets(t)
      BY <2>2 DEF Placed
    <3>2. \A a, b \in placed : value[a] = value[b] => a = b
      BY <2>1, <2>2, <3>1 DEF Once
    <3> QED
      BY <3>2 DEF IsInjective, Restrict
  <2>6. t.list \cap {value[b] : b \in placed} = {}
    <3>1. placed \subseteq Buckets(t)
      BY <2>2 DEF Placed
    <3> QED
      BY <2>1, <2>2, <3>1 DEF Once
  <2>7. /\ t.nb_elements = Cardinality(placed) + Cardinality(t.list)
        /\ Cardinality(placed) <= load_threshold(t)
    BY <2>1, <2>2 DEF Counted, Loaded
  <2> QED
    BY <2>4, <2>5, <2>6, <2>7 DEF TableOK, t, value, placed
<1> QED
  BY <1>1, InvHolds, PTL

-----------------------------------------------------------------------------
(* The key set.                                                             *)

(* A lookup in a table finds what is in it. *)
LEMMA Finds ==
  ASSUME NEW t, Good(t)
  PROVE  {k \in Keys : Find(t, k)} = All(t)
<1>1. All(t) \subseteq Keys
  BY PlacedAre, TableShape DEF All, InBuckets, Good
<1> QED
  BY <1>1, FindsAll

LEMMA ServedIs ==
  ASSUME Inv
  PROVE  /\ Good(Served) /\ Contents = All(Served)
         /\ calls = <<>> => Served = table
         /\ calls # <<>> =>
              /\ Served = calls[1].old
              /\ Awaits(calls[1].old, calls[1].key)
<1>1. Chain(calls, table, todo) /\ Good(table)
  BY InnermostIs DEF Inv
<1>2. calls # <<>> => Awaits(calls[1].old, calls[1].key)
  <2> SUFFICES ASSUME calls # <<>>
               PROVE  Awaits(calls[1].old, calls[1].key)
    OBVIOUS
  <2>1. calls \in Seq(Frames)
    BY <1>1 DEF Chain
  <2>2. 1 \in 1..Len(calls)
    BY <2>1
  <2> QED
    BY <2>2, <1>1 DEF Chain, Frame
<1>3. Good(Served)
  BY <1>1, <1>2 DEF Served, Awaits
<1>4. Contents = All(Served)
  BY <1>3, Finds DEF Contents
<1> QED
  BY <1>2, <1>3, <1>4 DEF Served

(* A step that leaves the call and the keys alone. *)
Kept == Contents' = Contents /\ Call' = Call

(* What a rehash makes of them. *)
LEMMA RehashKeeps ==
  ASSUME Inv, Inv', NEW t, NEW k, NEW count, NEW back, Rehash(t, count, k, back)
  PROVE  /\ calls = <<>> => /\ Served' = t
                            /\ Call' = IF k = None THEN Shrinking ELSE k
         /\ calls # <<>> => Served' = Served /\ calls' # <<>> /\ calls'[1].key = calls[1].key
         /\ label' = "rehash"
<1> DEFINE f == [old |-> t, next |-> 0, key |-> k, back |-> back]
<1>1. calls' = Append(calls, f) /\ label' = "rehash"
  BY DEF Rehash
<1>2. calls \in Seq(Frames) /\ calls' \in Seq(Frames)
  BY DEF Inv, Chain
<1>3. f.old = t /\ f.key = k
  OBVIOUS
<1> HIDE DEF f
<1>4. calls' # <<>>
  BY <1>1, <1>2
<1>5. CASE calls = <<>>
  <2>1. calls'[1] = f
    BY <1>1, <1>5
  <2> QED
    BY <2>1, <1>1, <1>3, <1>4, <1>5 DEF Served, Call
<1>6. CASE calls # <<>>
  <2>1. calls'[1] = calls[1]
    <3>1. 1 \in 1..Len(calls) /\ Len(calls) \in Nat
      BY <1>2, <1>6
    <3>2. calls'[1] = IF 1 <= Len(calls) THEN calls[1] ELSE f
      BY <1>1, <1>2, <3>1
    <3> QED
      BY <3>1, <3>2
  <2> QED
    BY <2>1, <1>1, <1>4, <1>6 DEF Served
<1> QED
  BY <1>1, <1>5, <1>6

(* The key that waits outside of all rehashes is what the call is about. *)
LEMMA CallIs ==
  ASSUME Inv, label # "ready"
  PROVE  /\ calls = <<>> => Call = todo /\ todo \in Keys
         /\ calls # <<>> => Call = IF calls[1].key = None THEN Shrinking ELSE calls[1].key
<1>1. calls = <<>> => todo # None /\ todo \in Keys
  BY InnermostIs DEF Inv, Labels
<1> QED
  BY <1>1 DEF Call

(* An insertion in the outermost table ends the call; one in another does not. *)
LEMMA ReturnKeeps ==
  ASSUME Inv, Inv', label = "place", NEW u, Return(u), All(u) = All(table) \cup {todo}
  PROVE  \/ Kept
         \/ Set!Inserted
<1>1. /\ table' = u /\ todo' = None /\ calls' = calls /\ label' = Caller
  BY DEF Return
<1>2. Contents = All(Served) /\ Contents' = All(Served')
  <2>1. (Contents = All(Served))'
    BY ServedIs, PTL
  <2> QED
    BY <2>1, ServedIs
<1>3. CASE calls = <<>>
  <2>1. Served = table /\ Served' = u /\ label' = "ready"
    BY <1>1, <1>3 DEF Served, Caller
  <2>2. Call = todo /\ todo \in Keys /\ Call' = None
    BY <2>1, <1>3, CallIs DEF Call
  <2> QED
    BY <2>1, <2>2, <1>2 DEF Set!Inserted
<1>4. CASE calls # <<>>
  <2>1. Served' = Served /\ label' = "rehash" /\ label # "ready"
    BY <1>1, <1>4 DEF Served, Caller
  <2>2. Call' = Call
    BY <2>1, <1>1, <1>4 DEF Call
  <2> QED
    BY <2>1, <2>2, <1>2 DEF Kept
<1> QED
  BY <1>3, <1>4

LEMMA StepKeeps ==
  ASSUME Inv, Inv', [Next]_vars
  PROVE  Kept \/ Set!Next
<1>1. Contents = All(Served) /\ Contents' = All(Served') /\ Good(Served)
  <2>1. (Contents = All(Served))'
    BY ServedIs, PTL
  <2> QED
    BY <2>1, ServedIs
<1>2. calls \in Seq(Frames)
  BY InnermostIs
(* A rehash within an insertion. *)
<1>3. ASSUME label \in {"insert", "place"}, NEW count, NEW back,
             Rehash(table, count, todo, back)
      PROVE  Kept
  <2>1. /\ calls = <<>> => Served' = table /\ Call' = IF todo = None THEN Shrinking ELSE todo
        /\ calls # <<>> => Served' = Served /\ calls' # <<>> /\ calls'[1].key = calls[1].key
        /\ label' = "rehash"
    BY <1>3, RehashKeeps
  <2>2. CASE calls = <<>>
    <3>1. todo # None /\ Call = todo /\ Served = table
      BY <1>3, <2>2, CallIs, KeysAre, ServedIs
    <3> QED
      BY <2>1, <2>2, <3>1, <1>1 DEF Kept
  <2>3. CASE calls # <<>>
    <3>1. Call' = Call
      BY <1>3, <2>1, <2>3 DEF Call
    <3> QED
      BY <2>1, <2>3, <3>1, <1>1 DEF Kept
  <2> QED
    BY <2>2, <2>3
<1>4. CASE Load
  BY <1>3, <1>4 DEF Load
<1>5. CASE Grow
  BY <1>3, <1>5 DEF Grow
<1>6. CASE Probe
  BY <1>6 DEF Probe, Kept, Contents, Served, Call
<1>7. CASE PlaceInBucket
  <2> DEFINE u == InsertInBucket(table, todo, hole)
  <2>1. label = "place" /\ InReach /\ Return(u)
    BY <1>7 DEF PlaceInBucket
  <2>2. hole \in Buckets(table) \ Placed(table) /\ hole - Home \in 0..(NeighborhoodSize - 1)
    BY <2>1, InReachIs
  <2>3. Good(table) /\ todo \in Keys /\ todo \notin All(table) /\ ~Overloaded(table)
    BY <2>1, InnermostIs DEF Inv
  <2>4. All(u) = All(table) \cup {todo}
    BY <2>2, <2>3, InsertsInBucket DEF Home
  <2> HIDE DEF u
  <2> QED
    BY <2>1, <2>4, ReturnKeeps DEF Set!Next
<1>8. CASE PlaceInList
  <2> DEFINE u == InsertInOverflow(table, todo)
  <2>1. label = "place" /\ Return(u)
    BY <1>8 DEF PlaceInList
  <2>2. Good(table) /\ todo \in Keys /\ todo \notin All(table)
    BY <2>1, InnermostIs
  <2>3. All(u) = All(table) \cup {todo}
    BY <2>2, InsertsInOverflow
  <2> HIDE DEF u
  <2> QED
    BY <2>1, <2>3, ReturnKeeps DEF Set!Next
<1>9. CASE Swap
  <2>1. /\ All(table') = All(table) /\ label = "place" /\ todo' = todo /\ label' = label
        /\ calls' = calls
    BY <1>9, SwapKeeps
  <2>2. Call' = Call
    BY <2>1 DEF Call
  <2>3. All(Served') = All(Served)
    BY <2>1 DEF Served
  <2> QED
    BY <2>2, <2>3, <1>1 DEF Kept
<1>10. CASE RehashNext
  <2>1. /\ label = "rehash" /\ label' = "insert" /\ calls # <<>> /\ table' = table
        /\ calls' = [calls EXCEPT ![Len(calls)].next = Min(Left(Top)) + 1]
    BY <1>10, TopIs DEF RehashNext
  <2>2. 1 \in 1..Len(calls) /\ Len(calls) \in 1..Len(calls)
    BY <1>2, <2>1
  <2>3. calls[1] \in Frames /\ calls[Len(calls)] \in Frames
    BY <1>2, <2>2
  <2>4. calls' # <<>> /\ calls'[1].old = calls[1].old /\ calls'[1].key = calls[1].key
    <3> DEFINE f == [calls[Len(calls)] EXCEPT !.next = Min(Left(Top)) + 1]
    <3>1. calls' = [calls EXCEPT ![Len(calls)] = f]
      BY <2>1
    <3>2. f.old = calls[Len(calls)].old /\ f.key = calls[Len(calls)].key
      BY <2>3 DEF Frames
    <3> HIDE DEF f
    <3>3. DOMAIN calls' = 1..Len(calls)
      BY <1>2, <3>1
    <3>4. calls' # <<>>
      BY <2>2, <3>3
    <3> QED
      BY <1>2, <2>2, <3>1, <3>2, <3>4
  <2> QED
    BY <2>1, <2>4 DEF Kept, Contents, Served, Call
<1>11. CASE RehashEnd
  <2>1. /\ All(table) = All(Top.old) /\ label = "rehash"
        /\ todo' = Top.key /\ label' = Top.back /\ calls' = Front(calls) /\ table' = table
    BY <1>11, RehashDone
  <2>2. /\ calls # <<>> /\ Len(calls) \in Nat /\ Len(calls) > 0
        /\ Top \in Frames /\ Frame(Top, Len(calls))
    BY <2>1, TopIs
  <2>3. calls' = SubSeq(calls, 1, Len(calls) - 1)
    BY <2>1 DEF Front
  <2>4. CASE Len(calls) = 1
    <3>1. calls' = SubSeq(calls, 1, 0)
      BY <2>3, <2>4
    <3>2. calls' = <<>> /\ Top = calls[1]
      BY <3>1, <1>2, <2>4 DEF Top
    <3>3. Served = Top.old /\ Served' = table
      BY <2>1, <2>2, <3>2 DEF Served
    <3>4. Call = IF Top.key = None THEN Shrinking ELSE Top.key
      BY <2>1, <2>2, <3>2, CallIs
    <3>5. CASE Top.key = None
      <4>1. Top.back = "ready"
        BY <2>2, <3>5 DEF Frame
      <4>2. Call = Shrinking /\ Call' = None
        BY <2>1, <3>4, <3>5, <4>1 DEF Call
      <4> QED
        BY <4>2, <3>3, <2>1, <1>1 DEF Set!Erased, Set!Next
    <3>6. CASE Top.key # None
      <4>1. Top.back # "ready"
        BY <2>2, <3>6 DEF Frame
      <4>2. Call' = Top.key
        BY <2>1, <3>2, <3>6, <4>1 DEF Call
      <4> QED
        BY <4>2, <3>3, <3>4, <3>6, <2>1, <1>1 DEF Kept
    <3> QED
      BY <3>5, <3>6
  <2>5. CASE Len(calls) # 1
    <3>1. Len(calls) > 1
      <4> DEFINE n == Len(calls)
      <4>1. n \in Nat /\ n > 0 /\ n # 1
        BY <2>2, <2>5
      <4> HIDE DEF n
      <4>2. n > 1
        BY <4>1
      <4> QED
        BY <4>2 DEF n
    <3>2. Len(calls) - 1 \in Nat /\ Len(calls) - 1 <= Len(calls) /\ Len(calls) - 1 >= 1
      BY <3>1, <2>2
    <3>3. calls' # <<>> /\ calls'[1] = calls[1]
      <4>1. Len(calls') = Len(calls) - 1
        BY <1>2, <2>3, <3>2
      <4>2. calls'[1] = calls[1]
        BY <1>2, <2>3, <3>2
      <4>3. calls' # <<>>
        BY <4>1, <3>2
      <4> QED
        BY <4>2, <4>3
    <3>4. Top.back # "ready"
      BY <2>2, <2>5 DEF Frame
    <3>5. Served' = Served /\ Call' = Call
      BY <2>1, <2>2, <3>3, <3>4 DEF Served, Call
    <3> QED
      BY <3>5, <1>1 DEF Kept
  <2> QED
    BY <2>4, <2>5
<1>12. ASSUME NEW k \in Keys, Insert(k)
       PROVE  Set!Next
  <2>1. /\ label = "ready" /\ ~Find(table, k) /\ todo' = k /\ label' = "insert"
        /\ table' = table /\ calls' = calls /\ calls = <<>>
    BY <1>12 DEF Insert, Inv, Labels
  <2>2. Served = table /\ Served' = table
    BY <2>1 DEF Served
  <2>3. Contents' = Contents /\ k \notin Contents
    BY <2>1, <2>2, <1>1 DEF Contents
  <2>4. Call = None /\ Call' = k
    BY <2>1, KeysAre DEF Call
  <2> QED
    BY <2>3, <2>4 DEF Set!Next, Set!Insert, Set!Has
<1>13. ASSUME NEW k \in Keys, Erase(k)
       PROVE  Set!Next
  <2> DEFINE t == Erased(table, k)
  <2>1. /\ label = "ready" /\ Find(table, k)
        /\ IF TooSparse(t) THEN Rehash(t, (20 * t.nb_elements) \div 9, None, "ready")
           ELSE table' = t /\ UNCHANGED <<todo, label, hole, calls>>
    BY <1>13 DEF Erase
  <2>2. calls = <<>> /\ Good(table)
    BY <2>1, InnermostIs DEF Inv, Labels
  <2>3. All(t) = All(table) \ {k}
    BY <2>1, <2>2, Erases
  <2> HIDE DEF t
  <2>4. Served = table /\ k \in Contents /\ Call = None
    BY <2>1, <2>2 DEF Served, Contents, Call
  <2>5. CASE TooSparse(t)
    <3>1. Rehash(t, (20 * t.nb_elements) \div 9, None, "ready")
      BY <2>1, <2>5
    <3>2. Served' = t /\ Call' = Shrinking
      BY <3>1, <2>2, RehashKeeps
    <3> QED
      BY <3>2, <2>3, <2>4, <1>1 DEF Set!Next, Set!Erase, Set!Has
  <2>6. CASE ~TooSparse(t)
    <3>1. table' = t /\ UNCHANGED <<todo, label, hole, calls>>
      BY <2>1, <2>6
    <3>2. Served' = t /\ Call' = None
      BY <3>1, <2>1, <2>2 DEF Served, Call
    <3> QED
      BY <3>2, <2>3, <2>4, <1>1 DEF Set!Next, Set!Erase, Set!Has
  <2> QED
    BY <2>5, <2>6
<1>14. CASE UNCHANGED vars
  BY <1>14 DEF vars, Kept, Contents, Served, Call
<1> QED
  BY <1>4, <1>5, <1>6, <1>7, <1>8, <1>9, <1>10, <1>11, <1>12, <1>13, <1>14 DEF Next, Work

(* The hash table implements the key set: a key that was inserted is found  *)
(* from the end of that call until it is erased, through every hop and      *)
(* rehash of other insertions and every shrink of other removals.           *)
THEOREM ImplementsKeySetHolds == Spec => ImplementsKeySet
<1>1. Init => Set!Init
  <2> SUFFICES ASSUME Init
               PROVE  Set!Init
    OBVIOUS
  <2>1. Inv
    BY InitInv
  <2>2. calls = <<>> /\ label = "ready" /\ table = New(InitCount)
    BY DEF Init
  <2>3. Contents = All(table)
    BY <2>1, <2>2, ServedIs
  <2>4. InitCount \in Int /\ WithinMaximum(InitCount)
    BY TableAssumption
  <2>5. table.list = {} /\ \A b \in Buckets(table) : table.bucket[b] = empty_bucket
    BY <2>2, <2>4, IsNew
  <2>6. All(table) = {}
    BY <2>5 DEF All, InBuckets, Placed, Value, empty_bucket
  <2> QED
    BY <2>2, <2>3, <2>6 DEF Set!Init, Call
<1>2. Inv /\ Inv' /\ [Next]_vars => [Set!Next]_(Set!vars)
  BY StepKeeps DEF Kept, Set!vars
<1> QED
  BY <1>1, <1>2, InvHolds, PTL DEF Spec, ImplementsKeySet, Set!Spec

-----------------------------------------------------------------------------
(* The loop over a table.                                                   *)

Past(t) == Cardinality(Buckets(t))

(* Where an iterator can be. *)
Iterators(t) ==
  {it \in [bucket : Placed(t) \cup {Past(t)}, left : SUBSET t.list] :
     it.bucket # Past(t) => it.left = t.list}

(* The keys that a loop still has to meet. *)
Ahead(t, it) == {Value(t, b) : b \in {p \in Placed(t) : it.bucket <= p}} \cup it.left

LEMMA PastIs ==
  ASSUME NEW t \in Tables
  PROVE  Past(t) \in Nat /\ Buckets(t) \subseteq Nat /\ \A b \in Buckets(t) : b < Past(t)
<1>1. /\ t.count \in Nat /\ t.count > 0 /\ Buckets(t) = 0..(t.count + NeighborhoodSize - 2)
  BY TableShape
<1>2. Past(t) = t.count + NeighborhoodSize - 1
  <2>1. 0 \in Nat
    OBVIOUS
  <2> QED
    BY <2>1, HomeIn DEF Past
<1> QED
  BY <1>1, <1>2, TableAssumption

(* The next bucket that holds a key. *)
LEMMA NextBucket ==
  ASSUME NEW t \in Tables, NEW b \in Nat, b <= Past(t),
         NEW e, e = AtBucket(t, b)
  PROVE  /\ e \in Placed(t) \cup {Past(t)} /\ b <= e
         /\ {p \in Placed(t) : b <= p} = {p \in Placed(t) : e <= p}
<1> DEFINE S == {c \in Buckets(t) : c >= b /\ t.bucket[c].value # None} \cup {Past(t)}
<1>1. Past(t) \in Nat /\ Buckets(t) \subseteq Nat /\ \A c \in Buckets(t) : c < Past(t)
  BY PastIs
<1>2. S \subseteq Nat /\ S # {}
  BY <1>1
<1>3. Min(S) \in S /\ \A c \in S : Min(S) <= c
  <2> HIDE DEF S
  <2> QED
    BY <1>2, LeastNat
<1>4. e = Min(S)
  BY DEF AtBucket, Past
<1>5. S = {c \in Placed(t) : b <= c} \cup {Past(t)}
  BY <1>1 DEF Placed, Value
<1> HIDE DEF S
<1>6. e \in S /\ \A c \in S : e <= c
  BY <1>3, <1>4
<1>7. e \in Nat /\ b <= e /\ Placed(t) \subseteq Nat
  BY <1>1, <1>2, <1>5, <1>6 DEF Placed
<1> QED
  BY <1>5, <1>6, <1>7

LEMMA Begins ==
  ASSUME NEW t, Good(t)
  PROVE  begin(t) \in Iterators(t) /\ Ahead(t, begin(t)) = All(t)
<1> DEFINE e == AtBucket(t, 0)
<1>1. t \in Tables
  BY DEF Good
<1>2. Past(t) \in Nat /\ Buckets(t) \subseteq Nat
  BY <1>1, PastIs
<1>3. /\ e \in Placed(t) \cup {Past(t)}
      /\ {p \in Placed(t) : 0 <= p} = {p \in Placed(t) : e <= p}
  BY <1>1, <1>2, NextBucket
<1>4. {p \in Placed(t) : 0 <= p} = Placed(t)
  BY <1>2 DEF Placed
<1>5. begin(t) = [bucket |-> e, left |-> t.list]
  BY DEF begin
<1> HIDE DEF e
<1> QED
  BY <1>3, <1>4, <1>5 DEF Iterators, Ahead, All, InBuckets

(* operator++ passes one key. *)
LEMMA Advances ==
  ASSUME NEW t, Good(t), NEW it \in Iterators(t)
  PROVE  /\ Advance(t, it) \in Iterators(t)
         /\ it # end(t) <=> Ahead(t, it) # {}
         /\ it # end(t) => /\ key(t, it) \in Ahead(t, it)
                           /\ Ahead(t, Advance(t, it)) = Ahead(t, it) \ {key(t, it)}
<1>1. t \in Tables /\ Once(t)
  BY DEF Good
<1>2. Past(t) \in Nat /\ Buckets(t) \subseteq Nat /\ \A c \in Buckets(t) : c < Past(t)
  BY <1>1, PastIs
<1>3. /\ it = [bucket |-> it.bucket, left |-> it.left]
      /\ it.bucket \in Placed(t) \cup {Past(t)} /\ it.left \subseteq t.list
      /\ it.bucket # Past(t) => it.left = t.list
  BY DEF Iterators
<1>4. Placed(t) \subseteq Nat /\ \A p \in Placed(t) : p < Past(t)
  BY <1>2 DEF Placed
<1>5. end(t) = [bucket |-> Past(t), left |-> {}] /\ end(t).bucket = Past(t)
  BY DEF end, Past
<1>6. CASE it.bucket = Past(t)
  <2>1. {p \in Placed(t) : it.bucket <= p} = {}
    BY <1>2, <1>4, <1>6
  <2>2. Ahead(t, it) = it.left
    BY <2>1 DEF Ahead
  <2>3. key(t, it) = CHOOSE k \in it.left : TRUE
    BY <1>5, <1>6 DEF key
  <2>4. Advance(t, it) = [it EXCEPT !.left = it.left \ {key(t, it)}]
    BY <1>5, <1>6 DEF Advance
  <2> DEFINE next == Advance(t, it)
  <2>5. /\ next.bucket = Past(t) /\ next.left = it.left \ {key(t, it)}
        /\ next = [bucket |-> next.bucket, left |-> next.left]
    BY <2>4, <1>3, <1>6
  <2> HIDE DEF next
  <2>6. next \in Iterators(t)
    BY <2>5, <1>3 DEF Iterators
  <2>7. Ahead(t, next) = it.left \ {key(t, it)}
    <3>1. {p \in Placed(t) : next.bucket <= p} = {}
      BY <2>5, <1>2, <1>4
    <3> QED
      BY <3>1, <2>5 DEF Ahead
  <2>8. it # end(t) <=> it.left # {}
    BY <1>3, <1>5, <1>6
  <2>9. it.left # {} => key(t, it) \in it.left
    BY <2>3
  <2> QED
    BY <2>2, <2>6, <2>7, <2>8, <2>9 DEF next
<1>7. CASE it.bucket # Past(t)
  <2> DEFINE b == it.bucket
             e == AtBucket(t, b + 1)
  <2>1. b \in Placed(t) /\ b \in Nat /\ b + 1 \in Nat /\ b + 1 <= Past(t) /\ it.left = t.list
    BY <1>2, <1>3, <1>4, <1>7
  <2>2. key(t, it) = Value(t, b)
    BY <1>5, <1>7 DEF key, Value
  <2>3. Advance(t, it) = [it EXCEPT !.bucket = e]
    BY <1>5, <1>7 DEF Advance
  <2>4. /\ e \in Placed(t) \cup {Past(t)} /\ b + 1 <= e
        /\ {p \in Placed(t) : b + 1 <= p} = {p \in Placed(t) : e <= p}
    <3> HIDE DEF b
    <3> QED
      BY <2>1, <1>1, NextBucket
  <2> DEFINE next == Advance(t, it)
  <2> HIDE DEF e
  <2>5. next = [bucket |-> e, left |-> t.list]
    BY <2>1, <2>3, <1>3
  <2> HIDE DEF next
  <2>6. next \in Iterators(t)
    BY <2>4, <2>5 DEF Iterators
  <2>7. {p \in Placed(t) : b <= p} = {p \in Placed(t) : e <= p} \cup {b}
    BY <2>1, <2>4, <1>4
  <2>8. Ahead(t, it) = {Value(t, p) : p \in {q \in Placed(t) : e <= q}} \cup {Value(t, b)} \cup t.list
    BY <2>1, <2>7 DEF Ahead
  <2>9. Ahead(t, next) = {Value(t, p) : p \in {q \in Placed(t) : e <= q}} \cup t.list
    BY <2>5 DEF Ahead
  <2>10. Value(t, b) \notin Ahead(t, next)
    <3>1. Value(t, b) \notin t.list
      BY <2>1, <1>1 DEF Once
    <3>2. \A p \in Placed(t) : e <= p => Value(t, p) # Value(t, b)
      <4>1. e \in Nat /\ \A p \in Placed(t) : e <= p => p # b
        BY <2>1, <2>4, <1>2, <1>4
      <4> QED
        BY <4>1, <2>1, <1>1 DEF Once
    <3> QED
      BY <2>9, <3>1, <3>2
  <2>11. it # end(t)
    BY <1>5, <1>7
  <2> QED
    BY <2>2, <2>6, <2>8, <2>9, <2>10, <2>11 DEF next
<1> QED
  BY <1>6, <1>7

(* The positions of a loop. *)
Loops(at, t) ==
  at = [n \in 0..t.nb_elements |-> IF n = 0 THEN begin(t) ELSE Advance(t, at[n - 1])]

LEMMA LoopIs ==
  ASSUME NEW t, Good(t), NEW w, w = CHOOSE at : Loops(at, t)
  PROVE  /\ w[0] = begin(t) /\ DOMAIN w = 0..t.nb_elements
         /\ \A n \in 1..t.nb_elements : w[n] = Advance(t, w[n - 1])
<1> DEFINE V == Iterators(t)
           N == t.nb_elements
           F == [n \in 1..N |-> [it \in V |-> Advance(t, it)]]
<1>1. N \in Nat
  BY Size
<1>2. begin(t) \in V /\ F \in [1..N -> [V -> V]]
  BY Begins, Advances
<1>3. PICK f : Iterates(f, V, begin(t), N, F)
  <2> HIDE DEF V, F, N
  <2> QED
    BY <1>1, <1>2, Iteration
<1>4. f \in [0..N -> V] /\ f[0] = begin(t) /\ \A n \in 1..N : f[n] = F[n][f[n - 1]]
  BY <1>3 DEF Iterates
<1>5. ASSUME NEW n \in 0..N
      PROVE  f[n] = IF n = 0 THEN begin(t) ELSE Advance(t, f[n - 1])
  <2>1. CASE n = 0
    BY <2>1, <1>4
  <2>2. CASE n # 0
    <3>1. n \in 1..N /\ n - 1 \in 0..N
      BY <2>2, <1>1
    <3>2. f[n - 1] \in V
      BY <3>1, <1>4
    <3> QED
      BY <3>1, <3>2, <2>2, <1>4
  <2> QED
    BY <2>1, <2>2
<1>6. Loops(f, t)
  BY <1>4, <1>5 DEF Loops
<1>7. Loops(w, t)
  BY <1>6
<1>8. w = [n \in 0..N |-> IF n = 0 THEN begin(t) ELSE Advance(t, w[n - 1])]
  BY <1>7 DEF Loops
<1>9. \A n \in 0..N : w[n] = IF n = 0 THEN begin(t) ELSE Advance(t, w[n - 1])
  BY <1>8, Zenon
<1>10. DOMAIN w = 0..N
  BY <1>8
<1> QED
  BY <1>1, <1>9, <1>10

LEMMA LoopMeetsAll ==
  ASSUME NEW t, Good(t), NEW w, w = CHOOSE at : Loops(at, t)
  PROVE  /\ \A n \in 0..t.nb_elements : w[n] # end(t) <=> n < t.nb_elements
         /\ {key(t, w[n]) : n \in 0..(t.nb_elements - 1)} = All(t)
<1> DEFINE N == t.nb_elements
           met(n) == {key(t, w[m]) : m \in 0..(n - 1)}
           P(n) == /\ w[n] \in Iterators(t)
                   /\ IsFiniteSet(Ahead(t, w[n])) /\ Cardinality(Ahead(t, w[n])) = N - n
                   /\ met(n) \cup Ahead(t, w[n]) = All(t)
           S == {n \in Nat : n <= N => P(n)}
<1>1. N \in Nat /\ IsFiniteSet(All(t)) /\ Cardinality(All(t)) = N
  BY Size
<1>2. w[0] = begin(t) /\ \A n \in 1..N : w[n] = Advance(t, w[n - 1])
  BY LoopIs
<1> HIDE DEF N
<1>3. P(0)
  <2>1. met(0) = {}
    OBVIOUS
  <2>2. Ahead(t, w[0]) = All(t) /\ w[0] \in Iterators(t)
    BY <1>2, Begins
  <2>3. N - 0 = N
    BY <1>1
  <2> HIDE DEF met
  <2> QED
    BY <2>1, <2>2, <2>3, <1>1
<1>4. ASSUME NEW n \in Nat, n + 1 <= N, P(n)
      PROVE  P(n + 1)
  <2> HIDE DEF met
  <2>1. n + 1 \in 1..N /\ (n + 1) - 1 = n /\ N - n # 0
    BY <1>1, <1>4
  <2>2. w[n + 1] = Advance(t, w[n])
    BY <2>1, <1>2
  <2>3. /\ w[n] \in Iterators(t) /\ IsFiniteSet(Ahead(t, w[n]))
        /\ Cardinality(Ahead(t, w[n])) = N - n /\ met(n) \cup Ahead(t, w[n]) = All(t)
    BY <1>4
  <2>4. Ahead(t, w[n]) # {}
    BY <2>1, <2>3, FS_EmptySet
  <2>5. /\ w[n + 1] \in Iterators(t) /\ key(t, w[n]) \in Ahead(t, w[n])
        /\ Ahead(t, w[n + 1]) = Ahead(t, w[n]) \ {key(t, w[n])}
    BY <2>2, <2>3, <2>4, Advances
  <2>6. IsFiniteSet(Ahead(t, w[n + 1])) /\ Cardinality(Ahead(t, w[n + 1])) = N - n - 1
    <3> DEFINE A == Ahead(t, w[n])
               k == key(t, w[n])
    <3>1. IsFiniteSet(A) /\ Cardinality(A) = N - n /\ k \in A
      BY <2>3, <2>5
    <3>2. Ahead(t, w[n + 1]) = A \ {k}
      BY <2>5
    <3> HIDE DEF A, k, P, S
    <3>3. IsFiniteSet(A \ {k}) /\ Cardinality(A \ {k}) = Cardinality(A) - 1
      BY <3>1, FS_RemoveElement
    <3> QED
      BY <3>1, <3>2, <3>3
  <2>7. met(n + 1) = met(n) \cup {key(t, w[n])}
    <3>1. 0..((n + 1) - 1) = 0..(n - 1) \cup {n}
      OBVIOUS
    <3> QED
      BY <3>1 DEF met
  <2>8. met(n + 1) \cup Ahead(t, w[n + 1]) = All(t)
    BY <2>3, <2>5, <2>7
  <2>9. N - n - 1 = N - (n + 1)
    BY <1>1
  <2> QED
    BY <2>5, <2>6, <2>8, <2>9
<1>5. \A n \in 0..N : P(n)
  <2> HIDE DEF P
  <2>1. 0 \in S
    BY <1>3
  <2>2. \A n \in Nat : n \in S => n + 1 \in S
    <3> SUFFICES ASSUME NEW n \in Nat, n \in S, n + 1 <= N
                 PROVE  P(n + 1)
      OBVIOUS
    <3>1. n <= N
      BY <1>1
    <3> QED
      BY <3>1, <1>4
  <2>3. Nat \subseteq S
    <3> HIDE DEF S
    <3> QED
      BY <2>1, <2>2, SetInduction
  <2> QED
    BY <2>3, <1>1
<1>6. ASSUME NEW n \in 0..N
      PROVE  w[n] # end(t) <=> n < N
  <2> HIDE DEF met
  <2>1. /\ w[n] \in Iterators(t) /\ IsFiniteSet(Ahead(t, w[n]))
        /\ Cardinality(Ahead(t, w[n])) = N - n
    BY <1>5
  <2>2. w[n] # end(t) <=> Ahead(t, w[n]) # {}
    BY <2>1, Advances
  <2>3. Ahead(t, w[n]) = {} <=> Cardinality(Ahead(t, w[n])) = 0
    BY <2>1, FS_EmptySet
  <2>4. N - n = 0 <=> ~(n < N)
    BY <1>1
  <2>5. Ahead(t, w[n]) = {} <=> ~(n < N)
    BY <2>1, <2>3, <2>4
  <2> QED
    BY <2>2, <2>5
<1>7. met(N) = All(t)
  <2> HIDE DEF met
  <2>1. N \in 0..N
    BY <1>1
  <2>2. /\ IsFiniteSet(Ahead(t, w[N])) /\ Cardinality(Ahead(t, w[N])) = N - N
        /\ met(N) \cup Ahead(t, w[N]) = All(t)
    BY <2>1, <1>5
  <2>3. Ahead(t, w[N]) = {}
    <3>1. Cardinality(Ahead(t, w[N])) = 0
      BY <2>2, <1>1
    <3> QED
      BY <2>2, <3>1, FS_EmptySet
  <2> QED
    BY <2>2, <2>3
<1> QED
  BY <1>6, <1>7 DEF N

(* A loop meets exactly the keys that lookups find, each once, and as many  *)
(* as the table counts, whatever calls have gone before.                    *)
THEOREM LoopFindsAllHolds == Spec => []LoopFindsAll
<1>1. ASSUME Inv
      PROVE  LoopFindsAll
  <2> SUFFICES ASSUME label = "ready"
               PROVE  LoopFindsAll
    BY DEF LoopFindsAll
  <2> DEFINE w == CHOOSE at :
               at = [n \in 0..table.nb_elements |->
                       IF n = 0 THEN begin(table) ELSE Advance(table, at[n - 1])]
             N == table.nb_elements
             passed == {n \in DOMAIN w : w[n] # end(table)}
  <2>1. Good(table) /\ calls = <<>>
    BY <1>1, InnermostIs DEF Inv, Labels
  <2>2. w = CHOOSE at : Loops(at, table)
    BY DEF Loops
  <2> HIDE DEF w
  <2>3. /\ w[0] = begin(table) /\ DOMAIN w = 0..N
        /\ \A n \in 0..N : w[n] # end(table) <=> n < N
        /\ {key(table, w[n]) : n \in 0..(N - 1)} = All(table)
    <3>1. w[0] = begin(table) /\ DOMAIN w = 0..N
      BY <2>1, <2>2, LoopIs
    <3>2. /\ \A n \in 0..N : w[n] # end(table) <=> n < N
          /\ {key(table, w[n]) : n \in 0..(N - 1)} = All(table)
      BY <2>1, <2>2, LoopMeetsAll
    <3> QED
      BY <3>1, <3>2
  <2>4. N \in Nat /\ Cardinality(All(table)) = N
    BY <2>1, Size
  <2> HIDE DEF N
  <2>5. passed = 0..(N - 1)
    BY <2>3, <2>4
  <2>6. Contents = All(table)
    BY <1>1, <2>1, ServedIs
  <2>7. N = 0 <=> begin(table) = end(table)
    BY <2>3, <2>4
  <2>8. {key(table, w[n]) : n \in passed} = Contents
    BY <2>3, <2>5, <2>6
  <2>9. /\ N = 0 <=> begin(table) = end(table)
        /\ passed = 0..(N - 1)
        /\ {key(table, w[n]) : n \in passed} = Contents
        /\ Cardinality(Contents) = N
    BY <2>4, <2>5, <2>6, <2>7, <2>8
  <2> QED
    BY <2>9 DEF LoopFindsAll, w, N, empty
<1> QED
  BY <1>1, InvHolds, PTL

=============================================================================
