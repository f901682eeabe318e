----------------------------- MODULE HopscotchHash -----------------------------
(***************************************************************************)
(* hopscotch_hash, the hash table in which hnsw_index keeps its nodes and  *)
(* its levels, with power_of_two_growth_policy.  A key lies in one of the  *)
(* NeighborhoodSize buckets from its home on, and the home says in which;  *)
(* keys for which no place can be made are in a list, and the home says    *)
(* that there are some.                                                    *)
(*                                                                         *)
(* Keys are node numbers, whose std::hash is the number itself.  The       *)
(* mapped values are left out, and so is the order of the list.            *)
(*                                                                         *)
(* A rehash builds another table and inserts the keys in it, and any of    *)
(* these insertions may rehash in turn.  So a table is a record t, a step  *)
(* is one turn of a loop, and calls is the stack of the rehashes that wait *)
(* for the insertion that label and todo are about.                        *)
(***************************************************************************)
EXTENDS Integers, SequencesExt

CONSTANTS
  Keys,               \* node numbers
  NeighborhoodSize,
  InitCount,          \* DEFAULT_INIT_BUCKETS_SIZE
  MaxExponent         \* max_bucket_count() is 2^MaxExponent

VARIABLES
  table,  \* the table, or the one that the innermost rehash is filling
  todo,   \* the key that insert_impl is inserting, None outside of it
  label,  \* where the call is
  hole,   \* ibucket_empty
  calls   \* the rehashes going on: the table each began with, the bucket it
          \* has come to, the key and the label that are next when it is over

vars == <<table, todo, label, hole, calls>>

None == -1

(* The sizes of a table, from MIN_BUCKETS_SIZE on. *)
Counts ==
  LET power[i \in 0..MaxExponent] == IF i = 0 THEN 1 ELSE 2 * power[i - 1]
  IN  {power[i] : i \in 1..MaxExponent}

(* The policy throws an error when more buckets are asked for. *)
WithinMaximum(n) == \E c \in Counts : c >= n

RoundUp(n) == Min({c \in Counts : c >= n})

ASSUME TableAssumption ==
  /\ Keys \subseteq Nat /\ IsFiniteSet(Keys)
  /\ NeighborhoodSize \in Nat /\ NeighborhoodSize >= 4
  /\ MaxExponent \in Nat /\ InitCount \in Nat /\ WithinMaximum(InitCount)

(* hopscotch_bucket: a key, the offsets of the buckets that hold keys which *)
(* have this one as home, and whether the list holds some.                  *)
empty_bucket == [value |-> None, neighbors |-> {}, overflow |-> FALSE]

(* The constructor.  The array is longer than bucket_count(), so that the   *)
(* last home has all its neighbors.                                         *)
New(count) ==
  LET c == RoundUp(count)
      B == 0..(c + NeighborhoodSize - 2)
  IN  [count |-> c, nb_elements |-> 0, list |-> {}, bucket |-> [b \in B |-> empty_bucket]]

bucket_for_hash(t, k) == k % t.count

Buckets(t) == DOMAIN t.bucket

load_threshold(t) == (9 * t.count) \div 10         \* DEFAULT_MAX_LOAD_FACTOR
min_rehash_threshold(t) == t.count \div 10         \* MIN_LOAD_FACTOR_FOR_REHASH

toggle_neighbor_presence(t, home, o) ==
  [t EXCEPT !.bucket[home].neighbors = (@ \ {o}) \cup ({o} \ @)]

(* swap_value_into_empty_bucket *)
MoveValue(t, from, to) ==
  [t EXCEPT !.bucket[to].value = t.bucket[from].value, !.bucket[from].value = None]

Divided(n, d) == (n + d - 1) \div d                \* rounded up

-----------------------------------------------------------------------------
(* find_in_buckets and find_impl *)
FindInBuckets(t, k) ==
  LET home == bucket_for_hash(t, k)
  IN  {home + i : i \in {o \in t.bucket[home].neighbors : t.bucket[home + o].value = k}}

Find(t, k) ==
  FindInBuckets(t, k) # {} \/ (t.bucket[bucket_for_hash(t, k)].overflow /\ k \in t.list)

(* find_empty_bucket, within MAX_PROBES_FOR_EMPTY_BUCKET; the number of     *)
(* buckets if there is none.                                                *)
FindEmpty(t, home) ==
  LET near == {b \in Buckets(t) : home <= b /\ b < home + 12 * NeighborhoodSize}
  IN  Min({b \in near : t.bucket[b].value = None} \cup {Cardinality(Buckets(t))})

FaultMovable(t, e) ==    \* moves keys forward too
  {m \in ((e - NeighborhoodSize + 1)..(e - 1)) \X (0..(NeighborhoodSize - 1)) :
     m[2] \in t.bucket[m[1]].neighbors}

(* swap_empty_bucket_closer: a home before the empty bucket and within      *)
(* reach of it, and the offset of one of its keys.                          *)
Movable(t, e) ==
  {m \in ((e - NeighborhoodSize + 1)..(e - 1)) \X (0..(NeighborhoodSize - 1)) :
     m[2] \in t.bucket[m[1]].neighbors /\ m[1] + m[2] < e}

(* The first key of the earliest such home. *)
FirstMovable(t, e) ==
  CHOOSE m \in Movable(t, e) : \A n \in Movable(t, e) :
    m[1] < n[1] \/ (m[1] = n[1] /\ m[2] <= n[2])

FaultHop(t, e, m) ==    \* the home still says that the key is where it was
  toggle_neighbor_presence(MoveValue(t, m[1] + m[2], e), m[1], e - m[1])

(* The key at offset m[2] of home m[1] goes into the empty bucket e. *)
Hop(t, e, m) ==
  LET told == toggle_neighbor_presence(MoveValue(t, m[1] + m[2], e), m[1], e - m[1])
  IN  toggle_neighbor_presence(told, m[1], m[2])

(* will_neighborhood_change_on_rehash *)
WillChange(t, home) ==
  \E b \in Buckets(t) :
    /\ home <= b /\ b < home + NeighborhoodSize
    /\ bucket_for_hash(t, t.bucket[b].value) # t.bucket[b].value % (2 * t.count)

InsertInBucket(t, k, e) ==
  LET home == bucket_for_hash(t, k)
  IN  toggle_neighbor_presence(
        [t EXCEPT !.bucket[e].value = k, !.nb_elements = @ + 1], home, e - home)

InsertInOverflow(t, k) ==
  [t EXCEPT !.list = @ \cup {k}, !.bucket[bucket_for_hash(t, k)].overflow = TRUE,
            !.nb_elements = @ + 1]

(* rehash rounds its count up, so that the elements fit.                    *)
AtLeast(t, count) == Max({count, Divided(10 * t.nb_elements, 9)})

FaultTakeOver(t, count) ==    \* the homes are not told of the list
  LET n == New(AtLeast(t, count))
  IN  [n EXCEPT !.list = t.list, !.nb_elements = Cardinality(t.list)]

(* A rehash begins with a new table that has the list of the old one.       *)
TakeOver(t, count) ==
  LET n == New(AtLeast(t, count))
  IN  [n EXCEPT !.list = t.list, !.nb_elements = Cardinality(t.list),
                !.bucket = [b \in DOMAIN @ |-> [@[b] EXCEPT
                   !.overflow = \E k \in t.list : bucket_for_hash(n, k) = b]]]

EraseFromBucket(t, k, b) ==
  LET home == bucket_for_hash(t, k)
  IN  toggle_neighbor_presence(
        [t EXCEPT !.bucket[b].value = None, !.nb_elements = @ - 1], home, b - home)

EraseFromOverflow(t, k) ==
  LET home == bucket_for_hash(t, k)
  IN  [t EXCEPT !.list = @ \ {k}, !.nb_elements = @ - 1,
                !.bucket[home].overflow = \E x \in t.list \ {k} : bucket_for_hash(t, x) = home]

-----------------------------------------------------------------------------
Init ==
  /\ table = New(InitCount) /\ todo = None
  /\ label = "ready" /\ hole = None /\ calls = <<>>

(* insert_impl and rehash_impl.                                             *)
(*                                                                          *)
(* "insert" is the beginning of insert_impl, "probe" what follows the test  *)
(* of the load, "place" the loop that looks for a bucket; "rehash" is the   *)
(* loop over the buckets of the old table.                                  *)

Home == bucket_for_hash(table, todo)

Top == calls[Len(calls)]

(* Where an insertion returns to. *)
Caller == IF calls = <<>> THEN "ready" ELSE "rehash"

Return(t) ==
  /\ table' = t /\ todo' = None /\ label' = Caller /\ hole' = None
  /\ UNCHANGED calls

(* t is rehashed; after that, k is inserted from the label back on. *)
Rehash(t, count, k, back) ==
  /\ WithinMaximum(AtLeast(t, count))
  /\ calls' = Append(calls, [old |-> t, next |-> 0, key |-> k, back |-> back])
  /\ table' = TakeOver(t, count)
  /\ todo' = None /\ label' = "rehash" /\ hole' = None

Overloaded(t) == t.nb_elements - Cardinality(t.list) >= load_threshold(t)

Load ==
  /\ label = "insert" /\ Overloaded(table)
  /\ Rehash(table, 2 * table.count, todo, "probe")

Probe ==
  /\ label = "probe" \/ (label = "insert" /\ ~Overloaded(table))
  /\ label' = "place" /\ hole' = FindEmpty(table, Home)
  /\ UNCHANGED <<table, todo, calls>>

InReach == hole - Home < NeighborhoodSize

CanSwap == hole # Cardinality(Buckets(table)) /\ Movable(table, hole) # {}

PlaceInBucket ==
  /\ label = "place" /\ InReach
  /\ Return(InsertInBucket(table, todo, hole))

Swap ==
  /\ label = "place" /\ ~InReach /\ CanSwap
  /\ LET m == FirstMovable(table, hole)
     IN  table' = Hop(table, hole, m) /\ hole' = m[1] + m[2]
  /\ UNCHANGED <<todo, label, calls>>

(* will_neighborhood_change_on_rehash asks the policy for the next size. *)
ToList ==
  \/ table.nb_elements < min_rehash_threshold(table)
  \/ WithinMaximum(2 * table.count) /\ ~WillChange(table, Home)

PlaceInList ==
  /\ label = "place" /\ ~InReach /\ ~CanSwap /\ ToList
  /\ Return(InsertInOverflow(table, todo))

Grow ==
  /\ label = "place" /\ ~InReach /\ ~CanSwap /\ ~ToList
  /\ Rehash(table, 2 * table.count, todo, "insert")

(* The keys in the old table's buckets that are still to be inserted.       *)
Left(f) == {b \in Buckets(f.old) : f.next <= b /\ f.old.bucket[b].value # None}

RehashNext ==
  /\ label = "rehash" /\ Left(Top) # {}
  /\ LET b == Min(Left(Top))
     IN  /\ todo' = Top.old.bucket[b].value
         /\ calls' = [calls EXCEPT ![Len(calls)].next = b + 1]
  /\ label' = "insert" /\ UNCHANGED <<table, hole>>

RehashEnd ==
  /\ label = "rehash" /\ Left(Top) = {}
  /\ todo' = Top.key /\ label' = Top.back /\ calls' = Front(calls)
  /\ UNCHANGED <<table, hole>>

(* insert and emplace; a key that is there is left alone. *)
Insert(k) ==
  /\ label = "ready" /\ ~Find(table, k)
  /\ todo' = k /\ label' = "insert" /\ UNCHANGED <<table, hole, calls>>

Erased(t, k) ==
  IF FindInBuckets(t, k) # {} THEN EraseFromBucket(t, k, Min(FindInBuckets(t, k)))
  ELSE EraseFromOverflow(t, k)

(* hnsw_index::remove makes a table smaller that became too sparse.         *)
TooSparse(t) == 40 * t.nb_elements < 9 * t.count

(* erase, and what hnsw_index::remove does after it. *)
Erase(k) ==
  LET t == Erased(table, k)
  IN  /\ label = "ready" /\ Find(table, k)
      /\ IF TooSparse(t) THEN Rehash(t, (20 * t.nb_elements) \div 9, None, "ready")
         ELSE table' = t /\ UNCHANGED <<todo, label, hole, calls>>

(* A call that goes on. *)
Work ==
  \/ Load \/ Probe \/ PlaceInBucket \/ Swap \/ PlaceInList \/ Grow
  \/ RehashNext \/ RehashEnd

Next == Work \/ \E k \in Keys : Insert(k) \/ Erase(k)

(* Nothing but the thread that made the call takes part in it. *)
Spec == Init /\ [][Next]_vars /\ WF_vars(Work)

-----------------------------------------------------------------------------
(* The table as the last call left it: the keys that a rehash has moved are *)
(* put back in it if the rehash fails, and stay in the model's copy of it.  *)
Served == IF calls = <<>> THEN table ELSE calls[1].old

(* count, find and at: the keys that a lookup finds. *)
Contents == {k \in Keys : Find(Served, k)}

(* An iterator is at a bucket, past the last one when it goes through the   *)
(* list; left is what it has before it there.                               *)
AtBucket(t, b) ==
  Min({c \in Buckets(t) : c >= b /\ t.bucket[c].value # None} \cup {Cardinality(Buckets(t))})

begin(t) == [bucket |-> AtBucket(t, 0), left |-> t.list]

end(t) == [bucket |-> Cardinality(Buckets(t)), left |-> {}]

key(t, it) ==
  IF it.bucket # end(t).bucket THEN t.bucket[it.bucket].value
  ELSE CHOOSE k \in it.left : TRUE

FaultAdvance(t, it) ==    \* stops at empty buckets too
  IF it.bucket = end(t).bucket THEN [it EXCEPT !.left = @ \ {key(t, it)}]
  ELSE [it EXCEPT !.bucket = @ + 1]

(* operator++ *)
Advance(t, it) ==
  IF it.bucket = end(t).bucket THEN [it EXCEPT !.left = @ \ {key(t, it)}]
  ELSE [it EXCEPT !.bucket = AtBucket(t, it.bucket + 1)]

empty(t) == t.nb_elements = 0

(* What the call that goes on is to put in. *)
Shrinking == -2

Call ==
  IF label = "ready" THEN None
  ELSE LET k == IF calls = <<>> THEN todo ELSE calls[1].key
       IN  IF k = None THEN Shrinking ELSE k

-----------------------------------------------------------------------------
(* A loop from begin to end meets exactly the keys that lookups find, each  *)
(* once: hnsw_index::check goes through its nodes so, and a search begins   *)
(* at the first key of the top level, which is there unless it is empty.    *)
LoopFindsAll ==
  label = "ready" =>
    LET at[n \in 0..table.nb_elements] ==
          IF n = 0 THEN begin(table) ELSE Advance(table, at[n - 1])
        passed == {n \in DOMAIN at : at[n] # end(table)}
    IN  /\ empty(table) <=> begin(table) = end(table)
        /\ passed = 0..(table.nb_elements - 1)
        /\ {key(table, at[n]) : n \in passed} = Contents
        /\ Cardinality(Contents) = table.nb_elements

(* The table is in order: a home knows of exactly the buckets that hold its *)
(* keys, and of the list exactly when it has a key there; no key is in two  *)
(* places, all are counted, and the load is not exceeded.                   *)
TableOK ==
  LET value == [b \in Buckets(table) |-> table.bucket[b].value]
      placed == {b \in Buckets(table) : value[b] # None}
  IN  /\ \A h \in Buckets(table) :
           /\ table.bucket[h].neighbors =
                {b - h : b \in {p \in placed : bucket_for_hash(table, value[p]) = h}}
           /\ table.bucket[h].neighbors \subseteq 0..(NeighborhoodSize - 1)
           /\ table.bucket[h].overflow = \E k \in table.list : bucket_for_hash(table, k) = h
      /\ IsInjective(Restrict(value, placed))
      /\ table.list \cap {value[b] : b \in placed} = {}
      /\ table.nb_elements = Cardinality(placed) + Cardinality(table.list)
      /\ Cardinality(placed) <= load_threshold(table)

(* Every insertion and removal ends: the hops bring the empty bucket into   *)
(* reach or stop, and the rehashes within rehashes become fewer again.      *)
CallsEnd == label # "ready" ~> label = "ready"

(* Whatever hops, rehashes and shrinks an insertion or a removal makes, the *)
(* keys that are found change by the key it is about and by no other, and   *)
(* only once in the call.                                                   *)
Set == INSTANCE KeySet WITH keys <- Contents, call <- Call, Idle <- None, Busy <- Shrinking

ImplementsKeySet == Set!Spec
=============================================================================
