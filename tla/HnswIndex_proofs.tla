--------------------------- MODULE HnswIndex_proofs ---------------------------
(***************************************************************************)
(* Proofs about HnswIndex: after any insertions, moves and removals the    *)
(* index passes its own check(), no node has more than one link too many,  *)
(* and the stored distances are true.                                      *)
(***************************************************************************)
EXTENDS HnswIndex, DataFacts

LayerType == [out : [Keys -> LinkMaps], inc : [Keys -> SUBSET Keys]]

(* A layer whose members are M: links join different members, and each is   *)
(* answered.                                                                *)
Answered(g, M) ==
  \A k \in Keys :
    /\ k \notin DOMAIN g.out[k]
    /\ DOMAIN g.out[k] \subseteq M
    /\ k \notin M => DOMAIN g.out[k] = {}
    /\ \A x \in Keys : x \in DOMAIN g.out[k] <=> k \in g.inc[x]

(* Stored distances are true, but for the nodes in St. *)
True(g, v, St) ==
  \A k \in Keys \ St : \A x \in DOMAIN g.out[k] \ St :
    g.out[k][x] = distance(v[k], v[x])

Good(M, v, St) == {g \in LayerType : Answered(g, M) /\ True(g, v, St)}

Degree(g, k) == Cardinality(DOMAIN g.out[k])

-----------------------------------------------------------------------------
LEMMA KeySets ==
  ASSUME NEW S, S \subseteq Keys
  PROVE  IsFiniteSet(S) /\ Cardinality(S) \in Nat
BY IndexAssumption, FS_Subset, FS_CardinalityType DEF IndexAssumption

LEMMA LinkMapType ==
  ASSUME NEW f \in LinkMaps
  PROVE  DOMAIN f \subseteq Keys /\ f \in [DOMAIN f -> Distances]
BY DEF LinkMaps

LEMMA LinkMapIntro ==
  ASSUME NEW S \in SUBSET Keys, NEW f \in [S -> Distances]
  PROVE  f \in LinkMaps /\ DOMAIN f = S
BY DEF LinkMaps

LEMMA DistanceType ==
  /\ Distances \subseteq Nat
  /\ \A p, q \in Places : distance(p, q) \in Distances /\ distance(p, q) = distance(q, p)
<1>1. ASSUME NEW p \in Places, NEW q \in Places
      PROVE  distance(p, q) \in Nat /\ distance(p, q) = distance(q, p)
  <2>1. p \in Int /\ q \in Int
    BY IndexAssumption DEF IndexAssumption
  <2>2. \A i \in Int : i * i \in Nat /\ (-i) * (-i) = i * i
    OBVIOUS
  <2>3. p - q \in Int /\ q - p = -(p - q)
    BY <2>1
  <2> QED BY <2>2, <2>3 DEF distance
<1> QED BY <1>1 DEF Distances

(* What Link and Unlink do to the layer. *)
LEMMA LinkFields ==
  ASSUME NEW g \in LayerType, NEW n \in Keys, NEW x \in Keys, NEW d \in Distances
  PROVE  /\ Link(g, n, x, d) \in LayerType
         /\ DOMAIN Link(g, n, x, d).out[n] = DOMAIN g.out[n] \cup {x}
         /\ \A z \in DOMAIN g.out[n] : Link(g, n, x, d).out[n][z] = g.out[n][z]
         /\ x \notin DOMAIN g.out[n] => Link(g, n, x, d).out[n][x] = d
         /\ \A k \in Keys \ {n} : Link(g, n, x, d).out[k] = g.out[k]
<1> DEFINE h == Link(g, n, x, d)
           f == IF x \in DOMAIN g.out[n] THEN g.out[n]
                ELSE [z \in DOMAIN g.out[n] \cup {x} |-> IF z = x THEN d ELSE g.out[n][z]]
<1>1. /\ g.out \in [Keys -> LinkMaps] /\ g.inc \in [Keys -> SUBSET Keys]
      /\ g.out[n] \in LinkMaps
      /\ DOMAIN g.out[n] \subseteq Keys /\ g.out[n] \in [DOMAIN g.out[n] -> Distances]
  BY LinkMapType DEF LayerType
<1>2. DOMAIN f = DOMAIN g.out[n] \cup {x} /\ f \in [DOMAIN g.out[n] \cup {x} -> Distances]
  BY <1>1
<1>3. f \in LinkMaps
  <2> HIDE DEF f
  <2>1. DOMAIN g.out[n] \cup {x} \in SUBSET Keys
    BY <1>1
  <2> QED BY <1>2, <2>1, LinkMapIntro
<1>4. /\ \A z \in DOMAIN g.out[n] : f[z] = g.out[n][z]
      /\ x \notin DOMAIN g.out[n] => f[x] = d
  OBVIOUS
<1>5. h = [out |-> [g.out EXCEPT ![n] = f], inc |-> [g.inc EXCEPT ![x] = @ \cup {n}]]
  BY <1>1 DEF Link, LayerType
<1> HIDE DEF f, h
<1>6. h \in LayerType /\ h.out[n] = f /\ \A k \in Keys \ {n} : h.out[k] = g.out[k]
  BY <1>1, <1>3, <1>5 DEF LayerType
<1> QED BY <1>2, <1>4, <1>5, <1>6 DEF h

LEMMA UnlinkFields ==
  ASSUME NEW g \in LayerType, NEW n \in Keys, NEW x \in Keys
  PROVE  /\ Unlink(g, n, x) \in LayerType
         /\ DOMAIN Unlink(g, n, x).out[n] = DOMAIN g.out[n] \ {x}
         /\ \A z \in DOMAIN g.out[n] \ {x} : Unlink(g, n, x).out[n][z] = g.out[n][z]
         /\ \A k \in Keys \ {n} : Unlink(g, n, x).out[k] = g.out[k]
<1> DEFINE h == Unlink(g, n, x)
           f == [z \in DOMAIN g.out[n] \ {x} |-> g.out[n][z]]
<1>1. /\ g.out \in [Keys -> LinkMaps] /\ g.inc \in [Keys -> SUBSET Keys]
      /\ g.out[n] \in LinkMaps
      /\ DOMAIN g.out[n] \subseteq Keys /\ g.out[n] \in [DOMAIN g.out[n] -> Distances]
  BY LinkMapType DEF LayerType
<1>2. f \in [DOMAIN g.out[n] \ {x} -> Distances]
  BY <1>1
<1>3. f \in LinkMaps
  <2> HIDE DEF f
  <2>1. DOMAIN g.out[n] \ {x} \in SUBSET Keys
    BY <1>1
  <2> QED BY <1>2, <2>1, LinkMapIntro
<1>4. \A z \in DOMAIN g.out[n] \ {x} : f[z] = g.out[n][z]
  OBVIOUS
<1>5. h = [out |-> [g.out EXCEPT ![n] = f], inc |-> [g.inc EXCEPT ![x] = @ \ {n}]]
  BY <1>1 DEF Unlink, Restricted, LayerType
<1>6. DOMAIN f = DOMAIN g.out[n] \ {x}
  OBVIOUS
<1> HIDE DEF f, h
<1>7. h \in LayerType /\ h.out[n] = f /\ \A k \in Keys \ {n} : h.out[k] = g.out[k]
  BY <1>1, <1>3, <1>5 DEF LayerType
<1> QED BY <1>4, <1>5, <1>6, <1>7 DEF h

LEMMA LinkGood ==
  ASSUME NEW M \in SUBSET Keys, NEW v, NEW St, NEW g \in Good(M, v, St),
         NEW n \in M, NEW x \in M, n # x, NEW d \in Distances,
         {n, x} \cap St = {} => d = distance(v[n], v[x])
  PROVE  Link(g, n, x, d) \in Good(M, v, St)
<1>1. /\ g \in LayerType /\ Answered(g, M) /\ True(g, v, St) /\ n \in Keys /\ x \in Keys
      /\ g.inc \in [Keys -> SUBSET Keys]
  BY DEF Good, LayerType
<1> DEFINE h == Link(g, n, x, d)
<1> HIDE DEF h
<1>2. /\ h \in LayerType /\ DOMAIN h.out[n] = DOMAIN g.out[n] \cup {x}
      /\ \A z \in DOMAIN g.out[n] : h.out[n][z] = g.out[n][z]
      /\ x \notin DOMAIN g.out[n] => h.out[n][x] = d
      /\ \A k \in Keys \ {n} : h.out[k] = g.out[k]
  <2>1. g \in LayerType /\ n \in Keys /\ x \in Keys /\ d \in Distances
    BY <1>1
  <2> QED BY <2>1, LinkFields DEF h
<1>3. h.inc = [g.inc EXCEPT ![x] = @ \cup {n}]
  BY DEF h, Link
<1>4. Answered(h, M)
  BY <1>1, <1>2, <1>3 DEF Answered
<1>5. True(h, v, St)
  BY <1>1, <1>2 DEF True
<1> QED BY <1>2, <1>4, <1>5 DEF Good, h

LEMMA UnlinkGood ==
  ASSUME NEW M \in SUBSET Keys, NEW v, NEW St, NEW g \in Good(M, v, St),
         NEW n \in Keys, NEW x \in Keys
  PROVE  Unlink(g, n, x) \in Good(M, v, St)
<1> DEFINE h == Unlink(g, n, x)
<1>1. /\ g \in LayerType /\ Answered(g, M) /\ True(g, v, St)
      /\ g.inc \in [Keys -> SUBSET Keys]
  BY DEF Good, LayerType
<1>2. /\ h \in LayerType /\ DOMAIN h.out[n] = DOMAIN g.out[n] \ {x}
      /\ \A z \in DOMAIN g.out[n] \ {x} : h.out[n][z] = g.out[n][z]
      /\ \A k \in Keys \ {n} : h.out[k] = g.out[k]
  BY <1>1, UnlinkFields
<1> HIDE DEF h
<1>3. h.inc = [g.inc EXCEPT ![x] = @ \ {n}]
  BY DEF h, Unlink
<1>4. Answered(h, M)
  BY <1>1, <1>2, <1>3 DEF Answered
<1>5. True(h, v, St)
  BY <1>1, <1>2 DEF True
<1> QED BY <1>2, <1>4, <1>5 DEF Good, h

-----------------------------------------------------------------------------
(* A node that is chosen is one of those to choose from. *)

LEMMA NearestIn ==
  ASSUME NEW S, S # {}, NEW d, \A x \in S : d[x] \in Nat, NEW v, \A x \in S : v[x] \in Nat,
         \A x, z \in S : v[x] = v[z] => x = z
  PROVE  Nearest(S, d, v) \in S
<1> DEFINE D == {d[x] : x \in S}
           P == {v[x] : x \in {y \in S : d[y] = Min(D)}}
<1>1. Min(D) \in D /\ \A e \in D : Min(D) <= e
  <2>1. D \subseteq Nat /\ D # {}
    OBVIOUS
  <2> HIDE DEF D
  <2> QED BY <2>1, LeastNat
<1>2. Min(P) \in P /\ \A e \in P : Min(P) <= e
  <2>1. PICK x \in S : d[x] = Min(D)
    BY <1>1
  <2>2. P \subseteq Nat /\ v[x] \in P
    BY <2>1
  <2> HIDE DEF P
  <2> QED BY <2>2, LeastNat
<1>3. PICK x \in S : d[x] = Min(D) /\ v[x] = Min(P)
  BY <1>2
<1>4. ASSUME NEW z \in S \ {x} PROVE d[x] < d[z] \/ (d[x] = d[z] /\ v[x] < v[z])
  <2>1. d[z] \in D /\ d[x] <= d[z] /\ d[x] \in Nat /\ d[z] \in Nat
    BY <1>1, <1>3
  <2>2. ASSUME d[z] = d[x] PROVE v[x] < v[z]
    <3>1. v[z] \in P
      BY <1>3, <2>2
    <3>2. Min(P) <= v[z]
      BY <1>2, <3>1
    <3>3. v[x] <= v[z] /\ v[x] # v[z] /\ v[x] \in Nat /\ v[z] \in Nat
      BY <1>3, <3>2
    <3> QED BY <3>3
  <2> QED BY <2>1, <2>2
<1> QED BY <1>4 DEF Nearest

LEMMA ToType ==
  ASSUME NEW v \in [Keys -> Places], NEW p \in Places, NEW S \in SUBSET Keys
  PROVE  /\ To(S, p, v) \in [S -> Distances] /\ To(S, p, v) \in [S -> Nat]
         /\ \A x \in S : To(S, p, v)[x] = distance(p, v[x])
BY DistanceType DEF To

LEMMA SortedType ==
  ASSUME NEW S \in SUBSET Keys, NEW d \in [S -> Nat]
  PROVE  /\ Sorted(S, d) \in [1..Cardinality(S) -> S]
         /\ Len(Sorted(S, d)) = Cardinality(S) /\ Cardinality(S) \in Nat
<1>1. IsFiniteSet(S) /\ Cardinality(S) \in Nat
  BY KeySets
<1>2. Sorted(S, d) \in SetToSeqs(S)
  <2>1. \E s \in SetToSeqs(S) : \A i, j \in DOMAIN s : i < j => d[s[i]] <= d[s[j]]
    BY <1>1, InOrder
  <2> QED BY <2>1 DEF Sorted
<1>3. Sorted(S, d) \in [1..Cardinality(S) -> S]
  BY <1>2 DEF SetToSeqs
<1>4. \A s \in [1..Cardinality(S) -> S] : Len(s) = Cardinality(S)
  BY <1>1
<1> QED BY <1>1, <1>3, <1>4

(* No two of M are in one place. *)
Apart(M, v) == \A j, k \in M : v[j] = v[k] => j = k

LEMMA ReplacedIn ==
  ASSUME NEW M \in SUBSET Keys, NEW v \in [Keys -> Places], Apart(M, v),
         NEW S \in SUBSET M, S # {}, NEW links \in [S -> Nat], NEW nearer \in SUBSET S
  PROVE  LET furthest == {z \in S : links[z] = Max({links[y] : y \in S})}
         IN  Nearest(IF nearer = {} THEN furthest ELSE nearer, links, v) \in S
<1> DEFINE last == Max({links[y] : y \in S})
           furthest == {z \in S : links[z] = last}
           from == IF nearer = {} THEN furthest ELSE nearer
<1>1. IsFiniteSet(S)
  BY KeySets
<1>2. PICK z \in S : \A y \in S : links[y] <= links[z]
  BY <1>1, GreatestImage
<1>3. links[z] \in {links[y] : y \in S} /\ \A u \in {links[y] : y \in S} : links[z] >= u
  BY <1>2
<1>4. last \in {links[y] : y \in S}
  BY <1>3 DEF Max
<1>5. from \subseteq S /\ from # {}
  <2> HIDE DEF last
  <2> QED BY <1>4
<1> HIDE DEF last, furthest, from
<1>6. /\ \A y \in from : v[y] \in Nat
      /\ \A y, w \in from : v[y] = v[w] => y = w
  BY <1>5, IndexAssumption DEF Apart, IndexAssumption
<1>7. \A y \in from : links[y] \in Nat
  BY <1>5
<1>8. Nearest(from, links, v) \in from
  BY <1>5, <1>6, <1>7, NearestIn
<1> QED BY <1>5, <1>8 DEF from, furthest, last

LEMMA DegreeType ==
  ASSUME NEW M, NEW v, NEW St, NEW g \in Good(M, v, St), NEW k \in Keys
  PROVE  Degree(g, k) \in Nat
BY LinkMapType, KeySets DEF Degree, Good, LayerType

LEMMA LinkDegree ==
  ASSUME NEW g \in LayerType, NEW n \in Keys, NEW x \in Keys, NEW d \in Distances
  PROVE  /\ Degree(g, n) \in Nat /\ Degree(Link(g, n, x, d), n) \in Nat
         /\ Degree(Link(g, n, x, d), n) <= Degree(g, n) + 1
         /\ \A k \in Keys \ {n} : Link(g, n, x, d).out[k] = g.out[k]
<1>1. /\ DOMAIN Link(g, n, x, d).out[n] = DOMAIN g.out[n] \cup {x}
      /\ \A k \in Keys \ {n} : Link(g, n, x, d).out[k] = g.out[k]
  BY LinkFields
<1>2. IsFiniteSet(DOMAIN g.out[n])
  BY LinkMapType, KeySets DEF LayerType
<1> QED BY <1>1, <1>2, OneMore DEF Degree

LEMMA ExchangeDegree ==
  ASSUME NEW g \in LayerType, NEW n \in Keys, NEW x \in Keys, NEW d \in Distances,
         NEW r \in DOMAIN g.out[n], x \notin DOMAIN g.out[n]
  PROVE  /\ Degree(Link(Unlink(g, n, r), n, x, d), n) = Degree(g, n)
         /\ \A k \in Keys \ {n} : Link(Unlink(g, n, r), n, x, d).out[k] = g.out[k]
<1> DEFINE u == Unlink(g, n, r)
<1>1. r \in Keys /\ IsFiniteSet(DOMAIN g.out[n])
  BY LinkMapType, KeySets DEF LayerType
<1>2. /\ u \in LayerType /\ DOMAIN u.out[n] = DOMAIN g.out[n] \ {r}
      /\ \A k \in Keys \ {n} : u.out[k] = g.out[k]
  BY <1>1, UnlinkFields
<1> HIDE DEF u
<1>3. /\ DOMAIN Link(u, n, x, d).out[n] = DOMAIN u.out[n] \cup {x}
      /\ \A k \in Keys \ {n} : Link(u, n, x, d).out[k] = u.out[k]
  BY <1>2, LinkFields
<1>4. Cardinality((DOMAIN g.out[n] \ {r}) \cup {x}) = Cardinality(DOMAIN g.out[n])
  BY <1>1, Exchanged
<1> QED BY <1>2, <1>3, <1>4 DEF Degree, u

(* h is one of G, and g but for the links of n, which are within room unless *)
(* they were not before.                                                     *)
Offered(h, g, G, room, n) ==
  /\ h \in G
  /\ \A k \in Keys \ {n} : h.out[k] = g.out[k]
  /\ Degree(h, n) <= room \/ Degree(h, n) <= Degree(g, n)

LEMMA TryAddLinkGood ==
  ASSUME NEW M \in SUBSET Keys, NEW v \in [Keys -> Places], Apart(M, v), NEW St,
         NEW g \in Good(M, v, St), NEW room \in Nat \ {0},
         NEW n \in M, NEW x \in M, n # x, NEW d \in Distances,
         {n, x} \cap St = {} => d = distance(v[n], v[x])
  PROVE  Offered(TryAddLink(g, v, room, n, x, d), g, Good(M, v, St), room, n)
<1> DEFINE links == g.out[n]
           last == Max({links[z] : z \in DOMAIN links})
           apart(z) == distance(v[x], v[z])
           nearer == {z \in DOMAIN links : links[z] > d /\ links[z] > apart(z)}
           furthest == {z \in DOMAIN links : links[z] = last}
           r == Nearest(IF nearer = {} THEN furthest ELSE nearer, links, v)
           h == TryAddLink(g, v, room, n, x, d)
           refused == \/ x \in DOMAIN links \/ d >= last
                      \/ \E z \in DOMAIN links : links[z] <= d /\ apart(z) < d
<1>1. /\ g \in LayerType /\ Answered(g, M) /\ n \in Keys /\ x \in Keys
      /\ links \in LinkMaps
  BY DEF Good, LayerType
<1>2. DOMAIN links \subseteq M /\ links \in [DOMAIN links -> Nat]
  BY <1>1, LinkMapType, DistanceType DEF Answered
<1>3. Cardinality(DOMAIN links) = Degree(g, n) /\ Degree(g, n) \in Nat
  BY <1>1, <1>2, KeySets DEF Degree
<1>4. h = IF Degree(g, n) < room THEN Link(g, n, x, d)
          ELSE IF refused THEN g ELSE Link(Unlink(g, n, r), n, x, d)
  BY <1>3 DEF TryAddLink
<1>5. ~(Degree(g, n) < room) => r \in DOMAIN links
  <2> SUFFICES ASSUME ~(Degree(g, n) < room) PROVE r \in DOMAIN links
    OBVIOUS
  <2>1. DOMAIN links # {}
    BY <1>3, FS_EmptySet
  <2>2. nearer \in SUBSET DOMAIN links
    OBVIOUS
  <2> HIDE DEF links, nearer
  <2> QED BY <1>2, <2>1, <2>2, ReplacedIn
<1>6. x \in DOMAIN links => refused
  OBVIOUS
<1> HIDE DEF h, r, refused
<1>7. CASE Degree(g, n) < room
  <2>1. h = Link(g, n, x, d) /\ h \in Good(M, v, St)
    BY <1>4, <1>7, LinkGood
  <2>2. /\ Degree(h, n) \in Nat /\ Degree(h, n) <= Degree(g, n) + 1
        /\ \A k \in Keys \ {n} : h.out[k] = g.out[k]
    BY <1>1, <2>1, LinkDegree
  <2> QED BY <1>3, <1>7, <2>1, <2>2 DEF h, Offered
<1>8. CASE ~(Degree(g, n) < room) /\ refused
  <2>1. h = g
    BY <1>4, <1>8
  <2> QED BY <1>3, <2>1 DEF h, Offered
<1>9. CASE ~(Degree(g, n) < room) /\ ~refused
  <2>1. h = Link(Unlink(g, n, r), n, x, d) /\ r \in DOMAIN g.out[n] /\ x \notin DOMAIN g.out[n]
    BY <1>4, <1>5, <1>6, <1>9
  <2>2. Unlink(g, n, r) \in Good(M, v, St)
    BY <1>1, <1>2, <2>1, UnlinkGood
  <2>3. h \in Good(M, v, St)
    BY <2>1, <2>2, LinkGood
  <2>4. Degree(h, n) = Degree(g, n) /\ \A k \in Keys \ {n} : h.out[k] = g.out[k]
    BY <1>1, <2>1, ExchangeDegree
  <2> QED BY <1>3, <2>3, <2>4 DEF h, Offered
<1> QED BY <1>7, <1>8, <1>9

-----------------------------------------------------------------------------
(* select_diverse_links: some of the candidates, no more than there is room. *)

LEMMA OneMoreIfRoom ==
  ASSUME NEW S \in SUBSET Keys, NEW room \in Nat \ {0}, NEW z \in S,
         NEW a \in {b \in SUBSET S : Cardinality(b) <= room}, ~(Cardinality(a) >= room)
  PROVE  a \cup {z} \in {b \in SUBSET S : Cardinality(b) <= room}
<1>1. IsFiniteSet(a)
  BY KeySets
<1>2. Cardinality(a) \in Nat /\ Cardinality(a \cup {z}) \in Nat
      /\ Cardinality(a \cup {z}) <= Cardinality(a) + 1
  BY <1>1, OneMore
<1> QED BY <1>2

LEMMA ChosenType ==
  ASSUME NEW S \in SUBSET Keys, NEW room \in Nat \ {0}, NEW order, NEW N \in Nat,
         N = Len(order), \A i \in 1..N : order[i] \in S, NEW d, NEW v
  PROVE  Chosen(room, order, d, v) \in {a \in SUBSET S : Cardinality(a) <= room}
<1> DEFINE V == {a \in SUBSET S : Cardinality(a) <= room}
           waits(a, i) == \/ Cardinality(a) >= room
                          \/ \E z \in a : distance(v[order[i]], v[z]) < d[order[i]]
           next(a, i) == IF waits(a, i) THEN a ELSE a \cup {order[i]}
           F == [i \in 1..N |-> [a \in V |-> next(a, i)]]
           chosen[i \in 0..Len(order)] ==
               IF i = 0 THEN {}
               ELSE IF \/ Cardinality(chosen[i - 1]) >= room
                       \/ \E z \in chosen[i - 1] : distance(v[order[i]], v[z]) < d[order[i]]
               THEN chosen[i - 1] ELSE chosen[i - 1] \cup {order[i]}
<1>0. Chosen(room, order, d, v) = chosen[N]
  BY DEF Chosen
<1>1. {} \in V
  BY FS_EmptySet
<1>2. \A i \in 1..N : \A a \in V : ~(Cardinality(a) >= room) => a \cup {order[i]} \in V
  BY OneMoreIfRoom
<1>3. \A i \in 1..N : \A a \in V : next(a, i) \in V
  <2> HIDE DEF V
  <2> QED BY <1>2
<1> HIDE DEF V, next, chosen
<1>4. F \in [1..N -> [V -> V]]
  BY <1>3
<1>5. \A i \in 1..N : \A a \in V : F[i][a] = next(a, i)
  OBVIOUS
<1> HIDE DEF F
<1>6. PICK f : Iterates(f, V, {}, N, F)
  BY <1>1, <1>4, Iteration
<1>7. f = [i \in 0..N |-> f[i]] /\ \A i \in 0..N : i = 0 \/ i \in 1..N
  BY <1>6 DEF Iterates
<1>8. f = [i \in 0..N |-> IF i = 0 THEN {} ELSE next(f[i - 1], i)]
  BY <1>5, <1>6, <1>7 DEF Iterates
<1>9. chosen = [i \in 0..N |-> IF i = 0 THEN {} ELSE next(chosen[i - 1], i)]
  BY <1>8 DEF next, chosen
<1>10. chosen[0] = {} /\ \A i \in 1..N : chosen[i] = next(chosen[i - 1], i)
  <2>1. 0 \in 0..N /\ \A i \in 1..N : i \in 0..N /\ i # 0
    OBVIOUS
  <2> QED BY <1>9, <2>1, Zenon
<1>11. \A i \in 0..N : chosen[i] \in V
  <2>1. \A i \in 1..N : chosen[i - 1] \in V => chosen[i] \in V
    BY <1>3, <1>10
  <2>2. chosen[0] \in V
    BY <1>1, <1>10
  <2> QED BY <2>1, <2>2, StaysIn
<1>12. chosen[N] \in V
  BY <1>11
<1> QED BY <1>0, <1>12 DEF V

LEMMA FilledType ==
  ASSUME NEW S \in SUBSET Keys, NEW room \in Nat \ {0}, NEW order, NEW N \in Nat,
         N = Len(order), \A i \in 1..N : order[i] \in S,
         NEW a \in {b \in SUBSET S : Cardinality(b) <= room}
  PROVE  Filled(room, order, a) \in {b \in SUBSET S : Cardinality(b) <= room}
<1> DEFINE V == {b \in SUBSET S : Cardinality(b) <= room}
           next(b, i) == IF Cardinality(b) >= room THEN b ELSE b \cup {order[i]}
           F == [i \in 1..N |-> [b \in V |-> next(b, i)]]
           filled[i \in 0..Len(order)] ==
               IF i = 0 THEN a
               ELSE IF Cardinality(filled[i - 1]) >= room THEN filled[i - 1]
               ELSE filled[i - 1] \cup {order[i]}
<1>0. Filled(room, order, a) = filled[N]
  BY DEF Filled
<1>1. \A i \in 1..N : \A b \in V : ~(Cardinality(b) >= room) => b \cup {order[i]} \in V
  BY OneMoreIfRoom
<1>2. \A i \in 1..N : \A b \in V : next(b, i) \in V
  <2> HIDE DEF V
  <2> QED BY <1>1
<1> HIDE DEF V, next, filled
<1>3. F \in [1..N -> [V -> V]]
  BY <1>2
<1>4. \A i \in 1..N : \A b \in V : F[i][b] = next(b, i)
  OBVIOUS
<1> HIDE DEF F
<1>5. PICK f : Iterates(f, V, a, N, F)
  BY <1>3, Iteration DEF V
<1>6. f = [i \in 0..N |-> f[i]] /\ \A i \in 0..N : i = 0 \/ i \in 1..N
  BY <1>5 DEF Iterates
<1>7. f = [i \in 0..N |-> IF i = 0 THEN a ELSE next(f[i - 1], i)]
  BY <1>4, <1>5, <1>6 DEF Iterates
<1>8. filled = [i \in 0..N |-> IF i = 0 THEN a ELSE next(filled[i - 1], i)]
  BY <1>7 DEF next, filled
<1>9. filled[0] = a /\ \A i \in 1..N : filled[i] = next(filled[i - 1], i)
  <2>1. 0 \in 0..N /\ \A i \in 1..N : i \in 0..N /\ i # 0
    OBVIOUS
  <2> QED BY <1>8, <2>1, Zenon
<1>10. \A i \in 0..N : filled[i] \in V
  <2>1. \A i \in 1..N : filled[i - 1] \in V => filled[i] \in V
    BY <1>2, <1>9
  <2>2. filled[0] \in V
    BY <1>9 DEF V
  <2> QED BY <2>1, <2>2, StaysIn
<1>11. filled[N] \in V
  BY <1>10
<1> QED BY <1>0, <1>11 DEF V

LEMMA DiverseLinksBound ==
  ASSUME NEW S \in SUBSET Keys, NEW room \in Nat \ {0}, NEW p \in Places,
         NEW v \in [Keys -> Places]
  PROVE  DiverseLinks(room, S, p, v) \in {a \in SUBSET S : Cardinality(a) <= room}
<1> DEFINE d == To(S, p, v)
           order == Sorted(S, d)
           first == Chosen(room, order, d, v)
<1>1. DiverseLinks(room, S, p, v) = Filled(room, order, first)
  BY DEF DiverseLinks
<1> HIDE DEF d, first
<1>2. Len(order) \in Nat /\ \A i \in 1..Len(order) : order[i] \in S
  BY ToType, SortedType DEF d
<1> HIDE DEF order
<1>3. first \in {a \in SUBSET S : Cardinality(a) <= room}
  BY <1>2, ChosenType DEF first
<1>4. Filled(room, order, first) \in {a \in SUBSET S : Cardinality(a) <= room}
  BY <1>2, <1>3, FilledType
<1> QED BY <1>1, <1>4

-----------------------------------------------------------------------------
(* insert, on one layer. *)

Bounded(g, room) == \A k \in Keys : Degree(g, k) <= room

(* h is one of G, and g but for the links of key, which are to T. *)
Linked(h, g, G, key, T) ==
  /\ h \in G
  /\ DOMAIN h.out[key] = T
  /\ \A k \in Keys \ {key} : h.out[k] = g.out[k]

LEMMA SetLinksGood ==
  ASSUME NEW M \in SUBSET Keys, NEW key \in Keys \ M, NEW v, NEW St,
         NEW g \in Good(M, v, St), NEW T \in SUBSET M, NEW d, \A x \in T : d[x] \in Distances,
         \A x \in T : {key, x} \cap St = {} => d[x] = distance(v[key], v[x])
  PROVE  Linked(SetLinks(g, key, T, d), g, Good(M \cup {key}, v, St), key, T)
<1> DEFINE f == Restricted(d, T)
           h == SetLinks(g, key, T, d)
<1>1. /\ g \in LayerType /\ Answered(g, M) /\ True(g, v, St)
      /\ g.out \in [Keys -> LinkMaps] /\ g.inc \in [Keys -> SUBSET Keys]
  BY DEF Good, LayerType
<1>2. f \in [T -> Distances] /\ \A x \in T : f[x] = d[x]
  BY DEF Restricted
<1>3. f \in LinkMaps /\ DOMAIN f = T
  <2> HIDE DEF f
  <2> QED BY <1>2, LinkMapIntro
<1>4. /\ h.out = [g.out EXCEPT ![key] = f]
      /\ h.inc = [k \in Keys |-> IF k \in T THEN g.inc[k] \cup {key} ELSE g.inc[k]]
      /\ h = [out |-> h.out, inc |-> h.inc]
  BY DEF SetLinks
<1> HIDE DEF f, h
<1>5. h.out \in [Keys -> LinkMaps] /\ h.out[key] = f /\ \A k \in Keys \ {key} : h.out[k] = g.out[k]
  BY <1>1, <1>3, <1>4
<1>6. h.inc \in [Keys -> SUBSET Keys]
  BY <1>1, <1>4
<1>7. h \in LayerType
  BY <1>4, <1>5, <1>6 DEF LayerType
<1>8. Answered(h, M \cup {key})
  <2>1. \A k \in Keys : h.inc[k] = IF k \in T THEN g.inc[k] \cup {key} ELSE g.inc[k]
    BY <1>4
  <2>2. DOMAIN g.out[key] = {} /\ \A x \in Keys : key \notin g.inc[x]
    BY <1>1 DEF Answered
  <2>3. ASSUME NEW k \in Keys \ {key}
        PROVE  /\ k \notin DOMAIN h.out[k] /\ DOMAIN h.out[k] \subseteq M
               /\ k \notin M => DOMAIN h.out[k] = {}
               /\ \A x \in Keys : x \in DOMAIN h.out[k] <=> k \in h.inc[x]
    <3>1. h.out[k] = g.out[k]
      BY <1>5
    <3> QED BY <1>1, <2>1, <3>1 DEF Answered
  <2>4. /\ key \notin DOMAIN h.out[key] /\ DOMAIN h.out[key] \subseteq M
        /\ \A x \in Keys : x \in DOMAIN h.out[key] <=> key \in h.inc[x]
    BY <1>3, <1>5, <2>1, <2>2
  <2> QED BY <2>3, <2>4 DEF Answered
<1>9. True(h, v, St)
  BY <1>1, <1>2, <1>3, <1>5 DEF True
<1> QED BY <1>3, <1>5, <1>7, <1>8, <1>9 DEF Good, Linked, h

LEMMA OfferGood ==
  ASSUME NEW M \in SUBSET Keys, NEW v \in [Keys -> Places], Apart(M, v), NEW St,
         NEW g \in Good(M, v, St), NEW room \in Nat \ {0}, Bounded(g, room + 1),
         NEW key \in M, NEW peer, NEW N \in Nat, N = Len(peer), NEW d,
         \A i \in 1..N : /\ peer[i] \in M \ {key} /\ d[peer[i]] \in Distances
                         /\ d[peer[i]] = distance(v[peer[i]], v[key])
  PROVE  Offer(g, v, room, key, peer, d) \in Good(M, v, St)
         /\ Bounded(Offer(g, v, room, key, peer, d), room + 1)
<1> DEFINE V == {h \in Good(M, v, St) : Bounded(h, room + 1)}
           next(h, i) == TryAddLink(h, v, room, peer[i], key, d[peer[i]])
           F == [i \in 1..N |-> [h \in V |-> next(h, i)]]
           tried[i \in 0..Len(peer)] ==
             IF i = 0 THEN g
             ELSE TryAddLink(tried[i - 1], v, room, peer[i], key, d[peer[i]])
<1>1. Offer(g, v, room, key, peer, d) = tried[N]
  BY DEF Offer
<1> HIDE DEF tried
<1>2. ASSUME NEW i \in 1..N, NEW h \in V PROVE next(h, i) \in V
  <2> DEFINE u == next(h, i)
             n == peer[i]
  <2>1. n \in M /\ n # key /\ d[n] \in Distances /\ d[n] = distance(v[n], v[key])
    OBVIOUS
  <2>2. h \in Good(M, v, St) /\ Bounded(h, room + 1) /\ u = TryAddLink(h, v, room, n, key, d[n])
    OBVIOUS
  <2> HIDE DEF V, u, n
  <2>3. Offered(u, h, Good(M, v, St), room, n)
    BY <2>1, <2>2, TryAddLinkGood
  <2>4. Degree(u, n) \in Nat /\ Degree(h, n) \in Nat
    BY <2>1, <2>2, <2>3, DegreeType DEF Offered
  <2>5. Bounded(u, room + 1)
    BY <2>1, <2>2, <2>3, <2>4 DEF Bounded, Degree, Offered
  <2> QED BY <2>3, <2>5 DEF V, u, Offered
<1>3. g \in V
  OBVIOUS
<1> HIDE DEF V, next
<1>4. F \in [1..N -> [V -> V]]
  BY <1>2
<1>5. \A i \in 1..N : \A h \in V : F[i][h] = next(h, i)
  OBVIOUS
<1> HIDE DEF F
<1>6. PICK f : Iterates(f, V, g, N, F)
  BY <1>3, <1>4, Iteration
<1>7. f = [i \in 0..N |-> f[i]] /\ \A i \in 0..N : i = 0 \/ i \in 1..N
  BY <1>6 DEF Iterates
<1>8. f = [i \in 0..N |-> IF i = 0 THEN g ELSE next(f[i - 1], i)]
  <2>1. f[0] = g /\ \A i \in 1..N : f[i] = next(f[i - 1], i)
    BY <1>5, <1>6 DEF Iterates
  <2> QED BY <1>7, <2>1
<1>9. tried = [i \in 0..N |-> IF i = 0 THEN g ELSE next(tried[i - 1], i)]
  BY <1>8 DEF next, tried
<1>10. tried[0] = g /\ \A i \in 1..N : tried[i] = next(tried[i - 1], i)
  <2>1. 0 \in 0..N /\ \A i \in 1..N : i \in 0..N /\ i # 0
    OBVIOUS
  <2> QED BY <1>9, <2>1, Zenon
<1>11. \A i \in 0..N : tried[i] \in V
  <2>1. \A i \in 1..N : tried[i - 1] \in V => tried[i] \in V
    BY <1>2, <1>10
  <2>2. tried[0] \in V
    BY <1>3, <1>10
  <2> QED BY <2>1, <2>2, StaysIn
<1>12. tried[N] \in V
  BY <1>11
<1> QED BY <1>1, <1>12 DEF V

LEMMA JoinGood ==
  ASSUME NEW M \in SUBSET Keys, NEW key \in Keys \ M, NEW v \in [Keys -> Places],
         Apart(M \cup {key}, v), NEW St, NEW g \in Good(M, v, St), NEW room \in Nat \ {0},
         Bounded(g, room + 1), NEW S \in SUBSET M
  PROVE  /\ Join(g, v, room, key, S) \in Good(M \cup {key}, v, St)
         /\ Bounded(Join(g, v, room, key, S), room + 1)
<1> DEFINE d == To(S, v[key], v)
           T == DiverseLinks(room, S, v[key], v)
           u == SetLinks(g, key, T, d)
           peer == Sorted(S, d)
<1>1. Join(g, v, room, key, S) = Offer(u, v, room, key, peer, d)
  BY DEF Join
<1>2. /\ d \in [S -> Nat] /\ \A x \in S : d[x] \in Distances /\ d[x] = distance(v[key], v[x])
  BY ToType
<1>3. T \in SUBSET S /\ Cardinality(T) <= room
  BY DiverseLinksBound
<1> HIDE DEF d, T
<1>4. Len(peer) \in Nat /\ \A i \in 1..Len(peer) : peer[i] \in S
  <2>1. S \in SUBSET Keys
    OBVIOUS
  <2>2. peer \in [1..Cardinality(S) -> S] /\ Len(peer) = Cardinality(S) /\ Cardinality(S) \in Nat
    BY <1>2, <2>1, SortedType
  <2> HIDE DEF peer
  <2> QED BY <2>2
<1>5. Linked(u, g, Good(M \cup {key}, v, St), key, T)
  <2>1. T \in SUBSET M /\ \A x \in T : d[x] \in Distances /\ d[x] = distance(v[key], v[x])
    BY <1>2, <1>3
  <2> QED BY <2>1, SetLinksGood
<1> HIDE DEF u, peer
<1>6. Cardinality(T) \in Nat
  BY <1>3, KeySets
<1>7. Bounded(u, room + 1)
  BY <1>3, <1>5, <1>6 DEF Bounded, Degree, Linked
<1>8. \A i \in 1..Len(peer) :
        /\ peer[i] \in (M \cup {key}) \ {key} /\ d[peer[i]] \in Distances
        /\ d[peer[i]] = distance(v[peer[i]], v[key])
  BY <1>2, <1>4, DistanceType
<1>9. M \cup {key} \in SUBSET Keys /\ key \in M \cup {key}
  OBVIOUS
<1> DEFINE B == M \cup {key}
<1> HIDE DEF B
<1>10. /\ Offer(u, v, room, key, peer, d) \in Good(B, v, St)
       /\ Bounded(Offer(u, v, room, key, peer, d), room + 1)
  <2>1. /\ B \in SUBSET Keys /\ key \in B /\ u \in Good(B, v, St) /\ Apart(B, v)
        /\ \A i \in 1..Len(peer) :
            /\ peer[i] \in B \ {key} /\ d[peer[i]] \in Distances
            /\ d[peer[i]] = distance(v[peer[i]], v[key])
    BY <1>5, <1>8, <1>9 DEF B, Linked
  <2> QED BY <1>4, <1>7, <2>1, OfferGood
<1> QED BY <1>1, <1>10 DEF B

-----------------------------------------------------------------------------
(* remove, on one layer. *)

(* h is one of G, no node has more links than in g, and the peers that  *)
(* linked to key have one less.                                         *)
Detached(h, g, G, key) ==
  /\ h \in G
  /\ \A k \in Keys : Degree(h, k) <= Degree(g, k)
  /\ \A k \in g.inc[key] : Degree(h, k) = Degree(g, k) - 1

LEMMA DetachGood ==
  ASSUME NEW M \in SUBSET Keys, NEW key \in Keys, NEW v, NEW St, NEW g \in Good(M, v, St)
  PROVE  Detached(Detach(g, key), g, Good(M \ {key}, v, St \ {key}), key)
<1> DEFINE h == Detach(g, key)
<1>1. /\ g \in LayerType /\ Answered(g, M) /\ True(g, v, St) /\ key \in Keys
      /\ g.out \in [Keys -> LinkMaps] /\ g.inc \in [Keys -> SUBSET Keys]
  BY DEF Good, LayerType
<1>2. /\ h = [out |-> h.out, inc |-> h.inc]
      /\ DOMAIN h.out = Keys /\ DOMAIN h.inc = Keys
      /\ h.out = [k \in Keys |-> IF k = key THEN NoLinks
                   ELSE IF k \in g.inc[key]
                   THEN Restricted(g.out[k], DOMAIN g.out[k] \ {key}) ELSE g.out[k]]
      /\ h.inc = [k \in Keys |-> IF k = key THEN {}
                   ELSE IF k \in DOMAIN g.out[key] THEN g.inc[k] \ {key} ELSE g.inc[k]]
  BY DEF Detach
<1> HIDE DEF h
<1>3. \A k \in Keys : h.inc[k] = IF k = key THEN {} ELSE g.inc[k] \ {key}
  BY <1>1, <1>2 DEF Answered
<1>4. ASSUME NEW k \in Keys
      PROVE  /\ h.out[k] \in LinkMaps
             /\ DOMAIN h.out[k] = IF k = key THEN {} ELSE DOMAIN g.out[k] \ {key}
             /\ \A x \in DOMAIN h.out[k] : h.out[k][x] = g.out[k][x]
  <2>1. DOMAIN g.out[k] \in SUBSET Keys /\ g.out[k] \in [DOMAIN g.out[k] -> Distances]
    BY <1>1, LinkMapType
  <2>2. CASE k = key
    <3>1. h.out[k] = NoLinks /\ NoLinks \in [{} -> Distances]
      BY <1>2, <2>2 DEF NoLinks
    <3>2. {} \in SUBSET Keys
      OBVIOUS
    <3>3. h.out[k] \in LinkMaps /\ DOMAIN h.out[k] = {}
      BY <3>1, <3>2, LinkMapIntro
    <3> QED BY <2>2, <3>3
  <2>3. CASE k # key /\ k \in g.inc[key]
    <3> DEFINE f == [x \in DOMAIN g.out[k] \ {key} |-> g.out[k][x]]
               S == DOMAIN g.out[k] \ {key}
    <3>1. h.out[k] = f
      BY <1>2, <2>3 DEF Restricted
    <3>2. f \in [S -> Distances] /\ S \in SUBSET Keys /\ \A x \in S : f[x] = g.out[k][x]
      BY <2>1
    <3> HIDE DEF f
    <3>3. f \in LinkMaps /\ DOMAIN f = S
      BY <3>2, LinkMapIntro
    <3> QED BY <2>3, <3>1, <3>2, <3>3
  <2>4. CASE k # key /\ k \notin g.inc[key]
    <3>1. h.out[k] = g.out[k] /\ key \notin DOMAIN g.out[k]
      BY <1>1, <1>2, <2>4 DEF Answered
    <3> QED BY <1>1, <2>4, <3>1
  <2> QED BY <2>2, <2>3, <2>4
<1>5. h \in LayerType
  <2>1. h.out \in [Keys -> LinkMaps]
    BY <1>2, <1>4
  <2>2. h.inc \in [Keys -> SUBSET Keys]
    BY <1>1, <1>2, <1>3
  <2> QED BY <1>2, <2>1, <2>2 DEF LayerType
<1>6. Answered(h, M \ {key})
  <2>1. ASSUME NEW k \in Keys, k # key
        PROVE  /\ k \notin DOMAIN h.out[k] /\ DOMAIN h.out[k] \subseteq M \ {key}
               /\ k \notin M \ {key} => DOMAIN h.out[k] = {}
               /\ \A x \in Keys : x \in DOMAIN h.out[k] <=> k \in h.inc[x]
    <3>1. /\ k \notin DOMAIN g.out[k] /\ DOMAIN g.out[k] \subseteq M
          /\ k \notin M => DOMAIN g.out[k] = {}
          /\ \A x \in Keys : x \in DOMAIN g.out[k] <=> k \in g.inc[x]
      BY <1>1 DEF Answered
    <3>2. DOMAIN h.out[k] = DOMAIN g.out[k] \ {key}
      BY <1>4, <2>1
    <3>3. \A x \in Keys : k \in h.inc[x] <=> x # key /\ k \in g.inc[x]
      BY <1>3, <2>1
    <3> QED BY <2>1, <3>1, <3>2, <3>3
  <2>2. DOMAIN h.out[key] = {} /\ \A x \in Keys : key \notin h.inc[x]
    BY <1>1, <1>3, <1>4
  <2> QED BY <2>1, <2>2 DEF Answered
<1>7. True(h, v, St \ {key})
  <2> SUFFICES ASSUME NEW k \in Keys \ (St \ {key}), NEW x \in DOMAIN h.out[k] \ (St \ {key})
               PROVE  h.out[k][x] = distance(v[k], v[x])
    BY DEF True
  <2>1. k # key /\ x # key /\ x \in DOMAIN g.out[k] /\ h.out[k][x] = g.out[k][x]
    BY <1>4
  <2> QED BY <1>1, <2>1 DEF True
<1>8. ASSUME NEW k \in Keys PROVE Degree(h, k) <= Degree(g, k)
  <2>1. DOMAIN g.out[k] \in SUBSET Keys /\ DOMAIN h.out[k] \in SUBSET DOMAIN g.out[k]
    BY <1>1, <1>4, LinkMapType
  <2> QED BY <2>1, KeySets, FS_Subset DEF Degree
<1>9. ASSUME NEW k \in g.inc[key] PROVE Degree(h, k) = Degree(g, k) - 1
  <2>1. k \in Keys /\ key \in DOMAIN g.out[k] /\ k # key
    BY <1>1 DEF Answered
  <2>2. DOMAIN g.out[k] \in SUBSET Keys /\ DOMAIN h.out[k] = DOMAIN g.out[k] \ {key}
    BY <1>1, <1>4, <2>1, LinkMapType
  <2> QED BY <2>1, <2>2, KeySets, FS_RemoveElement DEF Degree
<1> QED BY <1>5, <1>6, <1>7, <1>8, <1>9 DEF Good, Detached, h

(* h is one of G; but for n, which has one link more at the most, no node of h *)
(* has more links than in g unless there is room.                              *)
Compensated(h, g, G, room, n) ==
  /\ h \in G
  /\ Degree(h, n) <= Degree(g, n) + 1
  /\ \A k \in Keys \ {n} : Degree(h, k) <= room \/ Degree(h, k) <= Degree(g, k)

LEMMA MostDiverseIn ==
  ASSUME NEW M \in SUBSET Keys, NEW v \in [Keys -> Places], Apart(M, v),
         NEW S \in SUBSET M, S # {}, NEW n \in Keys, NEW g
  PROVE  MostDiverse(g, v, n, S) \in S
<1> DEFINE d == To(S, v[n], v)
           good == {x \in S : \A z \in DOMAIN g.out[n] : distance(v[z], v[x]) >= d[x]}
           from == IF good = {} THEN S ELSE good
<1>1. from \subseteq S /\ from # {}
  OBVIOUS
<1>2. MostDiverse(g, v, n, S) = Nearest(from, d, v)
  BY DEF MostDiverse
<1> HIDE DEF from
<1>3. d \in [S -> Nat]
  BY ToType
<1> HIDE DEF d
<1>4. \A x \in from : d[x] \in Nat
  BY <1>1, <1>3
<1>5. /\ \A x \in from : v[x] \in Nat
      /\ \A x, z \in from : v[x] = v[z] => x = z
  BY <1>1, IndexAssumption DEF Apart, IndexAssumption
<1>6. Nearest(from, d, v) \in from
  BY <1>1, <1>4, <1>5, NearestIn
<1> QED BY <1>1, <1>2, <1>6

LEMMA CompensateGood ==
  ASSUME NEW M \in SUBSET Keys, vector \in [Keys -> Places], Apart(M, vector), NEW St,
         NEW g \in Good(M, vector, St), NEW room \in Nat \ {0}, NEW n \in M,
         NEW own \in SUBSET M
  PROVE  Compensated(Compensate(g, room, n, own), g, Good(M, vector, St), room, n)
<1> DEFINE S == own \ ({n} \cup DOMAIN g.out[n])
           x == MostDiverse(g, vector, n, S)
           d == distance(vector[n], vector[x])
           u == Link(g, n, x, d)
           h == Compensate(g, room, n, own)
<1>1. h = IF S = {} THEN g ELSE TryAddLink(u, vector, room, x, n, d)
  BY DEF Compensate
<1> HIDE DEF h
<1>2. \A k \in Keys : Degree(g, k) \in Nat
  BY DegreeType
<1>3. CASE S = {}
  BY <1>1, <1>2, <1>3 DEF Compensated, h
<1>4. CASE S # {}
  <2>1. x \in M /\ x # n /\ n \in Keys /\ x \in Keys
    <3>1. S \in SUBSET M /\ n \in Keys
      OBVIOUS
    <3>2. x \in S
      <4> HIDE DEF S
      <4> QED BY <1>4, <3>1, MostDiverseIn
    <3> QED BY <3>1, <3>2
  <2> HIDE DEF x
  <2>2. d \in Distances /\ d = distance(vector[x], vector[n]) /\ d = distance(vector[n], vector[x])
    BY <2>1, DistanceType
  <2> HIDE DEF d
  <2>3. u \in Good(M, vector, St)
    BY <2>1, <2>2, LinkGood
  <2>4. /\ Degree(u, n) \in Nat /\ Degree(u, n) <= Degree(g, n) + 1
        /\ \A k \in Keys \ {n} : u.out[k] = g.out[k]
    BY <2>1, <2>2, LinkDegree DEF Good
  <2> HIDE DEF u
  <2>5. h = TryAddLink(u, vector, room, x, n, d)
    BY <1>1, <1>4
  <2>6. Offered(h, u, Good(M, vector, St), room, x)
    BY <2>1, <2>2, <2>3, <2>5, TryAddLinkGood
  <2> QED BY <1>2, <2>1, <2>4, <2>6 DEF Offered, Compensated, Degree, h
<1> QED BY <1>3, <1>4

LEMMA RelinkGood ==
  ASSUME NEW M \in SUBSET Keys, vector \in [Keys -> Places], Apart(M, vector), NEW St,
         NEW g \in Good(M, vector, St), NEW room \in Nat \ {0}, Bounded(g, room + 1),
         NEW key \in Keys, NEW order \in SetToSeqs(g.inc[key])
  PROVE  /\ Relink(g, room, key, order) \in Good(M \ {key}, vector, St \ {key})
         /\ Bounded(Relink(g, room, key, order), room + 1)
<1> DEFINE N == Len(order)
           G == Good(M \ {key}, vector, St \ {key})
           first == Detach(g, key)
           own == DOMAIN g.out[key]
           next(h, i) == Compensate(h, room, order[i], own)
           F == [i \in 1..N |-> [h \in G |-> next(h, i)]]
           relinked[i \in 0..Len(order)] ==
             IF i = 0 THEN Detach(g, key)
             ELSE Compensate(relinked[i - 1], room, order[i], DOMAIN g.out[key])
<1>1. Relink(g, room, key, order) = relinked[N]
  BY DEF Relink
<1> HIDE DEF relinked
<1>2. /\ g \in LayerType /\ Answered(g, M) /\ key \in Keys /\ g.inc[key] \in SUBSET Keys
  BY DEF Good, LayerType
<1>3. g.inc[key] \in SUBSET (M \ {key}) /\ own \in SUBSET (M \ {key})
  BY <1>2 DEF Answered
<1>4. /\ N \in Nat /\ \A i \in 1..N : order[i] \in g.inc[key]
      /\ \A i, j \in 1..N : i # j => order[i] # order[j]
  <2>1. Cardinality(g.inc[key]) \in Nat
    BY <1>2, KeySets
  <2>2. /\ order \in [1..Cardinality(g.inc[key]) -> g.inc[key]]
        /\ \A i, j \in 1..Cardinality(g.inc[key]) : i # j => order[i] # order[j]
    BY DEF SetToSeqs
  <2>3. Len(order) = Cardinality(g.inc[key])
    BY <2>1, <2>2
  <2> QED BY <2>1, <2>2, <2>3
<1>5. /\ first \in G
      /\ \A k \in Keys : Degree(first, k) <= Degree(g, k)
      /\ \A k \in g.inc[key] : Degree(first, k) = Degree(g, k) - 1
  <2>1. Detached(first, g, G, key)
    BY DetachGood
  <2> QED BY <2>1 DEF Detached
<1>6. Apart(M \ {key}, vector) /\ M \ {key} \in SUBSET Keys
  BY DEF Apart
<1> HIDE DEF N
<1>7. ASSUME NEW i \in 1..N, NEW h \in G
      PROVE  Compensated(next(h, i), h, G, room, order[i])
  <2> DEFINE B == M \ {key}
  <2>1. /\ B \in SUBSET Keys /\ Apart(B, vector) /\ h \in Good(B, vector, St \ {key})
        /\ order[i] \in B /\ own \in SUBSET B
    BY <1>3, <1>4, <1>6, <1>7
  <2> HIDE DEF B, own
  <2>2. Compensated(Compensate(h, room, order[i], own), h, Good(B, vector, St \ {key}), room, order[i])
    BY <2>1, CompensateGood
  <2> QED BY <2>2 DEF B
<1> HIDE DEF G, first, next
<1>8. F \in [1..N -> [G -> G]]
  BY <1>7 DEF Compensated
<1>9. \A i \in 1..N : \A h \in G : F[i][h] = next(h, i)
  OBVIOUS
<1> HIDE DEF F
<1>10. PICK f : Iterates(f, G, first, N, F)
  BY <1>4, <1>5, <1>8, Iteration
<1>11. f = [i \in 0..N |-> IF i = 0 THEN first ELSE next(f[i - 1], i)]
  <2>1. f = [i \in 0..N |-> f[i]] /\ \A i \in 0..N : i = 0 \/ i \in 1..N
    BY <1>4, <1>10 DEF Iterates
  <2>2. f[0] = first /\ \A i \in 1..N : f[i] = next(f[i - 1], i)
    BY <1>9, <1>10 DEF Iterates
  <2> QED BY <2>1, <2>2
<1>12. relinked = [i \in 0..N |-> IF i = 0 THEN first ELSE next(relinked[i - 1], i)]
  BY <1>11 DEF first, next, relinked, N
<1>13. relinked[0] = first /\ \A i \in 1..N : relinked[i] = next(relinked[i - 1], i)
  <2>1. 0 \in 0..N /\ \A i \in 1..N : i \in 0..N /\ i # 0
    BY <1>4
  <2> QED BY <1>12, <2>1, Zenon
<1> DEFINE Within(h, i) ==
             /\ h \in G /\ Bounded(h, room + 1)
             /\ \A j \in (i + 1)..N : Degree(h, order[j]) <= room
           S == {i \in Nat : i <= N => Within(relinked[i], i)}
<1>14. 0 \in S
  <2>1. first \in G /\ \A k \in Keys : Degree(first, k) \in Nat /\ Degree(g, k) \in Nat
    BY <1>5, DegreeType DEF G
  <2>2. Bounded(first, room + 1)
    BY <1>5, <2>1 DEF Bounded
  <2>3. \A j \in 1..N : Degree(first, order[j]) <= room
    <3> TAKE j \in 1..N
    <3>1. order[j] \in Keys /\ order[j] \in g.inc[key]
      BY <1>2, <1>4
    <3>2. Degree(g, order[j]) <= room + 1
      BY <3>1 DEF Bounded
    <3> QED BY <1>5, <2>1, <3>1, <3>2
  <2> QED BY <1>13, <2>1, <2>2, <2>3
<1>15. ASSUME NEW i \in Nat, i \in S PROVE i + 1 \in S
  <2> SUFFICES ASSUME i + 1 <= N PROVE Within(relinked[i + 1], i + 1)
    OBVIOUS
  <2> DEFINE h == relinked[i]
             u == relinked[i + 1]
             n == order[i + 1]
  <2>1. Within(h, i) /\ i + 1 \in 1..N /\ u = next(h, i + 1)
    <3>1. i + 1 \in 1..N /\ (i + 1) - 1 = i /\ i <= N
      BY <1>4
    <3> QED BY <1>13, <1>15, <3>1
  <2> HIDE DEF u, h, n
  <2>2. Compensated(u, h, G, room, n)
    BY <1>7, <2>1 DEF n
  <2>3. n \in Keys /\ Degree(h, n) <= room
    <3>1. i + 1 \in (i + 1)..N
      BY <1>4
    <3> QED BY <1>2, <1>4, <2>1, <3>1 DEF n
  <2>4. \A k \in Keys : Degree(h, k) \in Nat /\ Degree(u, k) \in Nat
    BY <2>1, <2>2, DegreeType DEF G, Compensated
  <2>5. Bounded(u, room + 1)
    BY <2>1, <2>2, <2>3, <2>4 DEF Bounded, Compensated
  <2>6. ASSUME NEW j \in (i + 2)..N PROVE Degree(u, order[j]) <= room
    <3>1. j \in 1..N /\ j \in (i + 1)..N /\ j # i + 1
      BY <1>4
    <3>2. order[j] \in Keys /\ order[j] # n /\ Degree(h, order[j]) <= room
      BY <1>2, <1>4, <2>1, <3>1 DEF n
    <3> QED BY <2>2, <2>4, <3>2 DEF Compensated
  <2>7. (i + 1) + 1 = i + 2
    OBVIOUS
  <2> QED BY <2>2, <2>5, <2>6, <2>7 DEF Compensated, u
<1>16. N \in S
  <2> HIDE DEF S
  <2> QED BY <1>4, <1>14, <1>15, SetInduction
<1> QED BY <1>1, <1>4, <1>16 DEF G

-----------------------------------------------------------------------------
(* A search that begins at a member of the layer finds members of it. *)

LEMMA GreedyIn ==
  ASSUME NEW M \in SUBSET Keys, NEW U \in SUBSET Keys, M \subseteq U,
         NEW v \in [Keys -> Places], Apart(M, v), NEW g \in LayerType, Answered(g, M),
         NEW q \in Places, NEW start \in U
  PROVE  Greedy(g, v, q, start) \in U
<1> DEFINE N == Cardinality(nodes)
           closer(k) == {x \in DOMAIN g.out[k] : distance(q, v[x]) < distance(q, v[k])}
           next(k) == IF closer(k) = {} THEN k ELSE Nearest(closer(k), To(closer(k), q, v), v)
           F == [i \in 1..N |-> [k \in U |-> next(k)]]
           at[n \in 0..Cardinality(nodes)] ==
             IF n = 0 THEN start
             ELSE LET k == at[n - 1]
                      better == {x \in DOMAIN g.out[k] : distance(q, v[x]) < distance(q, v[k])}
                  IN  IF better = {} THEN k ELSE Nearest(better, To(better, q, v), v)
<1>1. Greedy(g, v, q, start) = at[N]
  BY DEF Greedy
<1> HIDE DEF at
<1>2. N \in Nat
  BY KeySets DEF nodes
<1>3. ASSUME NEW k \in U PROVE next(k) \in U
  <2> DEFINE S == closer(k)
  <2>1. S \subseteq M
    BY DEF Answered
  <2>2. CASE S = {}
    BY <2>2
  <2>3. CASE S # {}
    <3> DEFINE d == To(S, q, v)
    <3>1. S \in SUBSET Keys
      BY <2>1
    <3> HIDE DEF S
    <3>2. \A x \in S : d[x] \in Nat
      BY <3>1, ToType
    <3>3. (\A x \in S : v[x] \in Nat) /\ \A x, z \in S : v[x] = v[z] => x = z
      BY <2>1, IndexAssumption DEF Apart, IndexAssumption
    <3> HIDE DEF d
    <3>4. Nearest(S, d, v) \in S
      BY <2>3, <3>2, <3>3, NearestIn
    <3> QED BY <2>1, <2>3, <3>4 DEF S, d
  <2> QED BY <2>2, <2>3
<1> HIDE DEF next, N
<1>4. F \in [1..N -> [U -> U]]
  BY <1>3
<1>5. \A i \in 1..N : \A k \in U : F[i][k] = next(k)
  OBVIOUS
<1> HIDE DEF F
<1>6. PICK f : Iterates(f, U, start, N, F)
  BY <1>2, <1>4, Iteration
<1>7. f = [n \in 0..N |-> IF n = 0 THEN start ELSE next(f[n - 1])]
  <2>1. f = [n \in 0..N |-> f[n]] /\ \A n \in 0..N : n = 0 \/ n \in 1..N
    BY <1>2, <1>6 DEF Iterates
  <2>2. f[0] = start /\ \A n \in 1..N : f[n] = next(f[n - 1])
    BY <1>5, <1>6 DEF Iterates
  <2> QED BY <2>1, <2>2
<1>8. at = [n \in 0..N |-> IF n = 0 THEN start ELSE next(at[n - 1])]
  BY <1>7 DEF next, at, N
<1>9. at[0] = start /\ \A n \in 1..N : at[n] = next(at[n - 1])
  <2>1. 0 \in 0..N /\ \A n \in 1..N : n \in 0..N /\ n # 0
    BY <1>2
  <2> QED BY <1>8, <2>1, Zenon
<1>10. \A n \in 1..N : at[n - 1] \in U => at[n] \in U
  BY <1>3, <1>9
<1>11. \A n \in 0..N : at[n] \in U
  <2>1. at[0] \in U
    BY <1>9
  <2> QED BY <1>2, <1>10, <2>1, StaysIn
<1> QED BY <1>1, <1>2, <1>11

LEMMA SearchLevelIn ==
  ASSUME NEW M \in SUBSET Keys, NEW v \in [Keys -> Places], Apart(M, v),
         NEW g \in LayerType, Answered(g, M), NEW q \in Places, NEW start \in M
  PROVE  SearchLevel(g, v, q, start) \subseteq M
<1> DEFINE N == Cardinality(nodes)
           V == [seen : SUBSET M, results : SUBSET M, followed : SUBSET M]
           d == To(Keys, q, v)
           Best(S) == IF Cardinality(S) <= Ef THEN S
                      ELSE {x \in S : Cardinality({z \in S : d[z] < d[x]}) < Ef}
           nearest(h) == Nearest(h.results \ h.followed, d, v)
           next(h) == IF h.results \ h.followed = {} THEN h
                      ELSE [seen |-> h.seen \cup DOMAIN g.out[nearest(h)],
                            results |-> Best(h.results \cup (DOMAIN g.out[nearest(h)] \ h.seen)),
                            followed |-> h.followed \cup {nearest(h)}]
           a == [seen |-> {start}, results |-> {start}, followed |-> {}]
           F == [i \in 1..N |-> [h \in V |-> next(h)]]
           hop[n \in 0..Cardinality(nodes)] ==
             IF n = 0 THEN [seen |-> {start}, results |-> {start}, followed |-> {}]
             ELSE LET h == hop[n - 1]
                      front == h.results \ h.followed
                      x == Nearest(front, d, v)
                  IN  IF front = {} THEN h
                      ELSE [seen |-> h.seen \cup DOMAIN g.out[x],
                            results |-> Best(h.results \cup (DOMAIN g.out[x] \ h.seen)),
                            followed |-> h.followed \cup {x}]
<1>1. SearchLevel(g, v, q, start) = hop[N].results
  BY DEF SearchLevel
<1> HIDE DEF hop
<1>2. N \in Nat
  BY KeySets DEF nodes
<1>3. a \in V
  OBVIOUS
<1>4. \A S : Best(S) \subseteq S
  OBVIOUS
<1>5. \A k \in Keys : d[k] \in Nat
  BY ToType
<1> HIDE DEF Best, d
<1>6. ASSUME NEW h \in V PROVE next(h) \in V
  <2> DEFINE front == h.results \ h.followed
  <2>1. CASE front = {}
    BY <2>1
  <2>2. CASE front # {}
    <3>1. (\A y \in front : d[y] \in Nat /\ v[y] \in Nat)
          /\ \A y, z \in front : v[y] = v[z] => y = z
      BY <1>5, IndexAssumption DEF Apart, IndexAssumption
    <3>2. nearest(h) \in front
      <4> HIDE DEF front
      <4>1. Nearest(front, d, v) \in front
        BY <2>2, <3>1, NearestIn
      <4> QED BY <4>1 DEF front
    <3> HIDE DEF nearest
    <3>3. nearest(h) \in M /\ DOMAIN g.out[nearest(h)] \subseteq M
      BY <3>2 DEF Answered
    <3>4. Best(h.results \cup (DOMAIN g.out[nearest(h)] \ h.seen)) \subseteq M
      BY <1>4, <3>3
    <3> QED BY <2>2, <3>3, <3>4
  <2> QED BY <2>1, <2>2
<1> HIDE DEF next, N, V, a
<1>7. F \in [1..N -> [V -> V]]
  BY <1>6
<1>8. \A i \in 1..N : \A h \in V : F[i][h] = next(h)
  OBVIOUS
<1> HIDE DEF F
<1>9. PICK f : Iterates(f, V, a, N, F)
  BY <1>2, <1>3, <1>7, Iteration
<1>10. f = [n \in 0..N |-> IF n = 0 THEN a ELSE next(f[n - 1])]
  <2>1. f = [n \in 0..N |-> f[n]] /\ \A n \in 0..N : n = 0 \/ n \in 1..N
    BY <1>2, <1>9 DEF Iterates
  <2>2. f[0] = a /\ \A n \in 1..N : f[n] = next(f[n - 1])
    BY <1>8, <1>9 DEF Iterates
  <2> QED BY <2>1, <2>2
<1>11. hop = [n \in 0..N |-> IF n = 0 THEN a ELSE next(hop[n - 1])]
  BY <1>10 DEF next, nearest, hop, N, a
<1>12. hop[0] = a /\ \A n \in 1..N : hop[n] = next(hop[n - 1])
  <2>1. 0 \in 0..N /\ \A n \in 1..N : n \in 0..N /\ n # 0
    BY <1>2
  <2> QED BY <1>11, <2>1, Zenon
<1>13. \A n \in 1..N : hop[n - 1] \in V => hop[n] \in V
  BY <1>6, <1>12
<1>14. \A n \in 0..N : hop[n] \in V
  <2>1. hop[0] \in V
    BY <1>3, <1>12
  <2> QED BY <1>2, <1>13, <2>1, StaysIn
<1>15. hop[N] \in V
  BY <1>2, <1>14
<1> QED BY <1>1, <1>15 DEF V

-----------------------------------------------------------------------------
(* The inductive invariant.  A layer has the nodes above it as members; what *)
(* the members of a layer are is what the searches depend on, since they     *)
(* come down from the layer above.                                           *)

Members(y) == {k \in Keys : level[k] >= y}

LayersGood ==
  \A y \in Layers : /\ Layer(y) \in Good(Members(y), vector, moved)
                    /\ Bounded(Layer(y), max_links(y) + 1)

LevelsListed == \A y \in Layers : levels[y] = {k \in Keys : level[k] = y}

IndexInv ==
  TypeOK /\ moved \subseteq nodes /\ Apart(nodes, vector) /\ LevelsListed /\ LayersGood

LEMMA RoomType == \A y \in Layers : max_links(y) \in Nat \ {0}
BY IndexAssumption DEF IndexAssumption, max_links

LEMMA MemberFacts ==
  ASSUME TypeOK, NEW y \in Layers
  PROVE  Members(y) \in SUBSET Keys /\ Members(y) \subseteq nodes
BY IndexAssumption DEF TypeOK, Members, nodes, Layers, IndexAssumption

LEMMA GoodWider ==
  ASSUME NEW M \in SUBSET Keys, NEW B \in SUBSET Keys, M \subseteq B, NEW v, NEW w,
         NEW St, NEW Tt, St \subseteq Tt, \A k \in M \ Tt : v[k] = w[k],
         NEW g \in Good(M, v, St)
  PROVE  g \in Good(B, w, Tt)
<1>1. g \in LayerType /\ Answered(g, M) /\ True(g, v, St)
  BY DEF Good
<1>2. Answered(g, B)
  BY <1>1 DEF Answered
<1>3. True(g, w, Tt)
  <2> SUFFICES ASSUME NEW k \in Keys \ Tt, NEW x \in DOMAIN g.out[k] \ Tt
               PROVE  g.out[k][x] = distance(w[k], w[x])
    BY DEF True
  <2>1. k \in M \ Tt /\ x \in M \ Tt
    BY <1>1 DEF Answered
  <2>2. g.out[k][x] = distance(v[k], v[x])
    BY <1>1 DEF True
  <2> QED BY <2>1, <2>2
<1> QED BY <1>1, <1>2, <1>3 DEF Good

LEMMA TopFacts ==
  ASSUME TypeOK, LevelsListed, nodes # {}
  PROVE  /\ Top \in Layers /\ levels[Top] = {k \in Keys : level[k] = Top}
         /\ \A y \in Layers : y > Top => Members(y) = {}
<1> DEFINE S == {y \in Layers : levels[y] # {}}
<1>1. IsFiniteSet(S) /\ S \subseteq Nat
  <2>1. IsFiniteSet(Layers) /\ Layers \subseteq Nat
    BY IndexAssumption, FS_Interval DEF IndexAssumption, Layers
  <2> QED BY <2>1, FS_Subset
<1>2. PICK k \in Keys : level[k] # 0
  BY DEF nodes
<1>3. level[k] \in S
  BY <1>2, IndexAssumption DEF TypeOK, LevelsListed, Layers, IndexAssumption
<1>4. PICK t \in S : \A y \in S : y <= t
  <2> DEFINE f == [y \in S |-> y]
  <2>1. f \in [S -> Nat]
    BY <1>1
  <2>2. S # {}
    BY <1>3
  <2>3. PICK t \in S : \A y \in S : f[y] <= f[t]
    <3> HIDE DEF f, S
    <3> QED BY <1>1, <2>1, <2>2, GreatestImage
  <2> QED BY <2>3
<1>5. Top \in S /\ \A y \in S : y <= Top
  <2>1. \A y \in S : t >= y
    BY <1>1, <1>4
  <2>2. Top = Max(S)
    BY DEF Top
  <2>3. Top \in S /\ \A y \in S : Top >= y
    <3> HIDE DEF S
    <3> QED BY <1>4, <2>1, <2>2 DEF Max
  <2> QED BY <1>1, <2>3
<1>6. ASSUME NEW y \in Layers, y > Top, NEW x \in Members(y) PROVE FALSE
  <2>1. x \in Keys /\ level[x] >= y /\ level[x] \in 0..Levels
    BY <1>6 DEF Members, TypeOK
  <2>2. level[x] \in S
    BY <2>1, IndexAssumption DEF LevelsListed, Layers, IndexAssumption
  <2>3. level[x] <= Top /\ Top \in Nat /\ level[x] \in Nat
    BY <1>1, <1>5, <2>2
  <2> QED BY <1>6, <2>1, <2>3, IndexAssumption DEF Layers, IndexAssumption
<1> QED BY <1>5, <1>6 DEF LevelsListed

LEMMA DescentIn ==
  ASSUME IndexInv, nodes # {}, NEW q \in Places, NEW start \in levels[Top]
  PROVE  \A y \in 1..Top : Descent(q, start)[y] \in Members(y)
<1> DEFINE from(y, k) == Greedy(Layer(y), vector, q, k)
           at[y \in 1..Top] == Greedy(Layer(y), vector, q, IF y = Top THEN start ELSE at[y + 1])
           F == [n \in 1..(Top - 1) |-> [k \in Keys |-> from(Top - n, k)]]
           a == from(Top, start)
<1>1. Descent(q, start) = at
  BY DEF Descent
<1> HIDE DEF at
<1>2. /\ Top \in Nat /\ Top >= 1 /\ Top <= Levels /\ Levels \in Nat
      /\ start \in Keys /\ start \in Members(Top)
  BY TopFacts, IndexAssumption DEF IndexInv, Members, Layers, IndexAssumption
<1>3. \A y \in 1..Top : y \in Layers
  BY <1>2 DEF Layers
<1>4. ASSUME NEW y \in 1..Top, NEW U \in SUBSET Keys, Members(y) \subseteq U, NEW k \in U
      PROVE  from(y, k) \in U
  <2> DEFINE M == Members(y)
             g == Layer(y)
  <2>1. /\ M \in SUBSET Keys /\ g \in LayerType /\ Answered(g, M)
        /\ vector \in [Keys -> Places] /\ Apart(M, vector)
    BY <1>3, MemberFacts DEF IndexInv, TypeOK, LayersGood, Good, Apart
  <2>2. M \subseteq U
    BY <1>4
  <2> HIDE DEF M, g
  <2>3. Greedy(g, vector, q, k) \in U
    BY <2>1, <2>2, GreedyIn
  <2> QED BY <2>3 DEF g
<1> HIDE DEF from
<1>5. \A y \in 1..Top : Members(y) \subseteq Keys
  BY DEF Members
<1>6. F \in [1..(Top - 1) -> [Keys -> Keys]] /\ a \in Keys
  <2>1. \A n \in 1..(Top - 1) : Top - n \in 1..Top
    BY <1>2
  <2>2. \A n \in 1..(Top - 1) : \A k \in Keys : from(Top - n, k) \in Keys
    BY <1>4, <1>5, <2>1
  <2>3. Top \in 1..Top
    BY <1>2
  <2>4. a \in Keys
    BY <1>2, <1>4, <1>5, <2>3
  <2> QED BY <2>2, <2>4
<1>7. \A n \in 1..(Top - 1) : \A k \in Keys : F[n][k] = from(Top - n, k)
  OBVIOUS
<1> HIDE DEF F, a
<1>8. PICK f : Iterates(f, Keys, a, Top - 1, F)
  <2>1. Top - 1 \in Nat
    BY <1>2
  <2> QED BY <1>6, <2>1, Iteration
<1> DEFINE g == [y \in 1..Top |-> f[Top - y]]
<1>9. g = [y \in 1..Top |-> from(y, IF y = Top THEN start ELSE g[y + 1])]
  <2>1. ASSUME NEW y \in 1..Top
        PROVE  g[y] = from(y, IF y = Top THEN start ELSE g[y + 1])
    <3>1. g[y] = f[Top - y]
      OBVIOUS
    <3>2. CASE y = Top
      <4>1. Top - y = 0
        BY <1>2, <3>2
      <4> QED BY <1>8, <3>1, <3>2, <4>1 DEF Iterates, a
    <3>3. CASE y # Top
      <4>1. /\ Top - y \in 1..(Top - 1) /\ (Top - y) - 1 = Top - (y + 1) /\ y + 1 \in 1..Top
            /\ Top - (Top - y) = y
        BY <1>2, <3>3
      <4>2. g[y + 1] = f[Top - (y + 1)]
        BY <4>1
      <4> HIDE DEF g
      <4>3. f[Top - y] = F[Top - y][f[(Top - y) - 1]] /\ f[(Top - y) - 1] \in Keys
        BY <1>8, <4>1 DEF Iterates
      <4>4. f[Top - y] = from(y, f[(Top - y) - 1])
        BY <1>7, <4>1, <4>3
      <4> QED BY <3>1, <3>3, <4>1, <4>2, <4>4
    <3> QED BY <3>2, <3>3
  <2>2. g = [y \in 1..Top |-> g[y]]
    OBVIOUS
  <2> HIDE DEF g
  <2> QED BY <2>1, <2>2
<1> HIDE DEF g
<1>10. at = [y \in 1..Top |-> from(y, IF y = Top THEN start ELSE at[y + 1])]
  BY <1>9 DEF from, at
<1> DEFINE S == {n \in Nat : n < Top => at[Top - n] \in Members(Top - n)}
<1>11. 0 \in S
  <2>1. Top \in 1..Top /\ Top - 0 = Top
    BY <1>2
  <2>2. at[Top] = from(Top, start)
    BY <1>10, <2>1
  <2> QED BY <1>2, <1>4, <1>5, <2>1, <2>2
<1>12. ASSUME NEW n \in Nat, n \in S PROVE n + 1 \in S
  <2> SUFFICES ASSUME n + 1 < Top PROVE at[Top - (n + 1)] \in Members(Top - (n + 1))
    OBVIOUS
  <2> DEFINE y == Top - (n + 1)
  <2>1. y \in 1..Top /\ y # Top /\ y + 1 = Top - n /\ n < Top /\ y \in Int
    BY <1>2
  <2>2. at[y + 1] \in Members(y + 1)
    BY <1>12, <2>1
  <2> HIDE DEF y
  <2>3. Members(y + 1) \subseteq Members(y)
    <3>1. \A k \in Keys : level[k] \in Int
      BY IndexAssumption DEF IndexInv, TypeOK, IndexAssumption
    <3> QED BY <2>1, <3>1 DEF Members
  <2>4. at[y] = from(y, at[y + 1])
    BY <1>10, <2>1
  <2>5. at[y + 1] \in Members(y)
    BY <2>2, <2>3
  <2>6. at[y] \in Members(y)
    BY <1>4, <1>5, <2>1, <2>4, <2>5
  <2> QED BY <2>6 DEF y
<1>13. Nat \subseteq S
  <2> HIDE DEF S
  <2> QED BY <1>11, <1>12, SetInduction
<1> SUFFICES ASSUME NEW y \in 1..Top PROVE at[y] \in Members(y)
  BY <1>1
<1>14. Top - y \in Nat /\ Top - y < Top /\ Top - (Top - y) = y
  BY <1>2
<1>15. Top - y \in S
  BY <1>13, <1>14
<1> QED BY <1>14, <1>15

-----------------------------------------------------------------------------
(* The steps. *)

LEMMA IndexInit == Init => IndexInv
<1> SUFFICES ASSUME Init PROVE IndexInv
  OBVIOUS
<1>1. Min(Places) \in Places
  BY IndexAssumption, LeastNat DEF IndexAssumption
<1>2. NoLinks \in LinkMaps /\ DOMAIN NoLinks = {}
  <2>1. NoLinks \in [{} -> Distances] /\ {} \in SUBSET Keys
    BY DEF NoLinks
  <2> QED BY <2>1, LinkMapIntro
<1>3. TypeOK
  BY <1>1, <1>2, IndexAssumption DEF Init, TypeOK, IndexAssumption
<1>4. moved \subseteq nodes /\ Apart(nodes, vector)
  BY DEF Init, Apart, nodes
<1>5. LevelsListed
  BY IndexAssumption DEF Init, LevelsListed, Layers, IndexAssumption
<1>6. ASSUME NEW y \in Layers
      PROVE  /\ Layer(y) \in Good(Members(y), vector, moved)
             /\ Bounded(Layer(y), max_links(y) + 1)
  <2>1. /\ Layer(y) \in LayerType
        /\ \A k \in Keys : Layer(y).out[k] = NoLinks /\ Layer(y).inc[k] = {}
    BY <1>2 DEF Init, Layer, LayerType
  <2>2. Answered(Layer(y), Members(y)) /\ True(Layer(y), vector, moved)
    BY <1>2, <2>1 DEF Answered, True
  <2>3. Bounded(Layer(y), max_links(y) + 1)
    BY <1>2, <2>1, FS_EmptySet, RoomType DEF Bounded, Degree
  <2> QED BY <2>1, <2>2, <2>3 DEF Good
<1> QED BY <1>3, <1>4, <1>5, <1>6 DEF IndexInv, LayersGood

(* Layers that are set to f are f. *)
LEMMA LayersSet ==
  ASSUME NEW f \in [Layers -> LayerType], SetLayers(f)
  PROVE  /\ out' \in [Layers -> [Keys -> LinkMaps]]
         /\ inc' \in [Layers -> [Keys -> SUBSET Keys]]
         /\ \A y \in Layers : Layer(y)' = f[y]
BY DEF SetLayers, Layer, LayerType

LEMMA LayerKept ==
  ASSUME UNCHANGED <<out, inc>>, NEW y \in Layers
  PROVE  Layer(y)' = Layer(y)
BY DEF Layer

(* A new node is in the layers below its level. *)
LEMMA MembersAdded ==
  ASSUME TypeOK, NEW key \in Keys \ nodes, NEW lv \in Layers,
         level' = [level EXCEPT ![key] = lv]
  PROVE  /\ nodes' = nodes \cup {key}
         /\ \A y \in Layers : Members(y)' = IF y <= lv THEN Members(y) \cup {key} ELSE Members(y)
         /\ \A y \in Layers : key \notin Members(y)
<1>1. level \in [Keys -> 0..Levels] /\ level[key] = 0 /\ lv \in 1..Levels
  BY DEF TypeOK, nodes, Layers
<1>2. level' \in [Keys -> 0..Levels] /\ \A k \in Keys : level'[k] = IF k = key THEN lv ELSE level[k]
  BY <1>1, IndexAssumption DEF IndexAssumption
<1>3. nodes' = nodes \cup {key}
  BY <1>1, <1>2 DEF nodes
<1>4. ASSUME NEW y \in Layers
      PROVE  Members(y)' = IF y <= lv THEN Members(y) \cup {key} ELSE Members(y)
  <2>1. y \in Nat /\ y >= 1
    BY DEF Layers
  <2> QED BY <1>1, <1>2, <2>1 DEF Members
<1>5. \A y \in Layers : key \notin Members(y)
  BY <1>1 DEF Members, Layers
<1> QED BY <1>3, <1>4, <1>5

(* What InsertFirst and Insert have in common. *)
LEMMA NodeAdded ==
  ASSUME IndexInv, NEW key \in Keys \ nodes, NEW p \in FreePlaces, NEW lv \in Layers,
         level' = [level EXCEPT ![key] = lv], vector' = [vector EXCEPT ![key] = p],
         levels' = [levels EXCEPT ![lv] = @ \cup {key}], moved' = moved
  PROVE  /\ level' \in [Keys -> 0..Levels] /\ vector' \in [Keys -> Places]
         /\ levels' \in [Layers -> SUBSET Keys] /\ moved' \subseteq Keys
         /\ moved' \subseteq nodes'
         /\ Apart(nodes', vector') /\ LevelsListed'
<1>1. /\ level \in [Keys -> 0..Levels] /\ vector \in [Keys -> Places]
      /\ levels \in [Layers -> SUBSET Keys] /\ moved \subseteq Keys
      /\ level[key] = 0 /\ lv \in 1..Levels /\ p \in Places
      /\ \A k \in nodes : vector[k] # p
  BY DEF IndexInv, TypeOK, nodes, Layers, FreePlaces
<1>2. /\ level' \in [Keys -> 0..Levels] /\ vector' \in [Keys -> Places]
      /\ levels' \in [Layers -> SUBSET Keys] /\ moved' \subseteq Keys
  BY <1>1, IndexAssumption DEF IndexAssumption
<1>3. nodes' = nodes \cup {key}
  BY MembersAdded DEF IndexInv
<1>4. \A k \in nodes : k \in Keys /\ k # key
  BY DEF nodes
<1>5. Apart(nodes', vector')
  BY <1>1, <1>3, <1>4 DEF Apart, IndexInv
<1>6. LevelsListed'
  <2> SUFFICES ASSUME NEW y \in Layers PROVE levels'[y] = {k \in Keys : level'[k] = y}
    BY DEF LevelsListed, Layers
  <2>1. levels[y] = {k \in Keys : level[k] = y} /\ y # 0
    BY DEF IndexInv, LevelsListed, Layers
  <2> QED BY <1>1, <2>1
<1> QED BY <1>2, <1>3, <1>5, <1>6 DEF IndexInv

LEMMA InsertFirstStep ==
  ASSUME IndexInv, NEW key \in Keys \ nodes, NEW p \in FreePlaces, NEW lv \in random_level,
         InsertFirst(key, p, lv)
  PROVE  IndexInv'
<1>1. lv \in Layers
  BY DEF random_level
<1>2. /\ level' = [level EXCEPT ![key] = lv] /\ vector' = [vector EXCEPT ![key] = p]
      /\ levels' = [levels EXCEPT ![lv] = @ \cup {key}] /\ moved' = moved
      /\ UNCHANGED <<out, inc>>
  BY DEF InsertFirst
<1>3. /\ level' \in [Keys -> 0..Levels] /\ vector' \in [Keys -> Places]
      /\ levels' \in [Layers -> SUBSET Keys] /\ moved' \subseteq Keys
      /\ moved' \subseteq nodes' /\ Apart(nodes', vector') /\ LevelsListed'
  BY <1>1, <1>2, NodeAdded
<1>4. TypeOK'
  BY <1>2, <1>3 DEF IndexInv, TypeOK, Layers
<1>5. ASSUME NEW y \in Layers
      PROVE  /\ Layer(y)' \in Good(Members(y)', vector', moved')
             /\ Bounded(Layer(y)', max_links(y) + 1)
  <2>1. Layer(y)' = Layer(y)
    BY <1>2, LayerKept
  <2>2. /\ Members(y) \in SUBSET Keys /\ Members(y) \subseteq nodes
        /\ Layer(y) \in Good(Members(y), vector, moved) /\ Bounded(Layer(y), max_links(y) + 1)
    BY MemberFacts DEF IndexInv, LayersGood
  <2>3. Members(y) \subseteq Members(y)' /\ Members(y)' \in SUBSET Keys
    <3>1. Members(y)' = IF y <= lv THEN Members(y) \cup {key} ELSE Members(y)
      BY <1>1, <1>2, MembersAdded DEF IndexInv
    <3> QED BY <2>2, <3>1
  <2>4. \A k \in Members(y) \ moved : vector[k] = vector'[k]
    BY <1>2, <2>2 DEF nodes
  <2>5. Layer(y) \in Good(Members(y)', vector', moved)
    BY <2>2, <2>3, <2>4, GoodWider
  <2> QED BY <1>2, <2>1, <2>2, <2>5
<1> QED BY <1>3, <1>4, <1>5 DEF IndexInv, LayersGood, Layers, max_links

LEMMA InsertStep ==
  ASSUME IndexInv, nodes # {}, NEW key \in Keys \ nodes, NEW p \in FreePlaces,
         NEW lv \in random_level, NEW s \in levels[Top], Insert(key, p, lv, s)
  PROVE  IndexInv'
<1> DEFINE v == [vector EXCEPT ![key] = p]
           at == Descent(p, s)
           found(y) == SearchLevel(Layer(y), v, p, at[y])
           f == [y \in Layers |->
                  IF y > lv \/ y > Top THEN Layer(y)
                  ELSE Join(Layer(y), v, max_links(y), key, found(y))]
<1>1. lv \in Layers /\ p \in Places
  BY DEF random_level, FreePlaces
<1>2. /\ level' = [level EXCEPT ![key] = lv] /\ vector' = v
      /\ levels' = [levels EXCEPT ![lv] = @ \cup {key}] /\ moved' = moved
      /\ SetLayers(f)
  BY DEF Insert
<1>3. /\ level' \in [Keys -> 0..Levels] /\ vector' \in [Keys -> Places]
      /\ levels' \in [Layers -> SUBSET Keys] /\ moved' \subseteq Keys
      /\ moved' \subseteq nodes' /\ Apart(nodes', vector') /\ LevelsListed'
  BY <1>1, <1>2, NodeAdded
<1>4. /\ nodes' = nodes \cup {key}
      /\ \A y \in Layers : Members(y)' = IF y <= lv THEN Members(y) \cup {key} ELSE Members(y)
      /\ \A y \in Layers : key \notin Members(y)
  BY <1>1, <1>2, MembersAdded DEF IndexInv
<1>5. v \in [Keys -> Places] /\ Apart(nodes \cup {key}, v)
  BY <1>2, <1>3, <1>4
<1>6. \A y \in 1..Top : at[y] \in Members(y)
  BY <1>1, DescentIn
<1>7. /\ Top \in Layers /\ \A y \in Layers : y > Top => Members(y) = {}
  BY TopFacts DEF IndexInv
<1> HIDE DEF at
<1>8. \A k \in Keys \ {key} : v[k] = vector[k]
  OBVIOUS
<1> HIDE DEF v
<1>9. ASSUME NEW y \in Layers
      PROVE  f[y] \in Good(Members(y)', v, moved) /\ Bounded(f[y], max_links(y) + 1)
  <2> DEFINE M == Members(y)
             g == Layer(y)
             room == max_links(y)
  <2>1. /\ M \in SUBSET Keys /\ M \subseteq nodes /\ key \notin M
        /\ g \in Good(M, vector, moved) /\ Bounded(g, room + 1) /\ room \in Nat \ {0}
    BY <1>4, MemberFacts, RoomType DEF IndexInv, LayersGood
  <2>2. M \cup {key} \in SUBSET Keys /\ M \subseteq M \cup {key} /\ M \subseteq M
        /\ moved \subseteq moved /\ \A k \in M \ moved : vector[k] = v[k]
    BY <1>8, <2>1
  <2> HIDE DEF M, g, room
  <2>3. g \in Good(M, v, moved) /\ g \in Good(M \cup {key}, v, moved)
    BY <2>1, <2>2, GoodWider
  <2>4. CASE y > lv \/ y > Top
    <3>1. f[y] = g
      BY <2>4 DEF g
    <3>2. Members(y)' = M \/ Members(y)' = M \cup {key}
      BY <1>4 DEF M
    <3> QED BY <2>1, <2>3, <3>1, <3>2 DEF room
  <2>5. CASE ~(y > lv \/ y > Top)
    <3> DEFINE S == found(y)
    <3>1. f[y] = Join(g, v, room, key, S)
      BY <2>5 DEF g, room
    <3>2. y <= lv /\ y \in 1..Top
      BY <1>1, <1>7, <2>5 DEF Layers
    <3>3. Members(y)' = M \cup {key}
      BY <1>4, <3>2 DEF M
    <3>4. Apart(M \cup {key}, v) /\ Apart(M, v)
      BY <1>5, <2>1 DEF Apart
    <3>5. S \in SUBSET M
      <4>1. at[y] \in M
        BY <1>6, <3>2 DEF M
      <4>2. g \in LayerType /\ Answered(g, M)
        BY <2>1 DEF Good
      <4>3. SearchLevel(g, v, p, at[y]) \subseteq M
        BY <1>1, <1>5, <2>1, <3>4, <4>1, <4>2, SearchLevelIn
      <4> QED BY <4>3 DEF g
    <3> HIDE DEF S
    <3>6. key \in Keys \ M
      BY <2>1
    <3>7. /\ Join(g, v, room, key, S) \in Good(M \cup {key}, v, moved)
          /\ Bounded(Join(g, v, room, key, S), room + 1)
      BY <1>5, <2>1, <2>3, <3>4, <3>5, <3>6, JoinGood
    <3> HIDE DEF f
    <3> QED BY <3>1, <3>3, <3>7 DEF room
  <2> QED BY <2>4, <2>5
<1>10. f \in [Layers -> LayerType]
  <2>1. \A y \in Layers : f[y] \in LayerType
    BY <1>9 DEF Good
  <2>2. f = [y \in Layers |-> f[y]]
    OBVIOUS
  <2> HIDE DEF f
  <2> QED BY <2>1, <2>2
<1> HIDE DEF f
<1>11. /\ out' \in [Layers -> [Keys -> LinkMaps]] /\ inc' \in [Layers -> [Keys -> SUBSET Keys]]
       /\ \A y \in Layers : Layer(y)' = f[y]
  BY <1>2, <1>10, LayersSet
<1>12. TypeOK'
  BY <1>3, <1>11 DEF TypeOK, Layers
<1>13. LayersGood'
  BY <1>2, <1>9, <1>11 DEF LayersGood, Layers, max_links
<1> QED BY <1>3, <1>12, <1>13 DEF IndexInv

LEMMA MoveStep ==
  ASSUME IndexInv, NEW key \in nodes, NEW p \in FreePlaces, Move(key, p)
  PROVE  IndexInv'
<1>1. /\ vector' = [vector EXCEPT ![key] = p] /\ moved' = moved \cup {key}
      /\ level' = level /\ levels' = levels /\ UNCHANGED <<out, inc>>
  BY DEF Move
<1>2. /\ vector \in [Keys -> Places] /\ moved \subseteq Keys /\ moved \subseteq nodes
      /\ key \in Keys /\ p \in Places /\ \A k \in nodes : vector[k] # p
  BY DEF IndexInv, TypeOK, FreePlaces, nodes
<1>3. vector' \in [Keys -> Places] /\ moved' \subseteq Keys
  BY <1>1, <1>2
<1>4. TypeOK'
  BY <1>1, <1>3 DEF IndexInv, TypeOK, Layers
<1>5. nodes' = nodes /\ moved' \subseteq nodes'
  BY <1>1, <1>2 DEF nodes
<1>6. Apart(nodes', vector')
  <2>1. nodes \subseteq Keys
    BY DEF nodes
  <2> QED BY <1>1, <1>2, <1>5, <2>1 DEF Apart, IndexInv
<1>7. LevelsListed'
  BY <1>1 DEF IndexInv, LevelsListed, Layers
<1>8. ASSUME NEW y \in Layers
      PROVE  /\ Layer(y)' \in Good(Members(y)', vector', moved')
             /\ Bounded(Layer(y)', max_links(y) + 1)
  <2>1. Layer(y)' = Layer(y) /\ Members(y)' = Members(y)
    BY <1>1, LayerKept DEF Members
  <2>2. /\ Members(y) \in SUBSET Keys
        /\ Layer(y) \in Good(Members(y), vector, moved) /\ Bounded(Layer(y), max_links(y) + 1)
    BY MemberFacts DEF IndexInv, LayersGood
  <2>3. moved \subseteq moved' /\ \A k \in Members(y) \ moved' : vector[k] = vector'[k]
    BY <1>1, <1>2, <2>2
  <2>4. Layer(y) \in Good(Members(y), vector', moved')
    BY <2>2, <2>3, GoodWider
  <2> QED BY <2>1, <2>2, <2>4
<1> QED BY <1>4, <1>5, <1>6, <1>7, <1>8 DEF IndexInv, LayersGood, Layers, max_links

LEMMA EraseStep ==
  ASSUME IndexInv, NEW key \in nodes, Erase(key)
  PROVE  IndexInv'
<1>1. PICK orders : /\ \A y \in Layers : orders[y] \in SetToSeqs(inc[y][key])
                    /\ SetLayers([y \in Layers |->
                                    Relink(Layer(y), max_links(y), key, orders[y])])
  BY DEF Erase
<1> DEFINE f == [y \in Layers |-> Relink(Layer(y), max_links(y), key, orders[y])]
<1>2. /\ level' = [level EXCEPT ![key] = 0] /\ vector' = [vector EXCEPT ![key] = Min(Places)]
      /\ levels' = [levels EXCEPT ![level[key]] = @ \ {key}] /\ moved' = moved \ {key}
  BY DEF Erase
<1>3. /\ level \in [Keys -> 0..Levels] /\ vector \in [Keys -> Places]
      /\ levels \in [Layers -> SUBSET Keys] /\ moved \subseteq nodes /\ moved \subseteq Keys
      /\ key \in Keys /\ level[key] \in Layers /\ Min(Places) \in Places
  <2>1. Min(Places) \in Places
    BY IndexAssumption, LeastNat DEF IndexAssumption
  <2> QED BY <2>1, IndexAssumption DEF IndexInv, TypeOK, nodes, Layers, IndexAssumption
<1>4. /\ level' \in [Keys -> 0..Levels] /\ vector' \in [Keys -> Places]
      /\ levels' \in [Layers -> SUBSET Keys] /\ moved' \subseteq Keys
  BY <1>2, <1>3, IndexAssumption DEF IndexAssumption
<1>5. nodes' = nodes \ {key} /\ moved' \subseteq nodes'
  BY <1>2, <1>3 DEF nodes
<1>6. Apart(nodes', vector')
  <2>1. nodes \subseteq Keys
    BY DEF nodes
  <2> QED BY <1>2, <1>3, <1>5, <2>1 DEF Apart, IndexInv
<1>7. LevelsListed'
  <2> SUFFICES ASSUME NEW y \in Layers PROVE levels'[y] = {k \in Keys : level'[k] = y}
    BY DEF LevelsListed, Layers
  <2>1. levels[y] = {k \in Keys : level[k] = y} /\ y # 0
    BY DEF IndexInv, LevelsListed, Layers
  <2> QED BY <1>2, <1>3, <2>1
<1>8. ASSUME NEW y \in Layers
      PROVE  f[y] \in Good(Members(y)', vector', moved') /\ Bounded(f[y], max_links(y) + 1)
  <2> DEFINE M == Members(y)
             g == Layer(y)
             room == max_links(y)
             order == orders[y]
             h == Relink(g, room, key, order)
  <2>1. /\ M \in SUBSET Keys /\ M \subseteq nodes
        /\ g \in Good(M, vector, moved) /\ Bounded(g, room + 1) /\ room \in Nat \ {0}
    BY MemberFacts, RoomType DEF IndexInv, LayersGood
  <2>2. order \in SetToSeqs(g.inc[key])
    BY <1>1 DEF Layer
  <2>3. Members(y)' = M \ {key}
    BY <1>2, <1>3 DEF Members, Layers
  <2>4. Apart(M, vector)
    BY <2>1 DEF IndexInv, Apart
  <2>5. f[y] = h
    OBVIOUS
  <2> HIDE DEF M, g, room, order, f
  <2>6. h \in Good(M \ {key}, vector, moved \ {key}) /\ Bounded(h, room + 1)
    BY <1>3, <2>1, <2>2, <2>4, RelinkGood
  <2>7. /\ M \ {key} \in SUBSET Keys /\ M \ {key} \subseteq M \ {key}
        /\ moved \ {key} \subseteq moved \ {key}
        /\ \A k \in (M \ {key}) \ (moved \ {key}) : vector[k] = vector'[k]
    BY <1>2, <1>3, <2>1
  <2> HIDE DEF h
  <2>8. h \in Good(M \ {key}, vector', moved \ {key})
    BY <2>6, <2>7, GoodWider
  <2> QED BY <1>2, <2>3, <2>5, <2>6, <2>8 DEF room
<1>9. f \in [Layers -> LayerType] /\ SetLayers(f)
  <2>1. \A y \in Layers : f[y] \in LayerType
    BY <1>8 DEF Good
  <2>2. f = [y \in Layers |-> f[y]]
    OBVIOUS
  <2>3. SetLayers(f)
    BY <1>1
  <2> HIDE DEF f
  <2> QED BY <2>1, <2>2, <2>3
<1> HIDE DEF f
<1>10. /\ out' \in [Layers -> [Keys -> LinkMaps]] /\ inc' \in [Layers -> [Keys -> SUBSET Keys]]
       /\ \A y \in Layers : Layer(y)' = f[y]
  BY <1>9, LayersSet
<1>11. TypeOK'
  BY <1>4, <1>10 DEF TypeOK, Layers
<1>12. LayersGood'
  BY <1>8, <1>10 DEF LayersGood, Layers, max_links
<1> QED BY <1>5, <1>6, <1>7, <1>11, <1>12 DEF IndexInv

LEMMA IndexNext == IndexInv /\ [Next]_vars => IndexInv'
<1> SUFFICES ASSUME IndexInv, [Next]_vars PROVE IndexInv'
  OBVIOUS
<1>1. ASSUME NEW k \in Keys \ nodes, NEW p \in FreePlaces, NEW lv \in random_level,
             InsertFirst(k, p, lv)
      PROVE  IndexInv'
  BY <1>1, InsertFirstStep
<1>2. ASSUME NEW k \in Keys \ nodes, NEW p \in FreePlaces, NEW lv \in random_level,
             nodes # {}, NEW s \in levels[Top], Insert(k, p, lv, s)
      PROVE  IndexInv'
  BY <1>2, InsertStep
<1>3. ASSUME NEW k \in nodes, Erase(k) PROVE IndexInv'
  BY <1>3, EraseStep
<1>4. ASSUME NEW k \in nodes, NEW p \in FreePlaces, Move(k, p) PROVE IndexInv'
  BY <1>4, MoveStep
<1>5. CASE UNCHANGED vars
  BY <1>5 DEF vars, IndexInv, TypeOK, nodes, Apart, LevelsListed, LayersGood, Layer, Layers,
              Members, max_links
<1> QED BY <1>1, <1>2, <1>3, <1>4, <1>5 DEF Next

LEMMA InvariantHolds == Spec => []IndexInv
BY IndexInit, IndexNext, PTL DEF Spec

(* After any insertions, moves and removals, whatever the layers and the     *)
(* entry points and in whatever order incoming links are visited, the index  *)
(* passes hnsw_index::check().                                               *)
THEOREM CheckHolds == Spec => []Check
<1>1. IndexInv => Check
  <2> SUFFICES ASSUME IndexInv PROVE check
    BY DEF Check, IndexInv
  <2>1. ASSUME NEW y \in Layers, NEW k \in Keys
        PROVE  /\ k \notin DOMAIN out[y][k]
               /\ \A x \in Keys : x \in DOMAIN out[y][k] <=> k \in inc[y][x]
               /\ DOMAIN out[y][k] # {} \/ inc[y][k] # {} => level[k] >= y
    <3>1. Answered(Layer(y), Members(y)) /\ inc[y][k] \subseteq Keys
      BY DEF IndexInv, LayersGood, Good, TypeOK
    <3>2. \A x \in inc[y][k] : k \in DOMAIN out[y][x]
      BY <3>1 DEF Answered, Layer
    <3> QED BY <3>1, <3>2 DEF Answered, Layer, Members
  <2> QED BY <2>1 DEF check, IndexInv, LevelsListed
<1> QED BY <1>1, InvariantHolds, PTL

(* The limit of a layer, max_links or twice as many on the lowest, is        *)
(* exceeded by one link at most, however many nodes were removed.            *)
THEOREM LinksBoundedHolds == Spec => []LinksBounded
<1>1. IndexInv => LinksBounded
  BY DEF IndexInv, LayersGood, Bounded, Degree, Layer, LinksBounded, Excess
<1> QED BY <1>1, InvariantHolds, PTL

(* A stored distance is the distance of the ends of its link, unless one of  *)
(* them was moved since.                                                     *)
THEOREM StoredDistancesHolds == Spec => []StoredDistances
<1>1. IndexInv => StoredDistances
  <2> SUFFICES ASSUME IndexInv, NEW y \in Layers, NEW k \in nodes \ moved,
                      NEW x \in DOMAIN out[y][k] \ moved
               PROVE  out[y][k][x] = distance(vector[k], vector[x])
    BY DEF StoredDistances
  <2>1. True(Layer(y), vector, moved) /\ k \in Keys
    BY DEF IndexInv, LayersGood, Good, nodes
  <2> QED BY <2>1 DEF True, Layer
<1> QED BY <1>1, InvariantHolds, PTL
=============================================================================
