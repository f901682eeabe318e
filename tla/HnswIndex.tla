------------------------------- MODULE HnswIndex -------------------------------
(***************************************************************************)
(* hnsw_index, the approximate index of nearest nodes: every node is in    *)
(* the layers below its level, and has in each of them outgoing links with *)
(* their distances and the incoming links that answer them.  GNGAlgorithm  *)
(* inserts and removes nodes, moves them (ONLINE_HNSW_MV) or removes and   *)
(* inserts them again (ONLINE_HNSW), and asks for the two nearest.         *)
(*                                                                         *)
(* Nodes are on a line, no two in one place, and the places are such that  *)
(* no two pairs of them are equally far apart.  Hash maps are functions; a *)
(* node that a hash set begins with is any of it, incoming links are       *)
(* visited in any order.  insert_method and remove_method are as           *)
(* GNGAlgorithm leaves them (link_diverse, compensate_incomming_links).    *)
(***************************************************************************)
EXTENDS Integers, SequencesExt

CONSTANTS
  Keys,       \* node numbers
  Places,     \* where nodes may be
  Levels,     \* bound on random_level() + 1
  MaxLinks,   \* options.max_links
  Ef,         \* options.ef_construction, and efSearch
  MaxUpper,   \* bound on the nodes above level 1
  MaxMoved,   \* bound on the nodes that were moved
  MaxWith     \* bound on the nodes in an index that has some that were moved

ASSUME IndexAssumption ==
  /\ IsFiniteSet(Keys) /\ Places \subseteq Nat /\ Places # {}
  /\ Levels \in Nat \ {0} /\ MaxLinks \in Nat \ {0} /\ Ef \in Nat /\ Ef >= 2
  /\ MaxUpper \in Nat /\ MaxMoved \in Nat /\ MaxWith \in Nat

VARIABLES
  level,   \* layers.size() of a node, 0 if it is not in the index
  vector,  \* node_t::vector
  out,     \* layer_t::outgoing by layer: to each key the distance it has stored
  inc,     \* layer_t::incoming by layer
  levels,  \* the keys of each level
  moved    \* auxiliary: the nodes that were moved since they were inserted

vars == <<level, vector, out, inc, levels, moved>>

Layers == 1..Levels
nodes == {k \in Keys : level[k] # 0}

max_links(layer) == IF layer = 1 THEN 2 * MaxLinks ELSE MaxLinks

distance(p, q) == (p - q) * (p - q)

Distances == {distance(p, q) : p, q \in Places}

LinkMaps == UNION {[S -> Distances] : S \in SUBSET Keys}

NoLinks == [k \in {} |-> 0]

Init ==
  /\ level = [k \in Keys |-> 0]
  /\ vector = [k \in Keys |-> Min(Places)]
  /\ out = [y \in Layers |-> [k \in Keys |-> NoLinks]]
  /\ inc = [y \in Layers |-> [k \in Keys |-> {}]]
  /\ levels = [y \in Layers |-> {}]
  /\ moved = {}

-----------------------------------------------------------------------------
(* A layer g has its links out and inc; v gives the nodes' vectors.         *)

Layer(y) == [out |-> out[y], inc |-> inc[y]]

(* Of S the key with the least d, the leftmost if there are several. *)
Nearest(S, d, v) ==
  CHOOSE x \in S : \A z \in S \ {x} : d[x] < d[z] \/ (d[x] = d[z] /\ v[x] < v[z])

To(S, p, v) == [x \in S |-> distance(p, v[x])]

Restricted(f, S) == [x \in S |-> f[x]]

Link(g, n, x, d) ==    \* an emplace where there is a link changes nothing
  [out |-> [g.out EXCEPT ![n] =
              IF x \in DOMAIN @ THEN @
              ELSE [z \in DOMAIN @ \cup {x} |-> IF z = x THEN d ELSE @[z]]],
   inc |-> [g.inc EXCEPT ![x] = @ \cup {n}]]

Unlink(g, n, x) ==
  [out |-> [g.out EXCEPT ![n] = Restricted(@, DOMAIN @ \ {x})],
   inc |-> [g.inc EXCEPT ![x] = @ \ {n}]]

FaultTryAddLink(g, v, room, n, x, d) ==    \* incoming of the replaced one is kept
  LET links == g.out[n]
      last == Max({links[z] : z \in DOMAIN links})
      apart(z) == distance(v[x], v[z])
      nearer == {z \in DOMAIN links : links[z] > d /\ links[z] > apart(z)}
      r == IF nearer = {} THEN CHOOSE z \in DOMAIN links : links[z] = last
                          ELSE Nearest(nearer, links, v)
  IN  IF Cardinality(DOMAIN links) < room THEN Link(g, n, x, d)
      ELSE IF x \in DOMAIN links \/ d >= last
              \/ \E z \in DOMAIN links : links[z] <= d /\ apart(z) < d THEN g
      ELSE Link([g EXCEPT !.out[n] = Restricted(@, DOMAIN @ \ {r})], n, x, d)

FaultAddAlways(g, v, room, n, x, d) == Link(g, n, x, d)   \* never looks for room

(* try_add_link.  When n has no room for x, x must be nearer than the       *)
(* furthest link, and not nearer to a link that is nearer to n than x; it   *)
(* replaces the first link that is nearer to x than to n, or the furthest.  *)
TryAddLink(g, v, room, n, x, d) ==
  LET links == g.out[n]
      last == Max({links[z] : z \in DOMAIN links})
      apart(z) == distance(v[x], v[z])
      nearer == {z \in DOMAIN links : links[z] > d /\ links[z] > apart(z)}
      furthest == {z \in DOMAIN links : links[z] = last}
      r == Nearest(IF nearer = {} THEN furthest ELSE nearer, links, v)
  IN  IF Cardinality(DOMAIN links) < room THEN Link(g, n, x, d)
      ELSE IF x \in DOMAIN links \/ d >= last
              \/ \E z \in DOMAIN links : links[z] <= d /\ apart(z) < d THEN g
      ELSE Link(Unlink(g, n, r), n, x, d)

Sorted(S, d) ==
  CHOOSE s \in SetToSeqs(S) : \A i, j \in DOMAIN s : i < j => d[s[i]] <= d[s[j]]

(* select_diverse_links: candidates by distance; one that is nearer to a    *)
(* link already chosen waits until the others have had their chance.        *)
Chosen(room, order, d, v) ==
  LET chosen[i \in 0..Len(order)] ==
        IF i = 0 THEN {}
        ELSE IF \/ Cardinality(chosen[i - 1]) >= room
                \/ \E z \in chosen[i - 1] : distance(v[order[i]], v[z]) < d[order[i]]
        THEN chosen[i - 1] ELSE chosen[i - 1] \cup {order[i]}
  IN  chosen[Len(order)]

Filled(room, order, first) ==
  LET filled[i \in 0..Len(order)] ==
        IF i = 0 THEN first
        ELSE IF Cardinality(filled[i - 1]) >= room THEN filled[i - 1]
        ELSE filled[i - 1] \cup {order[i]}
  IN  filled[Len(order)]

DiverseLinks(room, S, p, v) ==
  LET d == To(S, p, v)
      order == Sorted(S, d)
  IN  Filled(room, order, Chosen(room, order, d, v))

(* set_links, for a key that has no links yet. *)
SetLinks(g, key, T, d) ==
  [out |-> [g.out EXCEPT ![key] = Restricted(d, T)],
   inc |-> [k \in Keys |-> IF k \in T THEN g.inc[k] \cup {key} ELSE g.inc[k]]]

(* select_most_diverse_link: of S the nearest to n that no link of n has    *)
(* nearer, or else the nearest.                                             *)
MostDiverse(g, v, n, S) ==
  LET d == To(S, v[n], v)
      good == {x \in S : \A z \in DOMAIN g.out[n] : distance(v[z], v[x]) >= d[x]}
  IN  Nearest(IF good = {} THEN S ELSE good, d, v)

(* greedy_search *)
Greedy(g, v, q, start) ==
  LET at[n \in 0..Cardinality(nodes)] ==
        IF n = 0 THEN start
        ELSE LET k == at[n - 1]
                 better == {x \in DOMAIN g.out[k] : distance(q, v[x]) < distance(q, v[k])}
             IN  IF better = {} THEN k ELSE Nearest(better, To(better, q, v), v)
  IN  at[Cardinality(nodes)]

(* search_level: the best Ef nodes found by following links, the nearest    *)
(* first, from start.  A node that is no longer among them is not followed. *)
SearchLevel(g, v, q, start) ==
  LET d == To(Keys, q, v)
      Best(S) == IF Cardinality(S) <= Ef THEN S
                 ELSE {x \in S : Cardinality({z \in S : d[z] < d[x]}) < Ef}
      hop[n \in 0..Cardinality(nodes)] ==
        IF n = 0 THEN [seen |-> {start}, results |-> {start}, followed |-> {}]
        ELSE LET h == hop[n - 1]
                 front == h.results \ h.followed
                 x == Nearest(front, d, v)
             IN  IF front = {} THEN h
                 ELSE [seen |-> h.seen \cup DOMAIN g.out[x],
                       results |-> Best(h.results \cup (DOMAIN g.out[x] \ h.seen)),
                       followed |-> h.followed \cup {x}]
  IN  hop[Cardinality(nodes)].results

-----------------------------------------------------------------------------
Top == Max({y \in Layers : levels[y] # {}})

(* Where the search enters each layer, coming down from start. *)
Descent(q, start) ==
  LET at[y \in 1..Top] ==
        Greedy(Layer(y), vector, q, IF y = Top THEN start ELSE at[y + 1])
  IN  at

(* set_links on a layer for a new key, then try_add_link from each result.  *)
Offer(g, v, room, key, peer, d) ==
  LET tried[i \in 0..Len(peer)] ==
        IF i = 0 THEN g
        ELSE TryAddLink(tried[i - 1], v, room, peer[i], key, d[peer[i]])
  IN  tried[Len(peer)]

Join(g, v, room, key, S) ==
  LET d == To(S, v[key], v)
  IN  Offer(SetLinks(g, key, DiverseLinks(room, S, v[key], v), d), v, room, key, Sorted(S, d), d)

SetLayers(f) ==
  /\ out' = [y \in Layers |-> f[y].out]
  /\ inc' = [y \in Layers |-> f[y].inc]

(* insert, at level lv, entering at start. *)
Insert(key, p, lv, start) ==
  LET v == [vector EXCEPT ![key] = p]
      at == Descent(p, start)
  IN  /\ level' = [level EXCEPT ![key] = lv]
      /\ vector' = v
      /\ SetLayers([y \in Layers |->
           IF y > lv \/ y > Top THEN Layer(y)
           ELSE Join(Layer(y), v, max_links(y), key, SearchLevel(Layer(y), v, p, at[y]))])
      /\ levels' = [levels EXCEPT ![lv] = @ \cup {key}]
      /\ UNCHANGED moved

InsertFirst(key, p, lv) ==
  /\ nodes = {}
  /\ level' = [level EXCEPT ![key] = lv]
  /\ vector' = [vector EXCEPT ![key] = p]
  /\ levels' = [levels EXCEPT ![lv] = @ \cup {key}]
  /\ UNCHANGED <<out, inc, moved>>

(* move *)
Move(key, p) ==
  /\ vector' = [vector EXCEPT ![key] = p]
  /\ moved' = moved \cup {key}
  /\ Cardinality(moved') <= MaxMoved /\ Cardinality(nodes) <= MaxWith
  /\ UNCHANGED <<level, out, inc, levels>>

FaultCompensate(g, room, n, own) ==    \* with the distance of another link
  LET S == own \ ({n} \cup DOMAIN g.out[n])
      x == MostDiverse(g, vector, n, S)
      d == Min({distance(vector[n], vector[z]) : z \in own})
  IN  IF S = {} THEN g ELSE TryAddLink(Link(g, n, x, d), vector, room, x, n, d)

(* A peer that linked to key gets one of key's own links instead, and that  *)
(* node is offered a link back.                                             *)
Compensate(g, room, n, own) ==
  LET S == own \ ({n} \cup DOMAIN g.out[n])
      x == MostDiverse(g, vector, n, S)
      d == distance(vector[n], vector[x])
  IN  IF S = {} THEN g ELSE TryAddLink(Link(g, n, x, d), vector, room, x, n, d)

(* The links of key, both ways, are taken out, and key goes with its own.   *)
Detach(g, key) ==
  [out |-> [k \in Keys |-> IF k = key THEN NoLinks
                           ELSE IF k \in g.inc[key]
                           THEN Restricted(g.out[k], DOMAIN g.out[k] \ {key}) ELSE g.out[k]],
   inc |-> [k \in Keys |-> IF k = key THEN {}
                           ELSE IF k \in DOMAIN g.out[key] THEN g.inc[k] \ {key} ELSE g.inc[k]]]

Relink(g, room, key, order) ==
  LET relinked[i \in 0..Len(order)] ==
        IF i = 0 THEN Detach(g, key)
        ELSE Compensate(relinked[i - 1], room, order[i], DOMAIN g.out[key])
  IN  relinked[Len(order)]

(* remove, visiting the incoming links of each layer in some order. *)
Erase(key) ==
  /\ \E orders \in [Layers -> UNION {SetToSeqs(inc[y][key]) : y \in Layers}] :
       /\ \A y \in Layers : orders[y] \in SetToSeqs(inc[y][key])
       /\ SetLayers([y \in Layers |-> Relink(Layer(y), max_links(y), key, orders[y])])
  /\ level' = [level EXCEPT ![key] = 0]
  /\ vector' = [vector EXCEPT ![key] = Min(Places)]
  /\ levels' = [levels EXCEPT ![level[key]] = @ \ {key}]
  /\ moved' = moved \ {key}

(* random_level() + 1, a level within the bounds. *)
random_level ==
  {lv \in Layers : lv > 1 => Cardinality({k \in nodes : level[k] > 1}) < MaxUpper}

FreePlaces == Places \ {vector[k] : k \in nodes}

Next ==
  \/ \E k \in Keys \ nodes, p \in FreePlaces, lv \in random_level :
       \/ InsertFirst(k, p, lv)
       \/ /\ nodes # {}
          /\ moved # {} => Cardinality(nodes) < MaxWith
          /\ \E s \in levels[Top] : Insert(k, p, lv, s)
  \/ \E k \in nodes : Erase(k) \/ \E p \in FreePlaces : Move(k, p)

Spec == Init /\ [][Next]_vars

-----------------------------------------------------------------------------
TypeOK ==
  /\ level \in [Keys -> 0..Levels] /\ vector \in [Keys -> Places]
  /\ out \in [Layers -> [Keys -> LinkMaps]]
  /\ inc \in [Layers -> [Keys -> SUBSET Keys]]
  /\ levels \in [Layers -> SUBSET Keys] /\ moved \subseteq Keys

(* hnsw_index::check(), which the code offers for tests.                    *)
check ==
  /\ \A y \in Layers, k \in Keys :
       /\ k \notin DOMAIN out[y][k]
       /\ \A x \in Keys : x \in DOMAIN out[y][k] <=> k \in inc[y][x]
       /\ DOMAIN out[y][k] # {} \/ inc[y][k] # {} => level[k] >= y
  /\ \A y \in Layers : levels[y] = {k \in Keys : level[k] = y}

(* The index passes check() after any insertions, removals and moves: no    *)
(* node links to itself, every link is answered on its layer by a node that *)
(* has the layer, and the levels list every node where it is.               *)
Check == TypeOK /\ check

(* max_links is kept by insert; remove may exceed it, when a peer that is    *)
(* still to be compensated is offered a link first, but never by more than   *)
(* one, however many nodes are removed.                                      *)
Excess(n) ==
  \A y \in Layers, k \in Keys : Cardinality(DOMAIN out[y][k]) <= max_links(y) + n

LinksBounded == Excess(1)

(* The distance stored with a link is the distance of its ends, unless one  *)
(* of them was moved since.                                                 *)
StoredDistances ==
  \A y \in Layers : \A k \in nodes \ moved : \A x \in DOMAIN out[y][k] \ moved :
    out[y][k][x] = distance(vector[k], vector[x])

(* _getNearestNeurons: the two nearest of what a search finds. *)
Found(q, start) == SearchLevel(Layer(1), vector, q, Descent(q, start)[1])

SearchFindsTwo ==
  Cardinality(nodes) >= 2 =>
    \A q \in Places, s \in levels[Top] : Cardinality(Found(q, s)) >= 2
=============================================================================
