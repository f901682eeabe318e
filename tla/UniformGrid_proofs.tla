-------------------------- MODULE UniformGrid_proofs --------------------------
(***************************************************************************)
(* Proofs about UniformGrid: the cells always cover the box, how the grid  *)
(* can come to differ from the graph as long as no two nodes are in one    *)
(* place, and that the ring search finds the two nearest nodes in a grid.  *)
(***************************************************************************)
EXTENDS UniformGrid, DataFacts

LEMMA GreaterOfTwo ==
  ASSUME NEW a \in Int, NEW b \in Int
  PROVE  Max({a, b}) \in {a, b} /\ Max({a, b}) >= a /\ Max({a, b}) >= b
<1>1. \E x \in {a, b} : \A y \in {a, b} : x >= y
  OBVIOUS
<1> QED BY <1>1 DEF Max

LEMMA DivisionBounds ==
  ASSUME NEW a \in Nat, NEW b \in Nat \ {0}
  PROVE  /\ a \div b \in Nat
         /\ (a \div b) * b <= a /\ a < (a \div b) * b + b
OBVIOUS

LEMMA LargerTimes ==
  ASSUME NEW a \in Int, NEW b \in Int, NEW c \in Nat, a <= b
  PROVE  a * c <= b * c
OBVIOUS

LEMMA PlusOneTimes ==
  ASSUME NEW a \in Int, NEW c \in Int
  PROVE  (a + 1) * c = a * c + c
OBVIOUS

(* As many cells as calculate_cell_side says are more than are needed.     *)
LEMMA SideCovers ==
  ASSUME NEW len \in Nat \ {0}, NEW old \in Nat
  PROVE  /\ calculate_cell_side(len, old) \in Nat \ {0}
         /\ calculate_cell_side(len, old) * len > Side
<1> DEFINE q == Side \div len
           m == calculate_cell_side(len, old)
<1>1. q \in Nat /\ Side < q * len + len /\ Side \in Nat
  BY GridAssumption, DivisionBounds DEF GridAssumption
<1>2. m \in {old + 1, q + 1} /\ m >= q + 1
  <2>1. m = Max({old + 1, q + 1})
    BY DEF calculate_cell_side
  <2>2. old + 1 \in Int /\ q + 1 \in Int
    BY <1>1
  <2> HIDE DEF q, m
  <2> QED BY <2>1, <2>2, GreaterOfTwo
<1>3. (q + 1) * len = q * len + len
  <2>1. q \in Int /\ len \in Int
    BY <1>1
  <2> HIDE DEF q
  <2> QED BY <2>1, PlusOneTimes, Zenon
<1>4. (q + 1) * len <= m * len
  <2> HIDE DEF q, m
  <2> QED BY <1>1, <1>2, LargerTimes
<1>5. m \in Nat \ {0} /\ m * len \in Int /\ q * len \in Int
  <2> HIDE DEF q, m
  <2> QED BY <1>1, <1>2
<1> HIDE DEF q, m
<1>6. m * len > Side
  BY <1>1, <1>3, <1>4, <1>5
<1> QED BY <1>5, <1>6 DEF m

(* Every point of the box has a cell of the grid. *)
LEMMA CellInGrid ==
  ASSUME NEW p \in Point, NEW len \in Nat \ {0}, NEW m \in Nat, m * len > Side
  PROVE  calculateCell(p, len) \in Grid(m)
<1>1. ASSUME NEW i \in Axes PROVE p[i] \div len \in 0..(m - 1)
  <2> DEFINE q == p[i] \div len
  <2>1. p[i] \in Nat /\ p[i] <= Side /\ Side \in Nat
    BY GridAssumption DEF Point, GridAssumption
  <2>2. q \in Nat /\ q * len <= p[i]
    BY <2>1, DivisionBounds
  <2> HIDE DEF q
  <2>3. ASSUME q >= m PROVE FALSE
    <3>1. m * len <= q * len
      BY <2>2, <2>3, LargerTimes
    <3> QED BY <2>1, <2>2, <3>1
  <2>4. q \in 0..(m - 1)
    BY <2>2, <2>3
  <2> QED BY <2>4 DEF q
<1> QED BY <1>1 DEF calculateCell, Grid

-----------------------------------------------------------------------------

LEMMA TypeInit == Init => TypeOK
<1> SUFFICES ASSUME Init PROVE TypeOK
  OBVIOUS
<1>1. dim \in Nat \ {0} /\ dim * l > Side
  <2>1. l \in Nat \ {0}
    BY GridAssumption DEF Init, GridAssumption
  <2> QED BY <2>1, SideCovers DEF Init
<1>2. cells \in [Grid(dim) -> Seq(Slots)]
  BY DEF Init
<1>3. pos \in [Slots -> Point]
  BY GridAssumption DEF Init, Nowhere, Point, GridAssumption
<1>4. l \in LastL..FirstL /\ live \subseteq Slots
  BY GridAssumption DEF Init, GridAssumption
<1> QED BY <1>1, <1>2, <1>3, <1>4 DEF TypeOK

LEMMA PlaceInBox == Place \subseteq Point
BY GridAssumption DEF Place, Point, GridAssumption

(* Entering a node in its cell. *)
LEMMA InCellType ==
  ASSUME TypeOK, NEW g \in [Grid(dim) -> Seq(Slots)], NEW p \in Point, NEW x \in Slots
  PROVE  /\ calculateCell(p, l) \in Grid(dim)
         /\ InCell(g, p, l, x) \in [Grid(dim) -> Seq(Slots)]
         /\ InCell(g, p, l, x)[calculateCell(p, l)] = Append(g[calculateCell(p, l)], x)
         /\ \A k \in Grid(dim) \ {calculateCell(p, l)} : InCell(g, p, l, x)[k] = g[k]
<1>1. l \in Nat \ {0} /\ dim \in Nat
  BY GridAssumption DEF TypeOK, GridAssumption
<1>2. calculateCell(p, l) \in Grid(dim)
  BY <1>1, CellInGrid DEF TypeOK
<1> QED BY <1>2 DEF InCell

(* Where in its cell something is at the position p. *)
Here(p) ==
  LET c == calculateCell(p, l) IN {k \in 1..Len(cells[c]) : pos[cells[c][k]] = p}

(* Taking a node out of the cell of a position: the cell is left alone, or  *)
(* it loses an element that is there.                                       *)
LEMMA DropFromType ==
  ASSUME TypeOK, NEW p \in Point
  PROVE  /\ calculateCell(p, l) \in Grid(dim)
         /\ DropFrom(cells, p, l) \in [Grid(dim) -> Seq(Slots)]
         /\ \A k \in Grid(dim) \ {calculateCell(p, l)} : DropFrom(cells, p, l)[k] = cells[k]
         /\ Here(p) # {} =>
              \E k \in Here(p) : DropFrom(cells, p, l)[calculateCell(p, l)]
                                   = RemoveAt(cells[calculateCell(p, l)], k)
<1> DEFINE c == calculateCell(p, l)
           g == DropFrom(cells, p, l)
           here == Here(p)
<1>1. l \in Nat \ {0} /\ dim \in Nat /\ cells \in [Grid(dim) -> Seq(Slots)]
  BY GridAssumption DEF TypeOK, GridAssumption
<1>2. c \in Grid(dim)
  BY <1>1, CellInGrid DEF TypeOK
<1>3. cells[c] \in Seq(Slots) /\ DOMAIN cells[c] = 1..Len(cells[c]) /\ Len(cells[c]) \in Nat
  BY <1>1, <1>2
<1>4. g = IF here = {} THEN cells ELSE [cells EXCEPT ![c] = RemoveAt(@, Min(here))]
  BY <1>3 DEF DropFrom, Here
<1>5. here \subseteq 1..Len(cells[c])
  BY DEF Here
<1> HIDE DEF c, g, here
<1>6. CASE here = {}
  <2>1. g = cells
    BY <1>4, <1>6
  <2> QED BY <1>1, <1>2, <1>6, <2>1 DEF c, g, here
<1>7. CASE here # {}
  <2>1. Min(here) \in here
    <3>1. here \subseteq Int /\ (\A n \in here : 1 <= n) /\ 1 \in Int
      BY <1>3, <1>5
    <3> QED BY <1>7, <3>1, LeastInt
  <2>2. RemoveAt(cells[c], Min(here)) \in Seq(Slots)
    BY <1>3, <1>5, <2>1, RemoveAtElements
  <2>3. g = [cells EXCEPT ![c] = RemoveAt(cells[c], Min(here))]
    BY <1>4, <1>7
  <2>4. g \in [Grid(dim) -> Seq(Slots)] /\ g[c] = RemoveAt(cells[c], Min(here))
    BY <1>1, <1>2, <2>2, <2>3
  <2>5. \A k \in Grid(dim) \ {c} : g[k] = cells[k]
    BY <1>1, <2>3
  <2> QED BY <1>2, <2>1, <2>4, <2>5 DEF c, g, here
<1> QED BY <1>6, <1>7

-----------------------------------------------------------------------------
(* The grid of a list of nodes made anew. *)
LEMMA RefillType ==
  ASSUME NEW nodes \in SUBSET Slots, NEW len, NEW m
  PROVE  /\ Refill(nodes, len, m) \in [Grid(m) -> Seq(Slots)]
         /\ \A k \in Grid(m) :
              /\ IsInjective(Refill(nodes, len, m)[k])
              /\ Range(Refill(nodes, len, m)[k])
                   = {x \in nodes : calculateCell(pos[x], len) = k}
<1>1. ASSUME NEW j \in Grid(m), NEW S, S = {x \in nodes : calculateCell(pos[x], len) = j}
      PROVE  /\ SetToSeq(S) \in Seq(Slots)
             /\ IsInjective(SetToSeq(S)) /\ Range(SetToSeq(S)) = S
  <2>1. S \subseteq Slots /\ IsFiniteSet(Slots)
    BY <1>1, GridAssumption DEF GridAssumption
  <2>2. IsFiniteSet(S)
    BY <2>1, FS_Subset
  <2>3. SetToSeq(S) \in Seq(S)
    BY <2>2, SetToSeqElements
  <2>4. SetToSeq(S) \in Seq(Slots)
    BY <2>1, <2>3
  <2> QED BY <2>2, <2>4, SetToSeqElements
<1> QED BY <1>1 DEF Refill

(* The slots in the grid are slots, and have cells. *)
LEMMA EnteredSlots ==
  ASSUME TypeOK
  PROVE  /\ Entered \subseteq Slots /\ DOMAIN cells = Grid(dim)
         /\ \A x \in Slots : pos[x] \in Point /\ calculateCell(pos[x], l) \in Grid(dim)
<1>1. DOMAIN cells = Grid(dim) /\ \A k \in Grid(dim) : Range(cells[k]) \subseteq Slots
  BY DEF TypeOK, Range
<1>2. l \in Nat \ {0} /\ dim \in Nat /\ dim * l > Side
  BY GridAssumption DEF TypeOK, GridAssumption
<1>3. \A x \in Slots : pos[x] \in Point /\ calculateCell(pos[x], l) \in Grid(dim)
  BY <1>2, CellInGrid DEF TypeOK
<1> QED BY <1>1, <1>3 DEF Entered

LEMMA SlotsHaveCells ==
  TypeOK => \A x \in Slots : calculateCell(pos[x], l) \in Grid(dim)
BY EnteredSlots

LEMMA SlotsHaveCellsNext ==
  TypeOK' => (\A x \in Slots : calculateCell(pos[x], l) \in Grid(dim))'
BY SlotsHaveCells, PTL

LEMMA NextType == TypeOK /\ [Next]_vars => TypeOK'
<1> SUFFICES ASSUME TypeOK, [Next]_vars PROVE TypeOK'
  OBVIOUS
<1>1. l \in Nat \ {0} /\ dim \in Nat /\ Entered \subseteq Slots /\ live \subseteq Slots
  BY EnteredSlots, GridAssumption DEF TypeOK, GridAssumption
<1>2. Forget => pos' \in [Slots -> Point]
  <2>1. Nowhere \in Point
    BY GridAssumption DEF Nowhere, Point, GridAssumption
  <2> QED BY <2>1 DEF Forget, TypeOK
<1>3. ASSUME NEW x \in Slots \ live, NEW p \in Place, Insert(x, p) PROVE TypeOK'
  BY <1>3, PlaceInBox, InCellType DEF Insert, TypeOK
<1>4. ASSUME NEW x \in live \cup Entered, NEW p \in Place, Move(x, p) PROVE TypeOK'
  <2>1. x \in Slots /\ pos[x] \in Point /\ p \in Point
    BY <1>1, PlaceInBox DEF TypeOK
  <2>2. DropFrom(cells, pos[x], l) \in [Grid(dim) -> Seq(Slots)]
    BY <2>1, DropFromType
  <2>3. cells' \in [Grid(dim) -> Seq(Slots)]
    BY <1>4, <2>1, <2>2, InCellType DEF Move
  <2> QED BY <1>4, <2>1, <2>3 DEF Move, TypeOK
<1>5. ASSUME NEW x \in live \cup Entered, Delete(x) PROVE TypeOK'
  <2>1. pos[x] \in Point
    BY <1>1 DEF TypeOK
  <2>2. cells' \in [Grid(dim) -> Seq(Slots)]
    BY <1>5, <2>1, DropFromType DEF Delete
  <2> QED BY <1>2, <1>5, <2>2 DEF Delete, TypeOK
<1>6. ASSUME NEW x \in InSight, Discard(x) PROVE TypeOK'
  BY <1>2, <1>6 DEF Discard, TypeOK
<1>7. ASSUME Grow PROVE TypeOK'
  <2>1. l' \in LastL..FirstL /\ l' \in Nat \ {0}
    <3>1. (2 * l) \div 3 <= l /\ (2 * l) \div 3 \in Nat
      BY <1>1
    <3> QED BY <1>7, <3>1, GridAssumption DEF Grow, TypeOK, GridAssumption
  <2>2. dim' \in Nat \ {0} /\ dim' * l' > Side
    BY <1>1, <1>7, <2>1, SideCovers DEF Grow
  <2>3. cells' \in [Grid(dim') -> Seq(Slots)]
    <3>1. InSight \in SUBSET Slots
      BY <1>1 DEF InSight
    <3> QED BY <1>7, <3>1, RefillType DEF Grow
  <2> QED BY <1>2, <1>7, <2>1, <2>2, <2>3 DEF Grow, TypeOK
<1>8. CASE UNCHANGED vars
  BY <1>8 DEF vars, TypeOK
<1> QED BY <1>3, <1>4, <1>5, <1>6, <1>7, <1>8 DEF Next

(* Every position in the box has a cell, through any growth, and the cells *)
(* list slots.                                                             *)
THEOREM TypeCorrect == Spec => []TypeOK
<1> QED BY TypeInit, NextType, PTL DEF Spec

-----------------------------------------------------------------------------
(* A cell k of the grid g lists exactly the nodes it should, once each.     *)
Lists(g, nodes, at, len, k) ==
  IsInjective(g[k]) /\ Range(g[k]) = {x \in nodes : calculateCell(at[x], len) = k}

(* What is in an orderly grid is listed by the cell of its position.        *)
LEMMA OrderlyLists ==
  ASSUME TypeOK, Orderly, NEW k \in Grid(dim)
  PROVE  Lists(cells, Entered, pos, l, k)
<1>1. DOMAIN cells = Grid(dim)
  BY EnteredSlots
<1>2. ASSUME NEW x \in Entered, calculateCell(pos[x], l) = k PROVE x \in Range(cells[k])
  <2>1. PICK j \in DOMAIN cells : x \in Range(cells[j])
    BY DEF Entered
  <2> QED BY <1>2, <2>1 DEF Orderly
<1>3. Range(cells[k]) \subseteq Entered
  BY <1>1 DEF Entered
<1> QED BY <1>1, <1>2, <1>3 DEF Orderly, Lists

(* Entered and Orderly of any grid. *)
ListedBy(g) == UNION {Range(g[k]) : k \in DOMAIN g}

Sorted(g, at, len) ==
  \A k \in DOMAIN g :
    IsInjective(g[k]) /\ \A x \in Range(g[k]) : calculateCell(at[x], len) = k

(* A grid whose cells list some nodes is orderly and has just those.        *)
AllLists(g, nodes, at, len, m) ==
  /\ DOMAIN g = Grid(m) /\ \A x \in nodes : calculateCell(at[x], len) \in Grid(m)
  /\ \A k \in Grid(m) : Lists(g, nodes, at, len, k)

LEMMA ListsOrdered ==
  ASSUME NEW g, NEW S, NEW at, NEW len, NEW m, AllLists(g, S, at, len, m)
  PROVE  /\ ListedBy(g) = S
         /\ Sorted(g, at, len)
BY DEF AllLists, Lists, ListedBy, Sorted

(* Entering a node that no cell lists. *)
LEMMA InCellLists ==
  ASSUME TypeOK, NEW g \in [Grid(dim) -> Seq(Slots)], NEW nodes,
         NEW x \in Slots \ nodes, NEW p \in Point, NEW at, at[x] = p,
         \A k \in Grid(dim) : Lists(g, nodes, at, l, k), NEW k \in Grid(dim)
  PROVE  Lists(InCell(g, p, l, x), nodes \cup {x}, at, l, k)
<1> DEFINE c == calculateCell(p, l)
           h == InCell(g, p, l, x)
<1>1. /\ c \in Grid(dim) /\ h[c] = Append(g[c], x)
      /\ \A j \in Grid(dim) \ {c} : h[j] = g[j]
  BY InCellType
<1>2. /\ g[k] \in Seq(Slots) /\ x \in Slots
      /\ IsInjective(g[k]) /\ x \notin Range(g[k])
  BY DEF Lists
<1> HIDE DEF c, h
<1>3. CASE k = c
  <2>1. IsInjective(h[k]) /\ Range(h[k]) = Range(g[k]) \cup {x}
    BY <1>1, <1>2, <1>3, AppendElements
  <2> QED BY <1>3, <2>1 DEF Lists, c, h
<1>4. CASE k # c
  <2>1. h[k] = g[k] /\ calculateCell(at[x], l) # k
    BY <1>1, <1>4 DEF c
  <2> QED BY <2>1 DEF Lists, h
<1> QED BY <1>3, <1>4

(* Where no two nodes are in one place, the node that is dropped is the one *)
(* that is meant, and none is dropped if that one is not in the grid.       *)
LEMMA DropFromLists ==
  ASSUME TypeOK, Orderly, ~Coincide, NEW x \in live \cup Entered, NEW k \in Grid(dim)
  PROVE  Lists(DropFrom(cells, pos[x], l), Entered \ {x}, pos, l, k)
<1> DEFINE c == calculateCell(pos[x], l)
           g == DropFrom(cells, pos[x], l)
<1>1. pos[x] \in Point /\ \A j \in Grid(dim) : Lists(cells, Entered, pos, l, j)
  BY OrderlyLists, EnteredSlots DEF TypeOK
<1>2. /\ c \in Grid(dim) /\ g \in [Grid(dim) -> Seq(Slots)]
      /\ \A j \in Grid(dim) \ {c} : g[j] = cells[j]
      /\ Here(pos[x]) # {} => \E i \in Here(pos[x]) : g[c] = RemoveAt(cells[c], i)
      /\ Here(pos[x]) = {} => g = cells
  <2>1. Here(pos[x]) = {} => g = cells
    <3>1. c \in Grid(dim) /\ cells \in [Grid(dim) -> Seq(Slots)]
      BY <1>1, DropFromType DEF TypeOK
    <3>2. DOMAIN cells[c] = 1..Len(cells[c])
      BY <3>1
    <3> QED BY <3>2 DEF DropFrom, Here
  <2> QED BY <1>1, <2>1, DropFromType
<1>3. cells[c] \in Seq(Slots) /\ DOMAIN cells[c] = 1..Len(cells[c])
  BY <1>2 DEF TypeOK
<1>4. ASSUME NEW i \in Here(pos[x]) PROVE cells[c][i] = x /\ x \in Entered
  <2>1. cells[c][i] \in Entered /\ pos[cells[c][i]] = pos[x]
    BY <1>1, <1>2, <1>3 DEF Lists, Range, Here
  <2>2. cells[c][i] = x
    BY <2>1 DEF Coincide
  <2> QED BY <2>1, <2>2
<1>5. CASE x \notin Entered
  <2>1. g = cells /\ Entered \ {x} = Entered
    BY <1>2, <1>4, <1>5
  <2> QED BY <1>1, <2>1
<1>6. CASE x \in Entered
  <2>1. x \in Range(cells[c])
    BY <1>1, <1>2, <1>6 DEF Lists
  <2>2. Here(pos[x]) # {}
    BY <1>3, <2>1 DEF Range, Here
  <2>3. PICK i \in Here(pos[x]) : g[c] = RemoveAt(cells[c], i)
    BY <1>2, <2>2
  <2>4. cells[c][i] = x
    BY <1>4
  <2> HIDE DEF g
  <2>5. CASE k = c
    <3>1. i \in 1..Len(cells[c]) /\ IsInjective(cells[c])
      BY <1>1, <1>2 DEF Lists, Here
    <3>2. IsInjective(g[k]) /\ Range(g[k]) = Range(cells[k]) \ {x}
      BY <1>3, <2>3, <2>4, <2>5, <3>1, RemoveAtInjective
    <3> QED BY <1>1, <3>2 DEF Lists, g
  <2>6. CASE k # c
    <3>1. g[k] = cells[k]
      BY <1>2, <2>6
    <3> QED BY <1>1, <2>6, <3>1 DEF Lists, g
  <2> QED BY <2>5, <2>6
<1> QED BY <1>5, <1>6

(* What a step does to the grid, part by part. *)
Kept ==
  /\ Missing' \subseteq Missing \cup (live \ InSight)
  /\ Dead' \subseteq Dead \/ cells' = cells
  /\ Dead = {} => Orderly'

LEMMA InsertKeeps ==
  ASSUME TypeOK, TypeOK', NEW x \in Slots \ live, NEW p \in Place, Insert(x, p)
  PROVE  Kept
<1> DEFINE c == calculateCell(p, l)
<1>1. /\ p \in Point /\ x \in Slots /\ cells \in [Grid(dim) -> Seq(Slots)] /\ Orderly
      /\ Entered \subseteq Slots /\ DOMAIN cells = Grid(dim)
      /\ pos'[x] = p /\ \A y \in Slots \ {x} : pos'[y] = pos[y]
  BY PlaceInBox, EnteredSlots DEF Insert, TypeOK
<1>2. /\ live' = live \cup {x} /\ l' = l /\ dim' = dim /\ DOMAIN cells' = Grid(dim)
      /\ c \in Grid(dim) /\ cells'[c] = Append(cells[c], x)
      /\ \A k \in Grid(dim) \ {c} : cells'[k] = cells[k]
  BY <1>1, InCellType DEF Insert
<1>3. Entered' = Entered \cup {x}
  <2>1. cells[c] \in Seq(Slots)
    BY <1>1, <1>2
  <2>2. Range(cells'[c]) = Range(cells[c]) \cup {x}
    <3>1. /\ DOMAIN cells'[c] = 1..(Len(cells[c]) + 1)
          /\ DOMAIN cells[c] = 1..Len(cells[c]) /\ Len(cells[c]) \in Nat
          /\ \A k \in 1..Len(cells[c]) : cells'[c][k] = cells[c][k]
          /\ cells'[c][Len(cells[c]) + 1] = x
      BY <1>2, <2>1
    <3>2. \A k \in DOMAIN cells'[c] : k \in DOMAIN cells[c] \/ k = Len(cells[c]) + 1
      BY <3>1
    <3> QED BY <3>1, <3>2 DEF Range
  <2>3. DOMAIN cells' = DOMAIN cells /\ c \in DOMAIN cells
        /\ \A k \in DOMAIN cells \ {c} : cells'[k] = cells[k]
    BY <1>1, <1>2
  <2> HIDE DEF c
  <2> QED BY <2>2, <2>3 DEF Entered
<1>4. Missing' \subseteq Missing /\ Dead' \subseteq Dead
  BY <1>2, <1>3 DEF Missing, Dead
<1>5. ASSUME Dead = {} PROVE Orderly'
  <2>1. x \in Slots \ Entered
    BY <1>1, <1>5 DEF Dead
  <2>2. \A k \in Grid(dim) : Lists(cells, Entered, pos', l, k)
    BY <1>1, <2>1, OrderlyLists DEF Lists
  <2>3. \A k \in Grid(dim) : Lists(cells', Entered \cup {x}, pos', l, k)
    <3>1. cells' = InCell(cells, p, l, x)
      BY DEF Insert
    <3> QED BY <1>1, <2>1, <2>2, <3>1, InCellLists
  <2>4. \A y \in Entered \cup {x} : calculateCell(pos'[y], l) \in Grid(dim)
    BY <1>1, <1>2, <2>1, EnteredSlots
  <2>5. Sorted(cells', pos', l)
    <3>1. AllLists(cells', Entered \cup {x}, pos', l, dim)
      BY <1>2, <2>3, <2>4 DEF AllLists
    <3> QED BY <3>1, ListsOrdered
  <2> QED BY <1>2, <2>5 DEF Orderly, Sorted
<1> QED BY <1>4, <1>5 DEF Kept

LEMMA MoveKeeps ==
  ASSUME TypeOK, TypeOK', ~Coincide,
         NEW x \in live \cup Entered, NEW p \in Place, Move(x, p)
  PROVE  Kept
<1> DEFINE g == DropFrom(cells, pos[x], l)
<1>1. /\ Orderly /\ x \in Slots /\ Entered \subseteq Slots
      /\ p \in Point /\ pos[x] \in Point /\ pos'[x] = p
      /\ \A y \in Slots \ {x} : pos'[y] = pos[y]
      /\ live' = live /\ l' = l /\ dim' = dim /\ cells' = InCell(g, p, l, x)
  BY PlaceInBox, EnteredSlots DEF Move, TypeOK
<1>2. g \in [Grid(dim) -> Seq(Slots)]
  BY <1>1, DropFromType
<1>3. \A k \in Grid(dim) : Lists(g, Entered \ {x}, pos', l, k)
  BY <1>1, DropFromLists DEF Lists
<1>4. \A k \in Grid(dim) : Lists(cells', Entered \cup {x}, pos', l, k)
  <2> HIDE DEF g
  <2>1. \A k \in Grid(dim) : Lists(cells', (Entered \ {x}) \cup {x}, pos', l, k)
    BY <1>1, <1>2, <1>3, InCellLists
  <2>2. (Entered \ {x}) \cup {x} = Entered \cup {x}
    OBVIOUS
  <2> QED BY <2>1, <2>2
<1>5. \A y \in Entered \cup {x} : calculateCell(pos'[y], l') \in Grid(dim')
  <2>1. \A y \in Slots : calculateCell(pos'[y], l') \in Grid(dim')
    BY SlotsHaveCellsNext
  <2> QED BY <1>1, <2>1
<1>6. DOMAIN cells' = Grid(dim)
  BY <1>1 DEF TypeOK
<1>7. ListedBy(cells') = Entered \cup {x} /\ Sorted(cells', pos', l)
  <2>1. AllLists(cells', Entered \cup {x}, pos', l, dim)
    BY <1>1, <1>4, <1>5, <1>6 DEF AllLists
  <2> QED BY <2>1, ListsOrdered
<1>8. Entered' = Entered \cup {x} /\ Orderly'
  BY <1>1, <1>7 DEF Entered, Orderly, ListedBy, Sorted
<1> QED BY <1>1, <1>8 DEF Kept, Missing, Dead

LEMMA DeleteKeeps ==
  ASSUME TypeOK, TypeOK', ~Coincide, NEW x \in live \cup Entered, Delete(x)
  PROVE  Kept
<1>1. /\ Orderly /\ Entered \subseteq Slots /\ live' = live \ (InSight \cap {x})
      /\ l' = l /\ dim' = dim /\ cells' = DropFrom(cells, pos[x], l) /\ Forget
  BY EnteredSlots DEF Delete
<1>2. \A k \in Grid(dim) : Lists(cells', Entered \ {x}, pos, l, k)
  BY <1>1, DropFromLists
<1>3. \A y \in Entered \ {x} : calculateCell(pos[y], l) \in Grid(dim)
  BY <1>1, EnteredSlots
<1>4. DOMAIN cells' = Grid(dim)
  BY <1>1 DEF TypeOK
<1>5. ListedBy(cells') = Entered \ {x} /\ Sorted(cells', pos, l)
  <2>1. AllLists(cells', Entered \ {x}, pos, l, dim)
    BY <1>2, <1>3, <1>4 DEF AllLists
  <2> QED BY <2>1, ListsOrdered
<1>6. Entered' = Entered \ {x}
  BY <1>5 DEF Entered, ListedBy
<1>7. \A y \in Entered' : pos'[y] = pos[y]
  BY <1>1, <1>6 DEF Forget
<1>8. Orderly'
  <2>1. \A k \in DOMAIN cells' : Range(cells'[k]) \subseteq Entered'
    BY DEF Entered
  <2> QED BY <1>1, <1>5, <1>7, <2>1 DEF Orderly, Sorted
<1>9. Missing' \subseteq Missing \cup (live \ InSight) /\ Dead' \subseteq Dead
  BY <1>1, <1>6 DEF Missing, Dead
<1> QED BY <1>8, <1>9 DEF Kept

LEMMA DiscardKeeps ==
  ASSUME TypeOK, NEW x \in InSight, Discard(x)
  PROVE  Kept
<1>1. /\ Orderly /\ Entered \subseteq Slots /\ live' = live \ {x}
      /\ l' = l /\ cells' = cells /\ Forget
  BY EnteredSlots DEF Discard
<1>2. Entered' = Entered /\ \A y \in Entered : pos'[y] = pos[y]
  BY <1>1 DEF Entered, Forget
<1>3. \A k \in DOMAIN cells : Range(cells[k]) \subseteq Entered
  BY DEF Entered
<1>4. Orderly'
  BY <1>1, <1>2, <1>3 DEF Orderly
<1> QED BY <1>1, <1>2, <1>4 DEF Kept, Missing

(* Growing makes more cells, and they list the nodes existsNode sees. *)
LEMMA GrowRepairs ==
  ASSUME TypeOK, TypeOK', Grow
  PROVE  dim' # dim /\ Orderly' /\ Entered' = InSight'
<1>1. /\ live' = live /\ dim' = calculate_cell_side(l', dim) /\ Forget
      /\ cells' = Refill(InSight, l', dim') /\ live \subseteq Slots
      /\ InSight \in SUBSET Slots /\ InSight \subseteq live
  BY DEF Grow, TypeOK, InSight
<1>2. dim' # dim
  <2>1. l' \in Nat \ {0} /\ dim \in Nat
    BY GridAssumption DEF TypeOK, GridAssumption
  <2>2. Side \div l' + 1 \in Int /\ dim + 1 \in Int
    BY <2>1, GridAssumption, DivisionBounds DEF GridAssumption
  <2>3. Max({dim + 1, Side \div l' + 1}) >= dim + 1
    BY <2>2, GreaterOfTwo
  <2>4. dim' = Max({dim + 1, Side \div l' + 1})
    BY <1>1 DEF calculate_cell_side
  <2> QED BY <2>1, <2>3, <2>4
<1>3. \A x \in InSight : pos'[x] = pos[x]
  BY <1>1 DEF Forget
<1>4. \A k \in Grid(dim') : Lists(cells', InSight, pos', l', k)
  <2>1. \A k \in Grid(dim') : Lists(cells', InSight, pos, l', k)
    BY <1>1, RefillType DEF Lists
  <2> QED BY <1>3, <2>1 DEF Lists
<1>5. \A x \in Slots : calculateCell(pos'[x], l') \in Grid(dim')
  BY SlotsHaveCellsNext
<1>6. DOMAIN cells' = Grid(dim')
  BY DEF TypeOK
<1>7. ListedBy(cells') = InSight /\ Sorted(cells', pos', l')
  <2>1. AllLists(cells', InSight, pos', l', dim')
    BY <1>1, <1>4, <1>5, <1>6 DEF AllLists
  <2> QED BY <2>1, ListsOrdered
<1>8. InSight' = InSight
  BY <1>1 DEF InSight
<1> QED BY <1>2, <1>7, <1>8 DEF Entered, Orderly, ListedBy, Sorted

LEMMA GridStep ==
  ASSUME TypeOK, TypeOK', Next
  PROVE  /\ dim' # dim => Orderly' /\ Entered' = InSight'
         /\ Orderly /\ ~Coincide /\ dim' = dim => Kept
<1>1. ASSUME NEW x \in Slots \ live, NEW p \in Place, Insert(x, p) PROVE dim' = dim /\ Kept
  BY <1>1, InsertKeeps DEF Insert
<1>2. ASSUME NEW x \in live \cup Entered, NEW p \in Place, Move(x, p)
      PROVE  dim' = dim /\ (~Coincide => Kept)
  BY <1>2, MoveKeeps DEF Move
<1>3. ASSUME NEW x \in live \cup Entered, Delete(x) PROVE dim' = dim /\ (~Coincide => Kept)
  BY <1>3, DeleteKeeps DEF Delete
<1>4. ASSUME NEW x \in InSight, Discard(x) PROVE dim' = dim /\ Kept
  BY <1>4, DiscardKeeps DEF Discard
<1>5. ASSUME Grow PROVE dim' # dim /\ Orderly' /\ Entered' = InSight'
  BY <1>5, GrowRepairs
<1> QED BY <1>1, <1>2, <1>3, <1>4, <1>5 DEF Next

(* insert and remove put the grid out of step with the graph only by the   *)
(* nodes deleteNode refuses and those deleted behind the grid's back,      *)
(* unless two nodes are in one place; and a grown grid is what existsNode  *)
(* sees, whatever it was before.                                           *)
THEOREM GridStaysSoundHolds == Spec => GridStaysSound
<1>1. TypeOK /\ TypeOK' /\ [Next]_vars
        => [/\ dim' # dim => Orderly' /\ Entered' = InSight'
            /\ Orderly /\ ~Coincide /\ dim' = dim =>
                 /\ Missing' \subseteq Missing \cup (live \ InSight)
                 /\ Dead' \subseteq Dead \/ cells' = cells
                 /\ Dead = {} => Orderly' ]_vars
  BY GridStep DEF Kept
<1> QED BY <1>1, TypeCorrect, PTL DEF Spec, GridStaysSound

-----------------------------------------------------------------------------
(* The search.  D are the distances of the nodes from the query; Best says *)
(* that f holds the nearest of the nodes S and the nearest of the others.  *)

Distances(q) == [x \in Slots |-> Dist(pos[x], q)]

Candidates == [first : Slots \cup {-1}, d1 : Nat \cup {-1},
               second : Slots \cup {-1}, d2 : Nat \cup {-1}]

Best(f, S, D) ==
  /\ f \in Candidates
  /\ IF f.first = -1 THEN S = {} /\ f.d1 = -1
     ELSE f.first \in S /\ f.d1 = D[f.first] /\ \A x \in S : f.d1 <= D[x]
  /\ IF f.second = -1 THEN S \subseteq {f.first} /\ f.d2 = -1
     ELSE /\ f.second \in S \ {f.first} /\ f.d2 = D[f.second]
          /\ \A x \in S \ {f.first} : f.d2 <= D[x]

(* A sum is no less than any of its terms. *)
Total(g) == FoldFunction(LAMBDA x, y : x + y, 0, g)

LEMMA SumTerms ==
  ASSUME NEW S, IsFiniteSet(S), NEW g \in [S -> Nat]
  PROVE  Total(g) \in Nat /\ \A i \in S : g[i] <= Total(g)
<1> DEFINE pick == [T \in SUBSET S |-> CHOOSE x \in T : TRUE]
           F == [T \in SUBSET S |-> [v \in Nat |-> IF T = {} THEN v ELSE g[pick[T]] + v]]
           sum[T \in SUBSET S] ==
             IF T = {} THEN 0
             ELSE LET x == CHOOSE x \in T : TRUE IN g[x] + sum[T \ {x}]
           W == {T \in SUBSET S : sum[T] \in Nat /\ \A i \in T : g[i] <= sum[T]}
<1>1. Total(g) = sum[S]
  BY DEF Total, FoldFunction, FoldFunctionOnSet, MapThenFoldSet
<1>2. \A T \in SUBSET S : T # {} => pick[T] \in T
  OBVIOUS
<1>3. \A T \in SUBSET S : pick[T] = CHOOSE x \in T : TRUE
  OBVIOUS
<1> HIDE DEF pick, sum
<1>4. F \in [SUBSET S -> [Nat -> Nat]]
  <2>1. \A T \in SUBSET S, v \in Nat : (IF T = {} THEN v ELSE g[pick[T]] + v) \in Nat
    BY <1>2
  <2> QED BY <2>1
<1>5. \A T \in SUBSET S, v \in Nat : T # {} => F[T][v] = g[pick[T]] + v
  OBVIOUS
<1> HIDE DEF F, W
<1>6. PICK f : Recurses(f, S, Nat, 0, pick, F)
  BY <1>2, <1>4, PickRecursion
<1>7. \A T \in SUBSET S : f[T] = IF T = {} THEN 0 ELSE g[pick[T]] + f[T \ {pick[T]}]
  BY <1>5, <1>6 DEF Recurses
<1>8. f = [T \in SUBSET S |-> IF T = {} THEN 0
                              ELSE LET x == CHOOSE x \in T : TRUE IN g[x] + f[T \ {x}]]
  <2>1. f = [T \in SUBSET S |-> f[T]]
    BY <1>6 DEF Recurses
  <2> QED BY <1>3, <1>7, <2>1
<1>9. sum = [T \in SUBSET S |-> IF T = {} THEN 0
                                ELSE LET x == CHOOSE x \in T : TRUE IN g[x] + sum[T \ {x}]]
  BY <1>8 DEF sum
<1>10. ASSUME NEW T \in SUBSET S
       PROVE  sum[T] = IF T = {} THEN 0 ELSE g[pick[T]] + sum[T \ {pick[T]}]
  BY <1>3, <1>9, Zenon
<1>11. {} \in W
  <2>1. sum[{}] = 0
    BY <1>10
  <2> QED BY <2>1 DEF W
<1>12. ASSUME NEW T \in SUBSET S, T # {}, T \ {pick[T]} \in W PROVE T \in W
  <2>1. pick[T] \in T /\ sum[T] = g[pick[T]] + sum[T \ {pick[T]}]
    BY <1>2, <1>10, <1>12
  <2>2. /\ sum[T \ {pick[T]}] \in Nat /\ g[pick[T]] \in Nat
        /\ \A i \in T \ {pick[T]} : g[i] <= sum[T \ {pick[T]}]
    BY <1>12, <2>1 DEF W
  <2> DEFINE old == sum[T \ {pick[T]}]
             new == sum[T]
  <2>3. new = g[pick[T]] + old /\ old \in Nat /\ g[pick[T]] \in Nat
    BY <2>1, <2>2
  <2>4. \A i \in T \ {pick[T]} : g[i] <= old
    BY <2>2
  <2> HIDE DEF old, new
  <2>5. \A i \in T : g[i] \in Nat
    OBVIOUS
  <2>6. new \in Nat
    BY <2>3
  <2>7. ASSUME NEW i \in T PROVE g[i] <= new
    <3>1. CASE i = pick[T]
      BY <2>3, <3>1
    <3>2. CASE i # pick[T]
      <4>1. g[i] <= old /\ g[i] \in Nat
        BY <2>4, <2>5, <3>2
      <4> QED BY <2>3, <4>1
    <3> QED BY <3>1, <3>2
  <2> QED BY <2>6, <2>7 DEF W, new
<1>13. S \in W
  BY <1>2, <1>11, <1>12, PickInduction
<1> QED BY <1>1, <1>13 DEF W

LEMMA SquareType == ASSUME NEW a \in Int PROVE a * a \in Nat
OBVIOUS

LEMMA SquareGrows ==
  ASSUME NEW a \in Nat, NEW b \in Int, a <= b \/ a <= -b
  PROVE  a * a <= b * b
OBVIOUS

LEMMA AxesFinite == IsFiniteSet(Axes) /\ 1 \in Axes
BY GridAssumption, FS_Interval DEF GridAssumption, Axes

LEMMA DistBounds ==
  ASSUME NEW p \in Point, NEW q \in Point
  PROVE  /\ Dist(p, q) \in Nat
         /\ \A i \in Axes : (p[i] - q[i]) * (p[i] - q[i]) <= Dist(p, q)
<1> DEFINE g == [i \in Axes |-> (p[i] - q[i]) * (p[i] - q[i])]
<1>1. g \in [Axes -> Nat]
  <2>1. \A i \in Axes : p[i] - q[i] \in Int
    BY DEF Point
  <2> QED BY <2>1, SquareType
<1>2. \A i \in Axes : g[i] = (p[i] - q[i]) * (p[i] - q[i])
  OBVIOUS
<1>3. Dist(p, q) = Total(g)
  BY DEF Dist, Total
<1> HIDE DEF g
<1> QED BY <1>1, <1>2, <1>3, AxesFinite, SumTerms

LEMMA OfferBest ==
  ASSUME NEW q, NEW D, D = Distances(q), D \in [Slots -> Nat],
         NEW S \in SUBSET Slots, NEW f, Best(f, S, D), NEW x \in Slots
  PROVE  Best(Offer(f, x, q), S \cup {x}, D)
<1> DEFINE d == Dist(pos[x], q)
<1>1. d = D[x] /\ d \in Nat
  BY DEF Distances
<1>2. Offer(f, x, q) = IF x = f.first \/ (f.d2 >= 0 /\ d > f.d2) THEN f
                       ELSE IF f.d1 < 0 \/ d <= f.d1
                            THEN [first |-> x, d1 |-> d, second |-> f.first, d2 |-> f.d1]
                            ELSE [f EXCEPT !.second = x, !.d2 = d]
  BY DEF Offer
<1> HIDE DEF d
<1>3. -1 \notin Slots /\ f \in Candidates
  BY GridAssumption DEF GridAssumption, Best
<1>4. \A z \in Slots : D[z] \in Nat
  OBVIOUS
<1>5. CASE x = f.first
  BY <1>2, <1>5, <1>3 DEF Best
<1>6. CASE x # f.first /\ f.d2 >= 0 /\ d > f.d2
  <2>1. f.second # -1 /\ f.first # -1
    BY <1>6, <1>3 DEF Best
  <2> QED BY <1>1, <1>2, <1>3, <1>4, <1>6, <2>1 DEF Best, Candidates
<1>7. CASE x # f.first /\ ~(f.d2 >= 0 /\ d > f.d2) /\ (f.d1 < 0 \/ d <= f.d1)
  <2> DEFINE h == [first |-> x, d1 |-> d, second |-> f.first, d2 |-> f.d1]
  <2>1. Offer(f, x, q) = h
    BY <1>2, <1>7
  <2>2. /\ h \in Candidates
        /\ h.first = x /\ h.d1 = d /\ h.second = f.first /\ h.d2 = f.d1
    BY <1>1, <1>3 DEF Candidates
  <2> HIDE DEF h
  <2>3. ASSUME f.first = -1 PROVE Best(h, S \cup {x}, D)
    <3>1. S = {} /\ f.d1 = -1
      BY <2>3 DEF Best
    <3>2. S \cup {x} = {x} /\ \A z \in {x} : d <= D[z]
      BY <1>1, <3>1
    <3> QED BY <1>1, <1>3, <2>2, <2>3, <3>1, <3>2 DEF Best
  <2>4. ASSUME f.first # -1 PROVE Best(h, S \cup {x}, D)
    <3>1. f.first \in S /\ f.d1 = D[f.first] /\ \A z \in S : f.d1 <= D[z]
      BY <2>4 DEF Best
    <3>2. d <= f.d1
      BY <1>4, <1>7, <3>1
    <3>3. \A z \in S : d <= D[z]
      BY <1>1, <1>4, <3>1, <3>2
    <3>4. \A z \in S \cup {x} : d <= D[z]
      BY <1>1, <3>3
    <3>5. h.second \in (S \cup {x}) \ {h.first} /\ \A z \in (S \cup {x}) \ {h.first} : h.d2 <= D[z]
      BY <1>7, <2>2, <3>1
    <3> QED BY <1>1, <1>3, <2>2, <2>4, <3>1, <3>4, <3>5 DEF Best
  <2> QED BY <2>1, <2>3, <2>4
<1>8. CASE x # f.first /\ ~(f.d2 >= 0 /\ d > f.d2) /\ ~(f.d1 < 0 \/ d <= f.d1)
  <2> DEFINE h == [f EXCEPT !.second = x, !.d2 = d]
  <2>1. Offer(f, x, q) = h
    BY <1>2, <1>8
  <2>2. /\ h \in Candidates
        /\ h.first = f.first /\ h.d1 = f.d1 /\ h.second = x /\ h.d2 = d
    BY <1>1, <1>3 DEF Candidates
  <2> HIDE DEF h
  <2>3. f.first # -1
    BY <1>3, <1>8 DEF Best
  <2>4. f.first \in S /\ f.d1 = D[f.first] /\ f.d1 \in Nat /\ \A z \in S : f.d1 <= D[z]
    BY <1>4, <2>3 DEF Best
  <2>5. \A z \in S \ {f.first} : d <= D[z]
    <3>1. CASE f.second = -1
      BY <3>1 DEF Best
    <3>2. CASE f.second # -1
      <4>1. /\ f.d2 \in Nat /\ \A z \in S \ {f.first} : f.d2 <= D[z]
        BY <1>4, <3>2 DEF Best
      <4>2. d <= f.d2
        BY <1>1, <1>8, <4>1
      <4> QED BY <1>1, <1>4, <4>1, <4>2
    <3> QED BY <3>1, <3>2
  <2> QED BY <1>1, <1>3, <1>4, <1>8, <2>1, <2>2, <2>3, <2>4, <2>5 DEF Best
<1> QED BY <1>5, <1>6, <1>7, <1>8

(* What the search has found so far, whatever it has seen. *)
Bests(D) == {f \in Candidates : \E S \in SUBSET Slots : Best(f, S, D)}

LEMMA ScanCellBest ==
  ASSUME TypeOK, NEW q, NEW D, D = Distances(q), D \in [Slots -> Nat],
         NEW S \in SUBSET Slots, NEW f, Best(f, S, D), NEW k \in Grid(dim)
  PROVE  Best(scanCell(f, k, q), S \cup Range(cells[k]), D)
<1> DEFINE s == cells[k]
           I == DOMAIN s
           V == Bests(D)
           pick == [T \in SUBSET I |-> Max(T)]
           F == [T \in SUBSET I |-> [g \in V |-> IF T = {} THEN g ELSE Offer(g, s[pick[T]], q)]]
           scanned[T \in SUBSET I] ==
             IF T = {} THEN f ELSE Offer(scanned[T \ {Max(T)}], s[Max(T)], q)
           Seen(T) == S \cup {s[i] : i \in T}
           W == {T \in SUBSET I : Best(scanned[T], Seen(T), D)}
<1>1. scanCell(f, k, q) = scanned[I]
  BY DEF scanCell, FoldLeft, MapThenFoldSet
<1>2. s \in Seq(Slots) /\ I = 1..Len(s) /\ Len(s) \in Nat /\ \A i \in I : s[i] \in Slots
  BY DEF TypeOK
<1>3. IsFiniteSet(I)
  BY <1>2, FS_Interval
<1> HIDE DEF s, I
<1>4. \A T \in SUBSET I : T # {} => pick[T] \in T
  <2>1. ASSUME NEW T \in SUBSET I, T # {} PROVE Max(T) \in T
    <3>1. IsFiniteSet(T)
      BY <1>3, FS_Subset
    <3>2. I \subseteq Nat
      BY <1>2
    <3> QED BY <2>1, <3>1, <3>2, GreatestNat
  <2> QED BY <2>1
<1>5. \A T \in SUBSET I : pick[T] = Max(T)
  OBVIOUS
<1> HIDE DEF pick, scanned
<1>6. f \in V
  BY DEF Bests, Best
<1>7. ASSUME NEW g \in V, NEW i \in I PROVE Offer(g, s[i], q) \in V
  <2>1. PICK U \in SUBSET Slots : Best(g, U, D)
    BY <1>7 DEF Bests
  <2>2. Best(Offer(g, s[i], q), U \cup {s[i]}, D) /\ U \cup {s[i]} \in SUBSET Slots
    BY <1>2, <2>1, OfferBest
  <2> QED BY <2>2 DEF Bests, Best
<1> HIDE DEF V
<1>8. F \in [SUBSET I -> [V -> V]]
  BY <1>4, <1>7
<1>9. \A T \in SUBSET I, g \in V : T # {} => F[T][g] = Offer(g, s[pick[T]], q)
  OBVIOUS
<1> HIDE DEF F, W
<1>10. PICK h : Recurses(h, I, V, f, pick, F)
  BY <1>3, <1>4, <1>6, <1>8, PickRecursion
<1>11. \A T \in SUBSET I : h[T] = IF T = {} THEN f ELSE Offer(h[T \ {Max(T)}], s[Max(T)], q)
  <2>1. \A T \in SUBSET I : h[T] = IF T = {} THEN f ELSE Offer(h[T \ {pick[T]}], s[pick[T]], q)
    BY <1>9, <1>10 DEF Recurses
  <2> QED BY <1>5, <2>1, Zenon
<1>12. h = [T \in SUBSET I |-> IF T = {} THEN f ELSE Offer(h[T \ {Max(T)}], s[Max(T)], q)]
  <2>1. h = [T \in SUBSET I |-> h[T]]
    BY <1>10 DEF Recurses
  <2> QED BY <1>11, <2>1
<1>13. scanned = [T \in SUBSET I |-> IF T = {} THEN f
                                     ELSE Offer(scanned[T \ {Max(T)}], s[Max(T)], q)]
  BY <1>12 DEF scanned
<1>14. \A T \in SUBSET I :
         scanned[T] = IF T = {} THEN f ELSE Offer(scanned[T \ {pick[T]}], s[pick[T]], q)
  BY <1>5, <1>13, Zenon
<1>15. {} \in W
  <2>1. scanned[{}] = f /\ Seen({}) = S
    BY <1>14
  <2> QED BY <2>1 DEF W
<1>16. ASSUME NEW T \in SUBSET I, T # {}, T \ {pick[T]} \in W PROVE T \in W
  <2> DEFINE i == pick[T]
             g == scanned[T \ {i}]
             U == Seen(T \ {i})
  <2>1. i \in T /\ i \in I /\ s[i] \in Slots
    BY <1>2, <1>4, <1>16
  <2>2. scanned[T] = Offer(g, s[i], q)
    BY <1>14, <1>16
  <2>3. Best(g, U, D)
    BY <1>16 DEF W
  <2>4. Seen(T) = U \cup {s[i]} /\ U \in SUBSET Slots
    BY <1>2, <2>1
  <2> HIDE DEF i, g, U, Seen
  <2>5. Best(Offer(g, s[i], q), U \cup {s[i]}, D)
    BY <2>1, <2>3, <2>4, OfferBest
  <2> QED BY <2>2, <2>4, <2>5 DEF W
<1>17. I \in W
  BY <1>3, <1>4, <1>15, <1>16, PickInduction
<1>18. Seen(I) = S \cup Range(s)
  BY DEF Range, I
<1> QED BY <1>1, <1>17, <1>18 DEF W, s

NodesIn(K) == UNION {Range(cells[k]) : k \in K}

LEMMA GridFinite == ASSUME NEW m \in Nat PROVE IsFiniteSet(Grid(m))
<1>1. IsFiniteSet(0..(m - 1))
  BY FS_Interval
<1> QED BY <1>1, AxesFinite, FunctionsFinite DEF Grid

LEMMA ScanCornersBest ==
  ASSUME TypeOK, NEW q, NEW D, D = Distances(q), D \in [Slots -> Nat],
         NEW S \in SUBSET Slots, NEW f, Best(f, S, D), NEW c, NEW r
  PROVE  /\ Best(scanCorners(f, c, r, q), S \cup NodesIn(Ring(c, r)), D)
         /\ NodesIn(Ring(c, r)) \in SUBSET Slots
<1> DEFINE I == Ring(c, r)
           V == Bests(D)
           pick == [T \in SUBSET I |-> CHOOSE k \in T : TRUE]
           F == [T \in SUBSET I |-> [g \in V |-> IF T = {} THEN g ELSE scanCell(g, pick[T], q)]]
           scanned[T \in SUBSET I] ==
             IF T = {} THEN f
             ELSE LET k == CHOOSE k \in T : TRUE IN scanCell(scanned[T \ {k}], k, q)
           Seen(T) == S \cup NodesIn(T)
           W == {T \in SUBSET I : Best(scanned[T], Seen(T), D)}
<1>1. scanCorners(f, c, r, q) = scanned[I]
  BY DEF scanCorners, FoldSet, MapThenFoldSet
<1>2. \A k \in I : k \in Grid(dim) /\ Range(cells[k]) \in SUBSET Slots
  BY DEF Ring, TypeOK, Range
<1>3. IsFiniteSet(I)
  <2>1. I \in SUBSET Grid(dim) /\ dim \in Nat
    BY DEF Ring, TypeOK
  <2> QED BY <2>1, GridFinite, FS_Subset
<1> HIDE DEF I
<1>4. \A T \in SUBSET I : T # {} => pick[T] \in T
  OBVIOUS
<1>5. \A T \in SUBSET I : pick[T] = CHOOSE k \in T : TRUE
  OBVIOUS
<1> HIDE DEF pick, scanned
<1>6. f \in V
  BY DEF Bests, Best
<1>7. ASSUME NEW g \in V, NEW k \in I PROVE scanCell(g, k, q) \in V
  <2>1. PICK U \in SUBSET Slots : Best(g, U, D)
    BY <1>7 DEF Bests
  <2>2. /\ Best(scanCell(g, k, q), U \cup Range(cells[k]), D)
        /\ U \cup Range(cells[k]) \in SUBSET Slots
    BY <1>2, <2>1, ScanCellBest
  <2> QED BY <2>2 DEF Bests, Best
<1> HIDE DEF V
<1>8. F \in [SUBSET I -> [V -> V]]
  BY <1>4, <1>7
<1>9. \A T \in SUBSET I, g \in V : T # {} => F[T][g] = scanCell(g, pick[T], q)
  OBVIOUS
<1> HIDE DEF F, W
<1>10. PICK h : Recurses(h, I, V, f, pick, F)
  BY <1>3, <1>4, <1>6, <1>8, PickRecursion
<1>11. \A T \in SUBSET I : h[T] = IF T = {} THEN f ELSE scanCell(h[T \ {pick[T]}], pick[T], q)
  BY <1>9, <1>10 DEF Recurses
<1>12. h = [T \in SUBSET I |->
              IF T = {} THEN f
              ELSE LET k == CHOOSE k \in T : TRUE IN scanCell(h[T \ {k}], k, q)]
  <2>1. h = [T \in SUBSET I |-> h[T]]
    BY <1>10 DEF Recurses
  <2> QED BY <1>5, <1>11, <2>1
<1>13. scanned = [T \in SUBSET I |->
                    IF T = {} THEN f
                    ELSE LET k == CHOOSE k \in T : TRUE IN scanCell(scanned[T \ {k}], k, q)]
  BY <1>12 DEF scanned
<1>14. \A T \in SUBSET I :
         scanned[T] = IF T = {} THEN f ELSE scanCell(scanned[T \ {pick[T]}], pick[T], q)
  BY <1>5, <1>13, Zenon
<1>15. {} \in W
  <2>1. scanned[{}] = f /\ Seen({}) = S
    BY <1>14 DEF NodesIn
  <2> QED BY <2>1 DEF W
<1>16. ASSUME NEW T \in SUBSET I, T # {}, T \ {pick[T]} \in W PROVE T \in W
  <2> DEFINE k == pick[T]
             g == scanned[T \ {k}]
             U == Seen(T \ {k})
  <2>1. k \in T /\ k \in Grid(dim) /\ Range(cells[k]) \in SUBSET Slots
    BY <1>2, <1>4, <1>16
  <2>2. scanned[T] = scanCell(g, k, q)
    BY <1>14, <1>16
  <2>3. Best(g, U, D)
    BY <1>16 DEF W
  <2>4. Seen(T) = U \cup Range(cells[k]) /\ U \in SUBSET Slots
    BY <1>2, <2>1 DEF NodesIn
  <2> HIDE DEF k, g, U, Seen
  <2>5. Best(scanCell(g, k, q), U \cup Range(cells[k]), D)
    BY <2>1, <2>3, <2>4, ScanCellBest
  <2> QED BY <2>2, <2>4, <2>5 DEF W
<1>17. I \in W
  BY <1>3, <1>4, <1>15, <1>16, PickInduction
<1>18. NodesIn(I) \in SUBSET Slots
  BY <1>2 DEF NodesIn
<1> QED BY <1>1, <1>17, <1>18 DEF W, I

-----------------------------------------------------------------------------
(* The cells no more than r away from c: the rings up to the r-th. *)
Near(c, r) == {k \in Grid(dim) : \A i \in Axes : k[i] \in (c[i] - r)..(c[i] + r)}

LEMMA NearZero ==
  ASSUME NEW c \in Grid(dim), dim \in Nat
  PROVE  Near(c, 0) = {c}
<1>1. \A i \in Axes : c[i] \in Int
  BY DEF Grid
<1>2. ASSUME NEW k \in Near(c, 0) PROVE k = c
  <2>1. \A i \in Axes : k[i] = c[i]
    BY <1>1 DEF Near
  <2>2. k = [i \in Axes |-> k[i]] /\ c = [i \in Axes |-> c[i]]
    BY DEF Near, Grid
  <2> QED BY <2>1, <2>2
<1>3. c \in Near(c, 0)
  BY <1>1 DEF Near
<1> QED BY <1>2, <1>3

LEMMA NearNext ==
  ASSUME dim \in Nat, NEW c \in Grid(dim), NEW r \in Nat
  PROVE  Near(c, r + 1) = Near(c, r) \cup Ring(c, r + 1)
<1>1. \A k \in Grid(dim), i \in Axes : k[i] \in Int
  BY DEF Grid
<1>2. ASSUME NEW k \in Near(c, r + 1), k \notin Near(c, r) PROVE k \in Ring(c, r + 1)
  <2> DEFINE Out == {i \in Axes : k[i] \notin (c[i] - r)..(c[i] + r)}
  <2>1. k \in Grid(dim) /\ \A i \in Axes : k[i] \in (c[i] - (r + 1))..(c[i] + (r + 1))
    BY DEF Near
  <2>2. Out \subseteq Nat /\ Out # {}
    BY <1>2, <2>1 DEF Near, Axes
  <2>3. PICK i \in Out : \A j \in Out : i <= j
    <3> HIDE DEF Out
    <3> QED BY <2>2, LeastOf
  <2>4. k[i] \in {c[i] - (r + 1), c[i] + (r + 1)}
    BY <1>1, <2>1
  <2>5. ASSUME NEW j \in Axes, j < i
        PROVE  k[j] \in (c[j] - (r + 1) + 1)..(c[j] + (r + 1) - 1)
    <3>1. j \notin Out
      BY <2>2, <2>3, <2>5 DEF Axes
    <3> QED BY <1>1, <3>1
  <2> QED BY <2>1, <2>4, <2>5 DEF Ring
<1>3. ASSUME NEW k \in Ring(c, r + 1) PROVE k \in Near(c, r + 1)
  <2>1. k \in Grid(dim)
    BY DEF Ring
  <2>2. PICK i \in Axes :
          /\ k[i] \in {c[i] - (r + 1), c[i] + (r + 1)}
          /\ \A j \in Axes \ {i} :
               k[j] \in IF j < i THEN (c[j] - (r + 1) + 1)..(c[j] + (r + 1) - 1)
                                 ELSE (c[j] - (r + 1))..(c[j] + (r + 1))
    BY DEF Ring
  <2>3. ASSUME NEW j \in Axes PROVE k[j] \in (c[j] - (r + 1))..(c[j] + (r + 1))
    <3>1. c[j] \in Int /\ k[j] \in Int
      BY <1>1, <2>1
    <3>2. CASE j = i
      BY <2>2, <3>1, <3>2
    <3>3. CASE j # i
      BY <2>2, <3>1, <3>3
    <3> QED BY <3>2, <3>3
  <2> QED BY <2>1, <2>3 DEF Near
<1>4. ASSUME NEW k \in Near(c, r) PROVE k \in Near(c, r + 1)
  BY <1>1 DEF Near
<1> QED BY <1>2, <1>3, <1>4

(* The search ends when a ring lies outside the grid: nothing is behind it. *)
LEMMA RingEmpty ==
  ASSUME dim \in Nat, NEW c \in Grid(dim), NEW r \in Nat, Ring(c, r + 1) = {}
  PROVE  Near(c, r) = Grid(dim)
<1> SUFFICES ASSUME NEW k \in Grid(dim), k \notin Near(c, r) PROVE FALSE
  BY DEF Near
<1>1. \A m \in Grid(dim), j \in Axes : m[j] \in Int /\ 0 <= m[j] /\ m[j] <= dim - 1
  BY DEF Grid
<1>2. PICK i \in Axes : k[i] \notin (c[i] - r)..(c[i] + r)
  BY DEF Near
<1>3. ASSUME NEW b \in {c[i] - (r + 1), c[i] + (r + 1)}, 0 <= b, b <= dim - 1 PROVE FALSE
  <2> DEFINE m == [c EXCEPT ![i] = b]
  <2>1. b \in 0..(dim - 1)
    BY <1>1, <1>3
  <2>2. m \in Grid(dim) /\ m[i] = b /\ \A j \in Axes \ {i} : m[j] = c[j]
    BY <2>1 DEF Grid
  <2> HIDE DEF m
  <2>3. \A j \in Axes : c[j] \in (c[j] - (r + 1) + 1)..(c[j] + (r + 1) - 1)
    BY <1>1
  <2>4. \A j \in Axes : c[j] \in (c[j] - (r + 1))..(c[j] + (r + 1))
    BY <1>1
  <2>5. m \in Ring(c, r + 1)
    BY <1>3, <2>2, <2>3, <2>4 DEF Ring
  <2> QED BY <2>5
<1>4. CASE k[i] < c[i] - r
  <2>1. 0 <= c[i] - (r + 1) /\ c[i] - (r + 1) <= dim - 1
    BY <1>1, <1>4
  <2> QED BY <1>3, <2>1
<1>5. CASE k[i] > c[i] + r
  <2>1. 0 <= c[i] + (r + 1) /\ c[i] + (r + 1) <= dim - 1
    BY <1>1, <1>5
  <2> QED BY <1>3, <2>1
<1> QED BY <1>1, <1>2, <1>4, <1>5

LEMMA RingEnd ==
  ASSUME dim \in Nat, NEW c \in Grid(dim)
  PROVE  Ring(c, dim + 1) = {}
<1> SUFFICES ASSUME NEW k \in Ring(c, dim + 1) PROVE FALSE
  OBVIOUS
<1>1. \A m \in Grid(dim), j \in Axes : m[j] \in Int /\ 0 <= m[j] /\ m[j] <= dim - 1
  BY DEF Grid
<1>2. k \in Grid(dim) /\ \E i \in Axes : k[i] \in {c[i] - (dim + 1), c[i] + (dim + 1)}
  BY DEF Ring
<1> QED BY <1>1, <1>2

(* What is a coordinate away from a wall of the cell, seen from q. *)
LEMMA BorderNear ==
  ASSUME NEW q \in Point, l \in Nat \ {0}, NEW c, c = calculateCell(q, l)
  PROVE  /\ Border(q, c) \in Nat
         /\ \A i \in Axes : /\ c[i] \in Nat
                            /\ c[i] * l <= q[i] /\ q[i] < (c[i] + 1) * l
                            /\ Border(q, c) <= q[i] - c[i] * l
                            /\ Border(q, c) <= (c[i] + 1) * l - q[i]
<1> DEFINE W == UNION {{Gap(q[i], c[i] * l), Gap(q[i], (c[i] + 1) * l)} : i \in Axes}
<1>1. ASSUME NEW i \in Axes
      PROVE  /\ c[i] \in Nat /\ q[i] \in Nat /\ c[i] * l \in Nat /\ (c[i] + 1) * l \in Nat
             /\ c[i] * l <= q[i] /\ q[i] < (c[i] + 1) * l
  <2>1. q[i] \in Nat /\ c[i] = q[i] \div l
    BY GridAssumption DEF Point, GridAssumption, calculateCell
  <2>2. c[i] \in Nat /\ c[i] * l <= q[i] /\ q[i] < c[i] * l + l
    BY <2>1, DivisionBounds
  <2>3. (c[i] + 1) * l = c[i] * l + l
    BY <2>2, PlusOneTimes
  <2>4. c[i] * l \in Nat
    BY <2>2
  <2> DEFINE a == c[i] * l
             b == (c[i] + 1) * l
  <2>5. a \in Nat /\ b = a + l
    BY <2>3, <2>4
  <2> HIDE DEF a, b
  <2>6. b \in Nat
    BY <2>5
  <2> QED BY <2>1, <2>2, <2>3, <2>4, <2>6 DEF a, b
<1>2. ASSUME NEW i \in Axes
      PROVE  /\ Gap(q[i], c[i] * l) = q[i] - c[i] * l
             /\ Gap(q[i], (c[i] + 1) * l) = (c[i] + 1) * l - q[i]
             /\ Gap(q[i], c[i] * l) \in Nat /\ Gap(q[i], (c[i] + 1) * l) \in Nat
  <2> DEFINE a == c[i] * l
             b == (c[i] + 1) * l
  <2>1. a \in Nat /\ b \in Nat /\ q[i] \in Nat /\ a <= q[i] /\ q[i] < b
    BY <1>1
  <2> HIDE DEF a, b
  <2>2. Gap(q[i], a) = q[i] - a /\ Gap(q[i], b) = b - q[i]
    BY <2>1 DEF Gap
  <2>3. Gap(q[i], a) \in Nat /\ Gap(q[i], b) \in Nat
    BY <2>1, <2>2
  <2> QED BY <2>2, <2>3 DEF a, b
<1>3. W \subseteq Nat /\ W # {}
  <2>1. W \subseteq Nat
    BY <1>2
  <2> QED BY <2>1, AxesFinite
<1>4. \A i \in Axes : Gap(q[i], c[i] * l) \in W /\ Gap(q[i], (c[i] + 1) * l) \in W
  OBVIOUS
<1>5. Border(q, c) = Min(W)
  BY DEF Border
<1> HIDE DEF W
<1>6. Border(q, c) \in Nat /\ \A w \in W : Border(q, c) <= w
  BY <1>3, <1>5, LeastNat
<1>7. \A i \in Axes : Border(q, c) <= q[i] - c[i] * l /\ Border(q, c) <= (c[i] + 1) * l - q[i]
  BY <1>2, <1>4, <1>6
<1> QED BY <1>1, <1>6, <1>7

LEMMA AddTimes ==
  ASSUME NEW a \in Int, NEW b \in Int, NEW e \in Int
  PROVE  (a + b) * e = a * e + b * e /\ (a - b) * e = a * e - b * e
OBVIOUS

(* Who is outside the rings seen is no nearer than their outer wall. *)
LEMMA Far ==
  ASSUME NEW q \in Point, NEW p \in Point, l \in Nat \ {0}, NEW r \in Nat,
         NEW c, c = calculateCell(q, l),
         calculateCell(p, l) \in Grid(dim), calculateCell(p, l) \notin Near(c, r)
  PROVE  (Border(q, c) + r * l) * (Border(q, c) + r * l) <= Dist(p, q)
<1> DEFINE k == calculateCell(p, l)
           b == Border(q, c)
           rl == r * l
           reach == b + rl
<1>1. PICK i \in Axes : k[i] \notin (c[i] - r)..(c[i] + r)
  BY DEF Near
<1>2. /\ b \in Nat /\ c[i] \in Nat /\ c[i] * l <= q[i] /\ q[i] < (c[i] + 1) * l
      /\ b <= q[i] - c[i] * l /\ b <= (c[i] + 1) * l - q[i]
  BY BorderNear
<1>3. k[i] \in Nat /\ k[i] * l <= p[i] /\ p[i] < k[i] * l + l
  <2>1. p[i] \in Nat /\ k[i] = p[i] \div l
    BY GridAssumption DEF Point, GridAssumption, calculateCell
  <2> QED BY <2>1, DivisionBounds
<1>4. rl \in Nat
  OBVIOUS
<1>5. p[i] \in Int /\ q[i] \in Int
  BY DEF Point
<1>6. (p[i] - q[i]) * (p[i] - q[i]) <= Dist(p, q) /\ Dist(p, q) \in Nat
  BY DistBounds
<1> HIDE DEF k, b, rl
<1>7. reach \in Nat
  BY <1>2, <1>4
<1>8. ASSUME k[i] > c[i] + r PROVE reach <= p[i] - q[i]
  <2>1. ((c[i] + 1) + r) * l <= k[i] * l
    BY <1>2, <1>3, <1>8, LargerTimes
  <2>2. ((c[i] + 1) + r) * l = (c[i] + 1) * l + rl
    BY <1>2, AddTimes DEF rl
  <2> DEFINE w == (c[i] + 1) * l
             z == k[i] * l
  <2>3. w \in Int /\ z \in Int /\ w + rl <= z /\ z <= p[i] /\ b <= w - q[i]
    BY <1>2, <1>3, <2>1, <2>2
  <2> HIDE DEF w, z
  <2> QED BY <1>2, <1>4, <1>5, <2>3
<1>9. ASSUME k[i] < c[i] - r PROVE reach <= -(p[i] - q[i])
  <2>1. (k[i] + 1) * l <= (c[i] - r) * l
    BY <1>2, <1>3, <1>9, LargerTimes
  <2>2. (c[i] - r) * l = c[i] * l - rl /\ (k[i] + 1) * l = k[i] * l + l
    BY <1>2, <1>3, AddTimes, PlusOneTimes DEF rl
  <2> DEFINE w == c[i] * l
             z == k[i] * l
  <2>3. w \in Int /\ z \in Int /\ z + l <= w - rl /\ p[i] < z + l /\ b <= q[i] - w
    BY <1>2, <1>3, <2>1, <2>2
  <2> HIDE DEF w, z
  <2> QED BY <1>2, <1>4, <1>5, <2>3
<1>10. reach <= p[i] - q[i] \/ reach <= -(p[i] - q[i])
  BY <1>1, <1>2, <1>3, <1>8, <1>9
<1>11. reach * reach <= (p[i] - q[i]) * (p[i] - q[i])
  <2> DEFINE e == p[i] - q[i]
  <2>1. e \in Int
    BY <1>5
  <2>2. reach <= e \/ reach <= -e
    BY <1>10
  <2> HIDE DEF e, reach
  <2>3. reach * reach <= e * e
    BY <1>7, <2>1, <2>2, SquareGrows
  <2> QED BY <2>3 DEF e
<1>12. reach * reach <= Dist(p, q)
  <2> DEFINE e == (p[i] - q[i]) * (p[i] - q[i])
             h == reach * reach
  <2>1. e \in Int /\ h \in Int
    BY <1>5, <1>7
  <2>2. h <= e /\ e <= Dist(p, q)
    BY <1>6, <1>11
  <2> HIDE DEF e, h
  <2>3. h <= Dist(p, q)
    BY <1>6, <2>1, <2>2
  <2> QED BY <2>3 DEF h
<1> QED BY <1>12 DEF b, rl

LEMMA DistancesType ==
  ASSUME TypeOK, NEW q \in Point
  PROVE  Distances(q) \in [Slots -> Nat]
<1>1. \A x \in Slots : Dist(pos[x], q) \in Nat
  BY DistBounds DEF TypeOK
<1> QED BY <1>1 DEF Distances

(* The search after r rings has the best of the cells up to r away. *)
LEMMA RingsBest ==
  ASSUME TypeOK, NEW q \in Point, NEW D, D = Distances(q), NEW c \in Grid(dim),
         NEW found, found[0] = scanCell(Nobody, c, q),
         \A r \in 1..dim : found[r] = scanCorners(found[r - 1], c, r, q)
  PROVE  \A r \in 0..dim : Best(found[r], NodesIn(Near(c, r)), D)
<1> DEFINE W == {r \in Nat : r <= dim => Best(found[r], NodesIn(Near(c, r)), D)}
<1>1. D \in [Slots -> Nat] /\ dim \in Nat
  BY DistancesType DEF TypeOK
<1>2. \A K \in SUBSET Grid(dim) : NodesIn(K) \in SUBSET Slots
  <2>1. \A k \in Grid(dim) : Range(cells[k]) \subseteq Slots
    BY DEF TypeOK, Range
  <2> QED BY <2>1 DEF NodesIn
<1>3. \A r : Near(c, r) \in SUBSET Grid(dim)
  BY DEF Near
<1>4. 0 \in W
  <2>1. Best(Nobody, {}, D)
    BY DEF Best, Nobody, Candidates
  <2>2. Best(scanCell(Nobody, c, q), {} \cup Range(cells[c]), D)
    BY <1>1, <2>1, ScanCellBest
  <2>3. NodesIn(Near(c, 0)) = {} \cup Range(cells[c])
    BY <1>1, NearZero DEF NodesIn
  <2> QED BY <2>2, <2>3
<1>5. ASSUME NEW r \in Nat, r \in W PROVE r + 1 \in W
  <2> SUFFICES ASSUME r + 1 <= dim PROVE Best(found[r + 1], NodesIn(Near(c, r + 1)), D)
    OBVIOUS
  <2> DEFINE S == NodesIn(Near(c, r))
             ring == NodesIn(Ring(c, r + 1))
  <2>1. Best(found[r], S, D) /\ S \in SUBSET Slots
    BY <1>1, <1>2, <1>3, <1>5
  <2>2. found[r + 1] = scanCorners(found[r], c, r + 1, q)
    <3>1. r + 1 \in 1..dim /\ (r + 1) - 1 = r
      BY <1>1
    <3> QED BY <3>1
  <2>3. NodesIn(Near(c, r + 1)) = S \cup ring
    BY <1>1, NearNext DEF NodesIn
  <2> HIDE DEF S
  <2>4. Best(scanCorners(found[r], c, r + 1, q), S \cup ring, D)
    BY <1>1, <2>1, ScanCornersBest
  <2> QED BY <2>2, <2>3, <2>4
<1> HIDE DEF W
<1>6. Nat \subseteq W
  BY <1>4, <1>5, SetInduction
<1> QED BY <1>1, <1>6 DEF W

(* findNearest returns the best of some cells, and has reason to stop.      *)
LEMMA SearchBest ==
  ASSUME TypeOK, NEW q \in Point, NEW c, c = calculateCell(q, l)
  PROVE  /\ c \in Grid(dim)
         /\ \E r \in 0..dim :
              /\ Best(findNearest(q), NodesIn(Near(c, r)), Distances(q))
              /\ \/ searchSuccessful(findNearest(q), Border(q, c) + r * l)
                 \/ Ring(c, r + 1) = {}
<1> DEFINE D == Distances(q)
           V == Bests(D)
           first == scanCell(Nobody, c, q)
           F == [r \in 1..dim |-> [g \in V |-> scanCorners(g, c, r, q)]]
           found[r \in 0..dim] ==
             IF r = 0 THEN scanCell(Nobody, c, q) ELSE scanCorners(found[r - 1], c, r, q)
           Enough(r) == \/ searchSuccessful(found[r], Border(q, c) + r * l)
                        \/ Ring(c, r + 1) = {}
           Stops == {r \in 0..dim : Enough(r)}
<1>1. /\ l \in Nat \ {0} /\ dim \in Nat /\ D \in [Slots -> Nat] /\ c \in Grid(dim)
  BY GridAssumption, CellInGrid, DistancesType DEF TypeOK, GridAssumption
<1>2. findNearest(q) = found[Min(Stops)]
  BY DEF findNearest
<1> HIDE DEF D, found
<1>3. first \in V
  <2>1. Best(Nobody, {}, D)
    BY DEF Best, Nobody, Candidates
  <2>2. Range(cells[c]) \in SUBSET Slots
    BY <1>1 DEF TypeOK, Range
  <2>3. Best(first, {} \cup Range(cells[c]), D)
    BY <1>1, <2>1, ScanCellBest DEF D
  <2>4. {} \cup Range(cells[c]) \in SUBSET Slots
    BY <2>2
  <2> HIDE DEF first
  <2> QED BY <2>3, <2>4 DEF Bests, Best
<1>4. ASSUME NEW g \in V, NEW r \in 1..dim PROVE scanCorners(g, c, r, q) \in V
  <2>1. PICK S \in SUBSET Slots : Best(g, S, D)
    BY <1>4 DEF Bests
  <2>2. /\ Best(scanCorners(g, c, r, q), S \cup NodesIn(Ring(c, r)), D)
        /\ S \cup NodesIn(Ring(c, r)) \in SUBSET Slots
    BY <1>1, <2>1, ScanCornersBest DEF D
  <2> QED BY <2>2 DEF Bests, Best
<1> HIDE DEF V
<1>5. F \in [1..dim -> [V -> V]]
  BY <1>4
<1>6. \A r \in 1..dim, g \in V : F[r][g] = scanCorners(g, c, r, q)
  OBVIOUS
<1> HIDE DEF F
<1>7. PICK f : Iterates(f, V, first, dim, F)
  <2> HIDE DEF first
  <2> QED BY <1>1, <1>3, <1>5, Iteration
<1>8. \A r \in 0..dim : f[r] = IF r = 0 THEN scanCell(Nobody, c, q)
                               ELSE scanCorners(f[r - 1], c, r, q)
  <2>1. f[0] = scanCell(Nobody, c, q)
    BY <1>7 DEF Iterates
  <2>2. \A r \in 1..dim : f[r] = scanCorners(f[r - 1], c, r, q)
    BY <1>6, <1>7 DEF Iterates
  <2>3. \A r \in 0..dim : r # 0 => r \in 1..dim
    BY <1>1
  <2> QED BY <2>1, <2>2, <2>3
<1>9. f = [r \in 0..dim |-> IF r = 0 THEN scanCell(Nobody, c, q)
                            ELSE scanCorners(f[r - 1], c, r, q)]
  <2>1. f = [r \in 0..dim |-> f[r]]
    BY <1>7 DEF Iterates
  <2> QED BY <1>8, <2>1
<1>10. found = [r \in 0..dim |-> IF r = 0 THEN scanCell(Nobody, c, q)
                                 ELSE scanCorners(found[r - 1], c, r, q)]
  BY <1>9 DEF found
<1>11. \A r \in 0..dim : found[r] = IF r = 0 THEN scanCell(Nobody, c, q)
                                    ELSE scanCorners(found[r - 1], c, r, q)
  BY <1>10, Zenon
<1>12. found[0] = scanCell(Nobody, c, q)
  BY <1>1, <1>11
<1>13. \A r \in 1..dim : found[r] = scanCorners(found[r - 1], c, r, q)
  BY <1>1, <1>11
<1>14. \A r \in 0..dim : Best(found[r], NodesIn(Near(c, r)), D)
  BY <1>1, <1>12, <1>13, RingsBest DEF D
<1>15. Stops \subseteq Nat /\ Stops # {}
  <2>1. dim \in Stops
    BY <1>1, RingEnd
  <2> QED BY <1>1, <2>1
<1>16. Min(Stops) \in Stops
  <2> HIDE DEF Stops
  <2> QED BY <1>15, LeastNat
<1>17. Min(Stops) \in 0..dim /\ Enough(Min(Stops))
  BY <1>16
<1> QED BY <1>1, <1>2, <1>14, <1>17 DEF D

LEMMA AtLeastTwo ==
  ASSUME NEW S, Cardinality(S) >= 2, NEW x
  PROVE  ~ (S \subseteq {x})
<1> SUFFICES ASSUME S \subseteq {x} PROVE FALSE
  OBVIOUS
<1>1. S = {} \/ S = {x}
  OBVIOUS
<1>2. Cardinality({}) = 0 /\ Cardinality({x}) = 1
  BY FS_EmptySet, FS_Singleton
<1> QED BY <1>1, <1>2

LEMMA FindsNearestHere == TypeOK => FindsNearest
<1> SUFFICES ASSUME TypeOK, Orderly, Cardinality(Entered) >= 2, NEW q \in Query
             PROVE  LET f == findNearest(q)
                    IN  /\ {f.first, f.second} \subseteq Entered /\ f.first # f.second
                        /\ \A x \in Entered : f.d1 <= Dist(pos[x], q)
                        /\ \A x \in Entered \ {f.first} : f.d2 <= Dist(pos[x], q)
  BY DEF FindsNearest
<1> DEFINE c == calculateCell(q, l)
           D == Distances(q)
           f == findNearest(q)
           Cell(x) == calculateCell(pos[x], l)
           Goal == /\ {f.first, f.second} \subseteq Entered /\ f.first # f.second
                   /\ \A x \in Entered : f.d1 <= D[x]
                   /\ \A x \in Entered \ {f.first} : f.d2 <= D[x]
<1>1. q \in Point
  BY GridAssumption DEF GridAssumption, Query, Point
<1>2. /\ Entered \subseteq Slots /\ l \in Nat \ {0} /\ dim \in Nat
      /\ \A x \in Slots : pos[x] \in Point /\ Cell(x) \in Grid(dim)
      /\ \A x \in Entered : D[x] = Dist(pos[x], q) /\ D[x] \in Nat
  <2>1. l \in Nat \ {0} /\ dim \in Nat /\ dim * l > Side
    BY GridAssumption DEF TypeOK, GridAssumption
  <2>2. \A x \in Slots : pos[x] \in Point /\ Cell(x) \in Grid(dim)
    BY <2>1, CellInGrid DEF TypeOK
  <2>3. \A x \in Slots : D[x] = Dist(pos[x], q) /\ D[x] \in Nat
    BY <1>1, <2>2, DistBounds DEF Distances
  <2> QED BY <2>1, <2>2, <2>3, EnteredSlots
<1>3. c \in Grid(dim)
  BY <1>1, SearchBest
<1>4. PICK r \in 0..dim :
        /\ Best(f, NodesIn(Near(c, r)), D)
        /\ searchSuccessful(f, Border(q, c) + r * l) \/ Ring(c, r + 1) = {}
  BY <1>1, SearchBest
<1>5. r \in Nat
  BY <1>2
<1>6. NodesIn(Near(c, r)) = {x \in Entered : Cell(x) \in Near(c, r)}
  <2>1. \A k \in Grid(dim) : Range(cells[k]) = {x \in Entered : Cell(x) = k}
    BY OrderlyLists DEF Lists
  <2>2. Near(c, r) \subseteq Grid(dim)
    BY DEF Near
  <2> QED BY <2>1, <2>2 DEF NodesIn
<1> DEFINE S == {x \in Entered : Cell(x) \in Near(c, r)}
<1>7. Best(f, S, D) /\ S \subseteq Entered
  BY <1>4, <1>6
<1>8. ASSUME Ring(c, r + 1) = {} PROVE Goal
  <2>1. S = Entered
    BY <1>2, <1>3, <1>5, <1>8, RingEmpty
  <2>2. ~ (S \subseteq {f.first}) /\ S # {}
    BY <2>1, AtLeastTwo
  <2> HIDE DEF S, f
  <2>3. f.first # -1 /\ f.second # -1
    BY <1>7, <2>2 DEF Best
  <2> QED BY <1>7, <2>1, <2>3 DEF Best
<1>9. ASSUME searchSuccessful(f, Border(q, c) + r * l) PROVE Goal
  <2> DEFINE b == (Border(q, c) + r * l) * (Border(q, c) + r * l)
  <2>1. f.first # -1 /\ f.second # -1 /\ f.d1 <= b /\ f.d2 <= b
    BY <1>9 DEF searchSuccessful
  <2>2. ASSUME NEW x \in Entered \ S PROVE b <= D[x]
    <3>1. pos[x] \in Point /\ Cell(x) \in Grid(dim) /\ Cell(x) \notin Near(c, r)
      BY <1>2
    <3>2. b <= Dist(pos[x], q)
      BY <1>1, <1>2, <1>5, <3>1, Far
    <3> QED BY <1>2, <3>2
  <2>3. b \in Nat
    <3> DEFINE e == Border(q, c) + r * l
    <3>1. e \in Int
      <4>1. Border(q, c) \in Nat
        BY <1>1, <1>2, BorderNear
      <4>2. r * l \in Nat
        BY <1>2, <1>5
      <4> QED BY <4>1, <4>2
    <3> HIDE DEF e
    <3>2. e * e \in Nat
      BY <3>1, SquareType
    <3> QED BY <3>2 DEF e
  <2> HIDE DEF S, f, b
  <2>4. /\ f.first \in S /\ f.d1 = D[f.first] /\ \A x \in S : f.d1 <= D[x]
        /\ f.second \in S \ {f.first} /\ f.d2 = D[f.second]
        /\ \A x \in S \ {f.first} : f.d2 <= D[x]
    BY <1>7, <2>1 DEF Best
  <2>5. f.d1 \in Nat /\ f.d2 \in Nat
    BY <1>2, <1>7, <2>4
  <2>6. \A x \in Entered \ S : f.d1 <= D[x] /\ f.d2 <= D[x]
    BY <1>2, <2>1, <2>2, <2>3, <2>5
  <2> QED BY <1>7, <2>4, <2>6
<1>10. Goal
  BY <1>4, <1>8, <1>9
<1> QED BY <1>2, <1>10

(* findNearest returns the nearest node and the nearest of the others,     *)
(* though it stops at the first ring behind which none can be nearer.      *)
THEOREM FindsNearestHolds == Spec => []FindsNearest
<1> QED BY FindsNearestHere, TypeCorrect, PTL
=============================================================================
