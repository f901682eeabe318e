----------------------------- MODULE UniformGrid ------------------------------
(***************************************************************************)
(* UniformGrid: the nodes sorted into the cells of a grid over the         *)
(* bounding box, and the search for the two nearest nodes that looks at    *)
(* the query's cell and then at one ring of cells after another until no   *)
(* nearer node can be left.                                                *)
(*                                                                         *)
(* The space has Dim dimensions and integer coordinates from 0 (m_origin)  *)
(* to Side (m_axis).  The cell length m_l is an integer; growing divides   *)
(* it by 1.5 (m_grow_factor, and m_grow_rate of GNGAlgorithm).  Everything *)
(* inserted and every query lies inside the box.                           *)
(*                                                                         *)
(* remove erases the first node it finds at the position it is given, so   *)
(* the grid knows nodes apart by their positions only and may erase the    *)
(* wrong one when two are in one place.  The graph and the grid also part  *)
(* where the graph does not do what the grid does: deleteNode refuses      *)
(* nodes that existsNode does not see, and LargestErrorNodes deletes       *)
(* without telling the grid.  Once a node is in the grid twice, or in a    *)
(* cell that is not that of its position, the model follows the grid only  *)
(* until it grows and is made anew.                                        *)
(*                                                                         *)
(* Of the graph the model has which slots hold a node, and where: any of   *)
(* them may lose its last edge, and a free slot is taken in any order.     *)
(***************************************************************************)
EXTENDS Integers, SequencesExt

CONSTANTS
  Slots,    \* the slots of the pool, by number
  Dim,      \* gng_dim
  Side,     \* the length of the box along each axis
  Coords,   \* where nodes may be
  Queries,  \* the coordinates of queries
  FirstL,   \* the first cell length
  LastL     \* bound: no cell is shorter

ASSUME GridAssumption ==
  /\ IsFiniteSet(Slots) /\ Slots \subseteq Nat
  /\ Dim \in Nat \ {0} /\ Side \in Nat \ {0}
  /\ Coords \subseteq 0..Side /\ Queries \subseteq 0..Side
  /\ LastL \in Nat \ {0} /\ FirstL \in Nat /\ LastL <= FirstL

VARIABLES
  live,   \* slots that hold a node
  pos,    \* GNGNode::position, which a freed slot keeps
  l,      \* m_l
  dim,    \* m_dim, the number of cells along each axis
  cells   \* m_grid: a list of nodes for every cell

vars == <<live, pos, l, dim, cells>>

Axes == 1..Dim
Point == [Axes -> 0..Side]
Place == [Axes -> Coords]
Query == [Axes -> Queries]

-----------------------------------------------------------------------------
calculateCell(p, len) == [i \in Axes |-> p[i] \div len]

Dist(p, q) == FoldFunction(LAMBDA x, y : x + y, 0,
                           [i \in Axes |-> (p[i] - q[i]) * (p[i] - q[i])])

Grid(m) == [Axes -> 0..(m - 1)]

InCell(g, p, len, x) == [g EXCEPT ![calculateCell(p, len)] = Append(@, x)]

FaultDropFrom(g, p, len) ==    \* the first node of the cell, wherever it is
  [g EXCEPT ![calculateCell(p, len)] = IF @ = <<>> THEN @ ELSE Tail(@)]

(* Of the nodes in p's cell the first at distance zero is erased.           *)
DropFrom(g, p, len) ==
  LET c == calculateCell(p, len)
      here == {k \in DOMAIN g[c] : pos[g[c][k]] = p}
  IN  IF here = {} THEN g ELSE [g EXCEPT ![c] = RemoveAt(@, Min(here))]

calculate_cell_side(len, old) == Max({old + 1, Side \div len + 1})

(* The grid made anew, with the nodes of the graph inserted: each cell      *)
(* lists its nodes, in some order.                                          *)
Refill(nodes, len, m) ==
  [k \in Grid(m) |-> SetToSeq({x \in nodes : calculateCell(pos[x], len) = k})]

CellCount(m) == m^Dim

m_nodes == FoldFunction(LAMBDA c, n : n + Len(c), 0, cells)

(* The slots in the grid, with or without a node. *)
Entered == UNION {Range(cells[k]) : k \in DOMAIN cells}

(* existsNode: the number is below the number of nodes. *)
InSight == {x \in live : x < Cardinality(live)}

(* Each is in the grid once, in the cell its position belongs to. *)
Orderly ==
  \A k \in DOMAIN cells :
    IsInjective(cells[k]) /\ \A x \in Range(cells[k]) : calculateCell(pos[x], l) = k

Coincide == \E x, y \in live \cup Entered : x # y /\ pos[x] = pos[y]

(* The position of a slot that neither the graph nor the grid has.          *)
Nowhere == [i \in Axes |-> 0]

Forget == pos' = [x \in Slots |-> IF x \in live' \cup Entered' THEN pos[x] ELSE Nowhere]

Init ==
  /\ live = {} /\ pos = [x \in Slots |-> Nowhere]
  /\ l = FirstL /\ dim = calculate_cell_side(FirstL, 0)
  /\ cells = [k \in Grid(dim) |-> <<>>]

-----------------------------------------------------------------------------
(* randomInit and addNewNode put a new node in the grid. *)
Insert(x, p) ==
  /\ Orderly
  /\ live' = live \cup {x}
  /\ pos' = [pos EXCEPT ![x] = p]
  /\ cells' = InCell(cells, p, l, x)
  /\ UNCHANGED <<l, dim>>

(* adapt takes a node out of the grid, moves it and puts it back: a node it *)
(* found in the grid, which may be a slot without one, or a neighbour.      *)
Move(x, p) ==
  /\ Orderly
  /\ pos' = [pos EXCEPT ![x] = p]
  /\ cells' = InCell(DropFrom(cells, pos[x], l), p, l, x)
  /\ UNCHANGED <<live, l, dim>>

(* adapt removes a node that lost its last edge, from the grid and then     *)
(* from the graph, which refuses if it does not see it.                     *)
Delete(x) ==
  /\ Orderly
  /\ live' = live \ (InSight \cap {x})
  /\ cells' = DropFrom(cells, pos[x], l)
  /\ Forget
  /\ UNCHANGED <<l, dim>>

(* LargestErrorNodes deletes a node without edges and leaves the grid as it *)
(* is.                                                                      *)
Discard(x) ==
  /\ Orderly
  /\ live' = live \ {x}
  /\ UNCHANGED <<l, dim, cells>>
  /\ Forget

(* More than 0.1 nodes in a cell, and more than 0.4 when it has shrunk.     *)
check_grow ==
  /\ 10 * m_nodes > CellCount(dim)
  /\ 10 * m_nodes > 4 * CellCount(calculate_cell_side((2 * l) \div 3, dim))

(* resizeUniformGrid inserts the nodes existsNode sees. *)
Grow ==
  /\ check_grow /\ (2 * l) \div 3 >= LastL
  /\ l' = (2 * l) \div 3
  /\ dim' = calculate_cell_side(l', dim)
  /\ cells' = Refill(InSight, l', dim')
  /\ UNCHANGED live
  /\ Forget

Next ==
  \/ \E x \in Slots \ live, p \in Place : Insert(x, p)
  \/ \E x \in live \cup Entered, p \in Place : Move(x, p)
  \/ \E x \in live \cup Entered : Delete(x)
  \/ \E x \in InSight : Discard(x)
  \/ Grow

Spec == Init /\ [][Next]_vars

-----------------------------------------------------------------------------
(* findNearest.  The two best so far are s_found_cells[1] and [0].          *)

Nobody == [first |-> -1, d1 |-> -1, second |-> -1, d2 |-> -1]

Offer(f, x, q) ==
  LET d == Dist(pos[x], q)
  IN  IF x = f.first \/ (f.d2 >= 0 /\ d > f.d2) THEN f
      ELSE IF f.d1 < 0 \/ d <= f.d1
           THEN [first |-> x, d1 |-> d, second |-> f.first, d2 |-> f.d1]
           ELSE [f EXCEPT !.second = x, !.d2 = d]

scanCell(f, c, q) == FoldLeft(LAMBDA g, x : Offer(g, x, q), f, cells[c])

FaultRing(c, r) ==    \* the corners are left out by every axis
  {k \in Grid(dim) :
     \E i \in Axes : k[i] \in {c[i] - r, c[i] + r} /\
       \A j \in Axes \ {i} : k[j] \in (c[j] - r + 1)..(c[j] + r - 1)}

(* The two faces across each axis, and of what earlier axes have scanned    *)
(* only the inside.                                                         *)
Ring(c, r) ==
  {k \in Grid(dim) :
     \E i \in Axes : k[i] \in {c[i] - r, c[i] + r} /\
       \A j \in Axes \ {i} :
         k[j] \in IF j < i THEN (c[j] - r + 1)..(c[j] + r - 1)
                           ELSE (c[j] - r)..(c[j] + r)}

Gap(a, b) == IF a < b THEN b - a ELSE a - b

scanCorners(f, c, r, q) ==
  FoldSet(LAMBDA k, g : scanCell(g, k, q), f, Ring(c, r))

(* How far the nearest wall of the cell is. *)
Border(q, c) ==
  Min(UNION {{Gap(q[i], c[i] * l), Gap(q[i], (c[i] + 1) * l)} : i \in Axes})

searchSuccessful(f, border) ==
  f.first # -1 /\ f.second # -1 /\ f.d1 <= border * border /\ f.d2 <= border * border

findNearest(q) ==
  LET c == calculateCell(q, l)
      found[r \in 0..dim] ==
        IF r = 0 THEN scanCell(Nobody, c, q) ELSE scanCorners(found[r - 1], c, r, q)
      Enough(r) == searchSuccessful(found[r], Border(q, c) + r * l) \/ Ring(c, r + 1) = {}
  IN  found[Min({r \in 0..dim : Enough(r)})]

-----------------------------------------------------------------------------
(* The cells cover the box, so that every position in it has one. *)
TypeOK ==
  /\ dim * l > Side
  /\ live \subseteq Slots /\ pos \in [Slots -> Point]
  /\ l \in LastL..FirstL /\ dim \in Nat \ {0}
  /\ cells \in [Grid(dim) -> Seq(Slots)]

(* The nodes the search cannot find, and the slots it finds without one.    *)
Missing == live \ Entered
Dead == Entered \ live

(* As long as no two nodes are in one place, graph and grid are put out of  *)
(* step in two ways only: a node goes from the grid that deleteNode does    *)
(* not see, and one goes from the graph by a step that leaves the grid      *)
(* alone.  Nothing is in the grid twice or in a wrong cell, unless a new    *)
(* node took a slot the grid still had.  Whatever the grid was like, when   *)
(* it has grown it has the nodes existsNode sees and no other.              *)
GridStaysSound ==
  [][ /\ dim' # dim => Orderly' /\ Entered' = InSight'
      /\ Orderly /\ ~Coincide /\ dim' = dim =>
           /\ Missing' \subseteq Missing \cup (live \ InSight)
           /\ Dead' \subseteq Dead \/ cells' = cells
           /\ Dead = {} => Orderly' ]_vars

(* The ring search finds the nearest node in the grid and the nearest of    *)
(* the others, though it does not look at the whole grid.                   *)
FindsNearest ==
  Orderly /\ Cardinality(Entered) >= 2 =>
    \A q \in Query :
      LET f == findNearest(q)
      IN  /\ {f.first, f.second} \subseteq Entered /\ f.first # f.second
          /\ \A x \in Entered : f.d1 <= Dist(pos[x], q)
          /\ \A x \in Entered \ {f.first} : f.d2 <= Dist(pos[x], q)
=============================================================================
