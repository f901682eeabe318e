------------------------------ MODULE NodeStore ------------------------------
(***************************************************************************)
(* What a GNGGraph promises its users (the interface in gng_graph.h): a    *)
(* set of nodes, each with a name of its own, and undirected edges between *)
(* two of them.  A new node never gets the name of one that is there, and  *)
(* a node leaves only when no edge ends at it.                             *)
(***************************************************************************)
CONSTANT Names
VARIABLES live, links

Init == live = {} /\ links = {}

newNode(x) ==
  /\ x \notin live
  /\ live' = live \cup {x}
  /\ UNCHANGED links

deleteNode(x) ==
  /\ x \in live
  /\ \A e \in links : x \notin e
  /\ live' = live \ {x}
  /\ UNCHANGED links

addUDEdge(a, b) ==
  /\ a \in live /\ b \in live /\ a # b
  /\ links' = links \cup {{a, b}}
  /\ UNCHANGED live

removeUDEdge(a, b) ==
  /\ links' = links \ {{a, b}}
  /\ UNCHANGED live

Next ==
  \/ \E x \in Names : newNode(x) \/ deleteNode(x)
  \/ \E a, b \in Names : addUDEdge(a, b) \/ removeUDEdge(a, b)

Spec == Init /\ [][Next]_<<live, links>>
=============================================================================
