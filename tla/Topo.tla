--------------------------------- MODULE Topo ---------------------------------
(***************************************************************************)
(* The topological sorter of the ANTLR runtime (antlr3collections): edges   *)
(* are added, the nodes are sorted to an array or a vector is sorted in     *)
(* place, as often as the client asks.  A sorter is                         *)
(*                                                                         *)
(*   edges     for each node below limit, the nodes it depends on; the      *)
(*             empty function as long as there is no array of edges         *)
(*   limit     one more than the largest node                              *)
(*   sorted    the array of the last sort                                  *)
(*   cycle     cycle[0..cycleMark), a stack                                *)
(*   hasCycle, visited                                                     *)
(***************************************************************************)
EXTENDS Integers, FiniteSets, Sequences, FiniteSetsExt, SequencesExt

CONSTANTS
  Nodes,       \* the numbers of the nodes
  MaxSorts     \* bound of the model: sorts asked for

Garbage == -1  \* an entry of an array that was allocated and not written

VARIABLES
  topo,
  vector,      \* the vector sorted last, entry n being what was at n before
  sorts,       \* how often the client has asked to sort
  topoPhase    \* "adding", "sorted", "moved" or "undefined"

topoVars == <<topo, vector, sorts, topoPhase>>

NoEdges == <<>>
NewTopo == [edges |-> NoEdges, limit |-> 1, sorted |-> <<>>, cycle |-> <<>>,
          hasCycle |-> FALSE, visited |-> {}]

(* The array of edges is allocated, or enlarged, for nodes up to maxEdge.   *)
Widened(t, maxEdge) ==
  IF t.edges # NoEdges /\ t.limit > maxEdge THEN t
  ELSE [t EXCEPT !.limit = maxEdge + 1,
                 !.edges = [n \in 0..maxEdge |->
                              IF n \in DOMAIN t.edges /\ n < t.limit THEN t.edges[n] ELSE {}]]

(* addEdge: a node that depends on itself is only made known.               *)
addEdge(t, edge, dependency) ==
  LET w == Widened(t, Max({edge, dependency}))
  IN IF edge = dependency THEN w ELSE [w EXCEPT !.edges[edge] = @ \cup {dependency}]

(* Mutant of Revisit: the way to the cycle is taken for part of it. *)
RevisitWhole(t, node) ==
  IF node \in ToSet(t.cycle) THEN [t EXCEPT !.hasCycle = TRUE] ELSE t

(* DFS, of a node visited before: if it is on the stack, what is above it   *)
(* there is a cycle.                                                        *)
Revisit(t, node) ==
  LET found == {i \in DOMAIN t.cycle : t.cycle[i] = node}
  IN IF found = {} THEN t
     ELSE [t EXCEPT !.hasCycle = TRUE, !.cycle = SubSeq(@, Min(found), Len(@))]

(* DFS: a node follows the nodes it depends on.                             *)
RECURSIVE DFS(_, _), Descend(_, _)
DFS(t, node) ==
  IF t.hasCycle THEN t
  ELSE IF node \in t.visited THEN Revisit(t, node)
  ELSE LET below == Descend([t EXCEPT !.cycle = Append(@, node), !.visited = @ \cup {node}],
                            SetToSortSeq(t.edges[node], <))
       IN [below EXCEPT !.sorted = Append(@, node),
                        !.cycle = IF below.hasCycle THEN @ ELSE Front(@)]

Descend(t, nodes) ==
  IF nodes = <<>> THEN t ELSE Descend(DFS(t, Head(nodes)), Tail(nodes))

(* sortToArray: new arrays and an empty set of visited nodes, but hasCycle  *)
(* and cycleMark stay as the last sort left them.  A node visited before is *)
(* passed over; after a cycle the traversal stops.                          *)
sortToArray(t) ==
  IF t.edges = NoEdges THEN t
  ELSE FoldLeft(LAMBDA s, v : IF s.hasCycle \/ v \in s.visited THEN s ELSE DFS(s, v),
                [t EXCEPT !.sorted = <<>>, !.visited = {},
                          !.cycle = [i \in DOMAIN @ |-> Garbage]],
                [i \in 1..t.limit |-> i - 1])

(* sortVector, its exchanges: m is [v, vIndex]; entry n of the vector is    *)
(* thought to be at vIndex[n].                                              *)
Exchange(m, i, n) ==
  LET ind == m.vIndex[n]
  IN IF ind = i THEN m
     ELSE [v |-> [m.v EXCEPT ![i] = m.v[ind], ![ind] = m.v[i]],
           vIndex |-> [[m.vIndex EXCEPT ![n] = i] EXCEPT ![i] = ind]]

Moved(v, sorted, limit) ==
  FoldLeft(LAMBDA m, i : Exchange(m, i, sorted[i + 1]),
           [v |-> v, vIndex |-> [i \in 0..(limit - 1) |-> i]], [i \in 1..limit |-> i - 1]).v

-------------------------------------------------------------------------------
TopoInit ==
  /\ topo = NewTopo /\ topoPhase = "adding"
  /\ vector = [n \in Nodes |-> n] /\ sorts = 0

AddEdge(edge, dependency) ==
  /\ topoPhase # "undefined"
  /\ topo' = addEdge(topo, edge, dependency)
  /\ topoPhase' = "adding" /\ UNCHANGED <<vector, sorts>>

SortToArray ==
  /\ topoPhase # "undefined" /\ sorts < MaxSorts /\ sorts' = sorts + 1
  /\ topo' = sortToArray(topo)
  /\ topoPhase' = IF topo.edges = NoEdges THEN topoPhase ELSE "sorted"
  /\ UNCHANGED vector

(* sortVector, of a vector of n entries.  A vector shorter than the sorted  *)
(* array cuts the limit, and an entry beyond the cut is looked up beyond    *)
(* the end of vIndex.                                                       *)
SortVector(n) ==
  /\ topoPhase # "undefined" /\ sorts < MaxSorts /\ sorts' = sorts + 1
  /\ LET t     == sortToArray(topo)
         limit == Min({t.limit, n})
         v     == [i \in 0..(n - 1) |-> i]
     IN IF t.edges = NoEdges \/ t.hasCycle
        THEN topo' = t /\ UNCHANGED vector
             /\ topoPhase' = IF t.edges = NoEdges THEN topoPhase ELSE "sorted"
        ELSE /\ topo' = [t EXCEPT !.limit = limit]
             /\ IF \E i \in 1..limit : t.sorted[i] >= limit
                THEN topoPhase' = "undefined" /\ UNCHANGED vector
                ELSE topoPhase' = "moved" /\ vector' = Moved(v, t.sorted, limit)

TopoNext ==
  \/ \E edge, dependency \in Nodes : AddEdge(edge, dependency)
  \/ SortToArray
  \/ \E n \in {Cardinality(Nodes), Cardinality(Nodes) - 1} : SortVector(n)
-------------------------------------------------------------------------------
Known == 0..(topo.limit - 1)

(* A sorted array holds every node once, each after the nodes it depends    *)
(* on; a cycle is reported exactly if every node of some set depends on     *)
(* another of the set, and then the stack holds one such cycle and nothing  *)
(* else; without one it is empty, as its comment asks.  (A second sort      *)
(* after a cycle finds none and leaves an unwritten stack: only the first   *)
(* is judged.)  A vector that is sorted in place keeps all its entries, and *)
(* if each entry changes places with one other at most, it is in the order  *)
(* of the array.  (In general it is not: the index of the entry that was    *)
(* moved away is kept under the wrong number.)                              *)
TopoSorts ==
  /\ topoPhase = "sorted" =>
       /\ topo.hasCycle <=>
            \E S \in SUBSET Known : S # {} /\ \A n \in S : topo.edges[n] \cap S # {}
       /\ ~topo.hasCycle =>
            /\ topo.cycle = <<>> /\ Len(topo.sorted) = topo.limit
            /\ \A i \in DOMAIN topo.sorted :
                 topo.edges[topo.sorted[i]] \subseteq {topo.sorted[k] : k \in 1..(i - 1)}
       /\ topo.hasCycle /\ sorts = 1 =>
            LET c == topo.cycle
            IN \A i \in DOMAIN c : c[(i % Len(c)) + 1] \in topo.edges[c[i]]
  /\ topoPhase = "moved" =>
       /\ Range(vector) = DOMAIN vector
       /\ (\A i \in Known : topo.sorted[topo.sorted[i + 1] + 1] = i) =>
            \A i \in Known : vector[i] = topo.sorted[i + 1]
===============================================================================
