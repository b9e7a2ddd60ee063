----------------------------- MODULE PathSearch ------------------------------
(***************************************************************************)
(* The A* search of the server and the binary heap it takes the next node  *)
(* from.  A node is its tile; the heap keeps, beside its nodes, a table    *)
(* from a node's id to its position, by which the search finds a node      *)
(* whose priority changed.  Positions count from 1 here.                   *)
(***************************************************************************)
EXTENDS Plans

(***************************************************************************)
(* An id is the row and the column, written one after the other in base    *)
(* 10, on a map of 12 by 12.  With another base a small map is in the same *)
(* position: Size = Base + 2 is the map whose last two rows and columns    *)
(* take two digits.                                                        *)
(***************************************************************************)
CONSTANT Base

ASSUME BaseAssumption == Base \in Nat /\ Base >= 2 /\ Size <= Base + 2

Infinity == 2147483647   \* math.MaxInt32

\* A path that visits every tile is shorter than that.
ASSUME InfinityAssumption == Size * Size < Infinity

Digits(n) == IF n < Base THEN <<n>> ELSE <<n \div Base, n % Base>>

Id(t) == Digits(Row(t)) \o Digits(Column(t))

NoTile == -1

-----------------------------------------------------------------------------
(***************************************************************************)
(* A heap q = [nodes, positions], ordered by the scores f.               *)
(***************************************************************************)
Put(positions, id, i) ==
  [x \in DOMAIN positions \cup {id} |-> IF x = id THEN i ELSE positions[x]]

Swap(q, i, j) ==
  [nodes |-> [q.nodes EXCEPT ![i] = q.nodes[j], ![j] = q.nodes[i]],
   positions |-> Put(Put(q.positions, Id(q.nodes[i]), j), Id(q.nodes[j]), i)]

\* The loops of siftUp and siftDown: a place is [q, i], the node that moves
\* being at i; a node moves at most i times upwards, Len times downwards.
Moved(s, j) == [q |-> Swap(s.q, s.i, j), i |-> j]

StepUp(s, f) ==
  IF s.i > 1 /\ f[s.q.nodes[s.i]] < f[s.q.nodes[s.i \div 2]]
  THEN Moved(s, s.i \div 2)
  ELSE s

SiftUp(q, i, f) ==
  LET Loop[n \in 0..i] == IF n = 0 THEN [q |-> q, i |-> i] ELSE StepUp(Loop[n - 1], f)
  IN  Loop[i].q

\* Mutant: the second child is never the smaller one.
Child_First(q, i, f) == 2 * i

\* The child to compare with: the smaller one, the first if they are equal.
Child(q, i, f) ==
  IF 2 * i + 1 <= Len(q.nodes) /\ f[q.nodes[2 * i + 1]] < f[q.nodes[2 * i]]
  THEN 2 * i + 1
  ELSE 2 * i

StepDown(s, f) ==
  LET child == Child(s.q, s.i, f)
  IN  IF 2 * s.i <= Len(s.q.nodes) /\ f[s.q.nodes[child]] < f[s.q.nodes[s.i]]
      THEN Moved(s, child)
      ELSE s

SiftDown(q, i, f) ==
  LET Loop[n \in 0..Len(q.nodes)] ==
        IF n = 0 THEN [q |-> q, i |-> i] ELSE StepDown(Loop[n - 1], f)
  IN  Loop[Len(q.nodes)].q

ContainsNode(q, t) == Id(t) \in DOMAIN q.positions

Insert(q, t, f) ==
  SiftUp([nodes |-> Append(q.nodes, t),
          positions |-> Put(q.positions, Id(t), Len(q.nodes) + 1)],
         Len(q.nodes) + 1, f)

Update(q, t, f) == SiftUp(q, q.positions[Id(t)], f)

\* remove(): the first node leaves the heap, the last one takes its place.
RemoveNode(q, f) ==
  LET s == Swap(q, 1, Len(q.nodes))
      p == s.positions
  IN  SiftDown([nodes |-> SubSeq(s.nodes, 1, Len(q.nodes) - 1),
                positions |-> [id \in DOMAIN p \ {Id(s.nodes[Len(q.nodes)])} |-> p[id]]],
               1, f)

-----------------------------------------------------------------------------
VARIABLES
  map, from, to,   \* what the search is called with
  search,          \* heap, gScore, fScore, cameFrom
  searching,       \* the loop goes on
  path             \* the result; empty if there is none

searchVars == <<map, from, to, search, searching, path>>

\* Mutant: a heuristic that overestimates.
h_Overestimates(t) == 3 * Distance(t, to)

\* The heuristic: the Manhattan distance.
h(t) == Distance(t, to)

\* Mutant: obstacles are entered.
Blocked_Never(t) == FALSE

Blocked(t) == map[t] > Empty

NewSearch ==
  [heap     |-> [nodes |-> <<from>>, positions |-> [id \in {Id(from)} |-> 1]],
   gScore   |-> [t \in Tiles |-> IF t = from THEN 0 ELSE Infinity],
   fScore   |-> [t \in Tiles |-> IF t = from THEN h(from) ELSE Infinity],
   cameFrom |-> [t \in Tiles |-> NoTile]]

\* For the same start and destination the path is empty at once.
SearchInit ==
  /\ search = NewSearch
  /\ searching = (from # to)
  /\ path = <<>>

\* One neighbour u of the current node, if there is a tile u beside it: is
\* it reached by a shorter path?
Relax(current, s, u) ==
  LET g == s.gScore[current] + 1
      f == [s.fScore EXCEPT ![u] = g + h(u)]
  IN  IF u \notin Neighbours(current) \/ Blocked(u) \/ g >= s.gScore[u]
      THEN s
      ELSE [heap     |-> IF ContainsNode(s.heap, u)
                         THEN Update(s.heap, u, f) ELSE Insert(s.heap, u, f),
            gScore   |-> [s.gScore EXCEPT ![u] = g],
            fScore   |-> f,
            cameFrom |-> [s.cameFrom EXCEPT ![u] = current]]

\* The neighbours of the current node, one after the other: up, down, left,
\* right.
RelaxAll(t, s) ==
  Relax(t, Relax(t, Relax(t, Relax(t, s, t - Size), t + Size), t - 1), t + 1)

\* reconstructPath: back from the destination, over a tile at most once.
PathTo(cameFrom, t) ==
  LET Back[n \in 0..(Size * Size)] ==
        IF n = 0
        THEN <<t>>
        ELSE LET p == Back[n - 1] IN
             IF cameFrom[Head(p)] = NoTile THEN p ELSE <<cameFrom[Head(p)]>> \o p
  IN  Back[Size * Size]

\* The node to visit next, if there is one.
First == IF search.heap.nodes = <<>> THEN NoTile ELSE Head(search.heap.nodes)

Visit ==
  /\ searching
  /\ First \notin {NoTile, to}
  /\ search' = RelaxAll(First, [search EXCEPT !.heap = RemoveNode(@, search.fScore)])
  /\ UNCHANGED <<map, from, to, searching, path>>

\* The destination is next, or there is nothing left to visit: then
\* cameFrom of the destination is nil, and there is no path.
Return ==
  /\ searching
  /\ First \in {NoTile, to}
  /\ searching' = FALSE
  /\ path' = IF search.cameFrom[to] = NoTile THEN <<>> ELSE PathTo(search.cameFrom, to)
  /\ UNCHANGED <<map, from, to, search>>

SearchNext == Visit \/ Return

-----------------------------------------------------------------------------
(***************************************************************************)
(* The search returns a shortest path that enters no obstacle, and reports *)
(* that there is none only if there is none (map_paths.go:10).             *)
(***************************************************************************)
FindsShortestPath ==
  ~ searching =>
    LET paths == ShortestPaths(map, from, to)
    IN  IF paths = {} THEN path = <<>> ELSE path \in paths

(***************************************************************************)
(* The node taken next has the lowest score (min_heap.go:7), and the table *)
(* finds every node where it is, although ids are not unique: nodes on the *)
(* heap never share one, because only an inner tile and one of the edge    *)
(* do, and the edge is an obstacle.                                        *)
(***************************************************************************)
HeapConsistent ==
  LET q == search.heap
  IN  /\ \A i \in 2..Len(q.nodes) :
           search.fScore[q.nodes[i \div 2]] <= search.fScore[q.nodes[i]]
      /\ \A i \in DOMAIN q.nodes : q.positions[Id(q.nodes[i])] = i
      /\ Cardinality(DOMAIN q.positions) = Len(q.nodes)

(***************************************************************************)
(* The heuristic is consistent (map_paths.go:80): the score of a node that *)
(* has been visited is final, so that no node is visited twice.            *)
(***************************************************************************)
VisitedIsFinal ==
  [][\A t \in Tiles :
       search.gScore[t] # Infinity /\ t \notin {search.heap.nodes[i] : i \in DOMAIN search.heap.nodes}
         => search'.gScore[t] = search.gScore[t]]_search

=============================================================================
