-------------------------------- MODULE Plans --------------------------------
(***************************************************************************)
(* The map of the server, seen as a grid: where an instruction brings the  *)
(* rover, which paths are shortest, and the drive instructions made from a *)
(* path.  Operators only; MapServer and Field are built from them.         *)
(*                                                                         *)
(* The map is square (the code has one map, of 12 by 12, and steps from    *)
(* row to row by 12 where it does not use Cols).  A tile is its index in   *)
(* the slice of tiles.  Distances are whole tiles: the code multiplies by  *)
(* tileWidth when it plans and divides by it when it moves the rover.      *)
(***************************************************************************)
EXTENDS Integers, Sequences, FiniteSets

CONSTANT Size   \* rows and columns of the map

ASSUME SizeAssumption == Size \in Nat \ {0}

Tiles == 0..(Size * Size - 1)

Tile(x, y) == x + y * Size
Column(t)  == t % Size
Row(t)     == t \div Size

\* The values of a tile; from Obstacle on, a kind of obstacle.
Unknown  == 1
Empty    == 2
Border   == 3
Obstacle == 5

-----------------------------------------------------------------------------
(***************************************************************************)
(* A rover has a column x, a row y, and a rotation in degrees, clockwise   *)
(* from east.  Nothing in the code keeps x and y within the map.           *)
(***************************************************************************)
Rotations == {0, 90, 180, 270}

Forward(n) == [kind |-> "forward", value |-> n]
Right      == [kind |-> "turnRight", value |-> 90]
Left       == [kind |-> "turnLeft", value |-> 90]
Nothing    == [kind |-> "nil", value |-> 0]

TurnKinds == {"turnRight", "turnLeft"}

Across(a) == CASE a = 0  -> 1 [] a = 180 -> -1 [] OTHER -> 0
Down(a)   == CASE a = 90 -> 1 [] a = 270 -> -1 [] OTHER -> 0

\* The rover n tiles further on.
Ahead(r, n) ==
  [x |-> r.x + n * Across(r.rotation),
   y |-> r.y + n * Down(r.rotation),
   rotation |-> r.rotation]

Place(r) == Tile(r.x, r.y)

\* The indices of the tiles it passes over: changeTerrainX, changeTerrainY.
Swept(r, n) == {Place(Ahead(r, k)) : k \in 0..n}

ChangeInRotation(i) ==
  CASE i.kind = "turnRight" -> i.value
    [] i.kind = "turnLeft"  -> -i.value
    [] OTHER -> 0

\* Mutant: a rotation is not kept below a full turn.
Turned_NoModulo(r, angle) == [r EXCEPT !.rotation = @ + angle]

Turned(r, angle) == [r EXCEPT !.rotation = (@ + angle) % 360]

\* Mutant: a turn to the left is added to the rotation.
After_LeftAdds(r, i) ==
  IF i.kind = "forward" THEN Ahead(r, i.value) ELSE Turned(r, i.value)

\* driveTocoords: the rover after an instruction.
After(r, i) ==
  IF i.kind = "forward"
  THEN Ahead(r, i.value)
  ELSE Turned(r, ChangeInRotation(i))

-----------------------------------------------------------------------------
Distance(t, u) ==
  LET Abs(n) == IF n < 0 THEN -n ELSE n
  IN  Abs(Column(t) - Column(u)) + Abs(Row(t) - Row(u))

Neighbours(t) ==
  {u \in {t - Size, t + Size, t - 1, t + 1} \cap Tiles : Distance(t, u) = 1}

(***************************************************************************)
(* The shortest paths from one tile to another that enter no obstacle,     *)
(* each a sequence of tiles with both ends; none if the ends are the same  *)
(* tile.  Which of them the search returns depends on its heap.  The paths *)
(* of n steps are those of n - 1 steps, each followed by a tile that no    *)
(* shorter path leads to, until one leads to the destination.              *)
(***************************************************************************)
FreeNeighbours(map, t) == {u \in Neighbours(t) : map[u] <= Empty}

Farther(map, s) ==
  UNION {{Append(p, t) : t \in FreeNeighbours(map, p[Len(p)]) \ s.near} : p \in s.paths}

Stages == [paths : SUBSET Seq(Tiles), near : SUBSET Tiles]

Nearest(map, from, to) ==
  LET Step[s \in Stages] ==
        IF to \in s.near
        THEN s
        ELSE [paths |-> Farther(map, s),
              near  |-> s.near \cup {p[Len(p)] : p \in Farther(map, s)}]
      Search[n \in 0..(Size * Size)] ==
        IF n = 0 THEN [paths |-> {<<from>>}, near |-> {from}] ELSE Step[Search[n - 1]]
  IN  Search

ShortestPaths(map, from, to) ==
  IF from = to
  THEN {}
  ELSE {p \in Nearest(map, from, to)[Size * Size].paths : p[Len(p)] = to}

-----------------------------------------------------------------------------
\* The traversal modes, and the one of the web page that starts exploration.
Simple == 0
FullDiscovery == 1
DestinationDiscovery == 2
Explore == 3

\* The rotation that leads from a tile to its neighbour.
Direction(t, u) ==
  CASE u = t - Size -> 270 [] u = t + Size -> 90 [] u = t + 1 -> 0 [] OTHER -> 180

\* Mutant: a turn by 270 degrees is made to the right.
Turns_NoLeft(a, b) ==
  CASE (b - a) % 360 = 90  -> <<Right>>
    [] (b - a) % 360 = 180 -> <<Right, Right>>
    [] (b - a) % 360 = 270 -> <<Right>>
    [] OTHER -> <<>>

Turns(a, b) ==
  CASE (b - a) % 360 = 90  -> <<Right>>
    [] (b - a) % 360 = 180 -> <<Right, Right>>
    [] (b - a) % 360 = 270 -> <<Left>>
    [] OTHER -> <<>>

\* Mutant: one turn to the left is missing.
FullRotation_NoLeft == <<Right, Left, Right>>

\* What the camera needs to see the tiles around.
FullRotation == <<Right, Left, Left, Right>>

(***************************************************************************)
(* pathToDriveInstructions: tiles in line are one forward, except in full  *)
(* discovery, which rotates on each tile.  A path has two tiles or more;   *)
(* its i-th leg leads from its i-th tile to the next one.                  *)
(***************************************************************************)
Heading(path, rotation, i) ==
  IF i = 0 THEN rotation ELSE Direction(path[i], path[i + 1])

Rotate(mode, m) == IF mode = m THEN FullRotation ELSE <<>>

\* The instructions d that lead to the i-th leg, and those for it.
WithLeg(path, rotation, mode, d, i) ==
  LET before == Heading(path, rotation, i - 1)
      now    == Heading(path, rotation, i)
  IN  IF mode # FullDiscovery /\ i > 1 /\ now = before
      THEN [d EXCEPT ![Len(d)] = Forward(@.value + 1)]
      ELSE d \o Turns(before, now) \o <<Forward(1)>> \o Rotate(mode, FullDiscovery)

Drive(path, rotation, mode) ==
  LET Legs[i \in 0..(Len(path) - 1)] ==
        IF i = 0 THEN <<>> ELSE WithLeg(path, rotation, mode, Legs[i - 1], i)
  IN  Legs

Instructions(path, rotation, mode) ==
  Drive(path, rotation, mode)[Len(path) - 1] \o Rotate(mode, DestinationDiscovery)

=============================================================================
