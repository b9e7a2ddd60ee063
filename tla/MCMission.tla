------------------------------ MODULE MCMission ------------------------------
(***************************************************************************)
(* Fields and requests for the small instances of Mission.                 *)
(***************************************************************************)
EXTENDS Mission

InnerTiles == {t \in Tiles : Cardinality(Neighbours(t)) = 4}

\* At most n obstacles of different colours, none where the rover starts.
Fields(n) ==
  LET Kinds == <<"R", "U">>
      Free == InnerTiles \ {Place(NewRover)}
  IN  UNION {{{[tile |-> f[i], colour |-> Kinds[i]] : i \in 1..k} :
                f \in {g \in [1..k -> Free] :
                         Cardinality({g[i] : i \in 1..k}) = k}} : k \in 0..n}

NoFields == {{}}
OneObstacle == Fields(1)
TwoObstacles == Fields(2)

\* An obstacle on the third tile ahead of the rover.
FarObstacle == {{[tile |-> Place(Ahead(NewRover, 2)), colour |-> "R"]}}

Corners == {Tile(x, y) : x \in {1, Size - 2}, y \in {1, Size - 2}}

=============================================================================
