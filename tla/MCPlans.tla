------------------------------- MODULE MCPlans -------------------------------
(***************************************************************************)
(* All the plans on a small map: choose a map, a start and a destination;  *)
(* search a path; make instructions of it, for a rotation of the rover and *)
(* a mode; then carry them out.                                            *)
(***************************************************************************)
EXTENDS PathSearch

CONSTANTS
  MaxObstacles,  \* bound: obstacles on the map
  Starts         \* bound: the tiles the rover starts from

ASSUME StartsAssumption == Starts \subseteq Tiles

VARIABLES
  mode,      \* how the path is to be traversed
  rover,
  left,      \* the instructions to go
  planned,   \* the instructions are made
  seen       \* the tiles the rover has faced

planVars == <<mode, rover, left, planned, seen>>
vars == <<searchVars, planVars>>

Inner == {t \in Tiles : {Column(t), Row(t)} \cap {0, Size - 1} = {}}

Init ==
  /\ \E S \in {T \in SUBSET Inner : Cardinality(T) <= MaxObstacles} :
       map = [t \in Tiles |-> IF t \notin Inner THEN Border
                              ELSE IF t \in S THEN Obstacle ELSE Unknown]
  /\ from \in Starts
  /\ to \in Inner
  /\ SearchInit
  /\ mode = Simple
  /\ rover = [x |-> Column(from), y |-> Row(from), rotation |-> 0]
  /\ left = <<>>
  /\ planned = FALSE
  /\ seen = {}

Plan ==
  /\ ~ searching
  /\ ~ planned
  /\ path # <<>>
  /\ planned' = TRUE
  /\ \E m \in {Simple, FullDiscovery, DestinationDiscovery}, r \in Rotations :
       /\ mode' = m
       /\ rover' = [rover EXCEPT !.rotation = r]
       /\ left' = Instructions(path, r, m)
  /\ UNCHANGED <<searchVars, seen>>

CarryOut ==
  /\ left # <<>>
  /\ rover' = After(rover, Head(left))
  /\ left' = Tail(left)
  /\ seen' = seen \cup {Place(Ahead(rover', 1))}
  /\ UNCHANGED <<searchVars, mode, planned>>

Next ==
  \/ SearchNext /\ UNCHANGED planVars
  \/ Plan
  \/ CarryOut

Spec == Init /\ [][Next]_vars

(***************************************************************************)
(* A plan brings the rover to its destination (drive.go:72), whatever the  *)
(* rotation it starts with and the way the tiles are grouped or looked at. *)
(***************************************************************************)
ReachesDestination == planned /\ left = <<>> => Place(rover) = to

(***************************************************************************)
(* On its way it enters no obstacle that is on the map (map_paths.go:52).  *)
(***************************************************************************)
AvoidsObstacles ==
  [][CarryOut /\ Head(left).kind = "forward" =>
       \A t \in Swept(rover, Head(left).value) \ {Place(rover)} : map[t] <= Empty]_vars

(***************************************************************************)
(* The camera sees the tiles around: at the end of a full or destination   *)
(* discovery the rover has faced every neighbour of its destination but    *)
(* the one it came from (drive.go:26).                                     *)
(***************************************************************************)
LooksAround ==
  planned /\ left = <<>> /\ mode # Simple =>
    Neighbours(to) \ {path[Len(path) - 1]} \subseteq seen

=============================================================================
