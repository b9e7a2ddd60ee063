------------------------------ MODULE MapServer ------------------------------
(***************************************************************************)
(* The command server: the map, the rover as the server believes it to be, *)
(* the handler of the rover's reports, and the HTTP handlers.              *)
(*                                                                         *)
(* The MQTT client calls the feedback handler for one report after the     *)
(* other; an HTTP handler runs in a goroutine of its own, and no lock      *)
(* separates the two.  The feedback handler is one action per report; the  *)
(* HTTP handler that plans is split where it reads or publishes, so that   *)
(* reports can be handled in between.                                      *)
(***************************************************************************)
EXTENDS Topics

CONSTANTS StartX, StartY   \* where the rover is put on the map

ASSUME StartAssumption == StartX \in 0..(Size - 1) /\ StartY \in 0..(Size - 1)

VARIABLES
  alive,        \* FALSE once the handler of a report has panicked
  tiles,        \* Map.Tiles
  rover,        \* Rover
  stash,        \* stashedDriveInstruction: reported, not yet on the map
  stopData,     \* the colour of a stop whose distance is still to come
  destination,  \* previousDestinationRow, ...Col and ...Mode
  exploring,    \* ~ stopAutonomous
  request       \* the HTTP handler that plans: a path found, or instructions
                \* of which some are to be published

serverVars ==
  <<alive, tiles, rover, stash, stopData, destination, exploring, request>>

NoColour == "none"

ObstacleValue(colour) ==
  CASE colour = NoColour -> Empty
    [] colour = "B" -> 6
    [] colour = "R" -> 7
    [] colour = "Y" -> 8
    [] colour = "T" -> 9
    [] colour = "V" -> 10
    [] OTHER -> 5

NewMap ==
  [t \in Tiles |-> IF {Column(t), Row(t)} \cap {0, Size - 1} = {}
                   THEN Unknown ELSE Border]

NewRover == [x |-> StartX, y |-> StartY, rotation |-> 0]

NoDestination == [tile |-> 0, mode |-> Simple]

\* then: what previousDestination... are once the handler has ended.
NoRequest == [path |-> <<>>, mode |-> Simple, left |-> <<>>, then |-> NoDestination]

ServerTypeOK ==
  /\ alive \in BOOLEAN
  /\ tiles \in [Tiles -> {Unknown, Empty, Border} \cup 5..10]
  /\ rover \in [x : Int, y : Int, rotation : Rotations]
  /\ stash \in [kind : TurnKinds \cup {"forward", "nil"}, value : Nat]
  /\ stopData \in Colours \cup {NoColour}
  /\ destination \in [tile : Tiles, mode : Simple..Explore]
  /\ exploring \in BOOLEAN
  /\ DOMAIN request = DOMAIN NoRequest

ServerInit ==
  /\ alive = TRUE
  /\ tiles = NewMap
  /\ rover = NewRover
  /\ stash = Nothing
  /\ stopData = NoColour
  /\ destination = NoDestination
  /\ exploring = FALSE
  /\ request = NoRequest

-----------------------------------------------------------------------------
(***************************************************************************)
(* driveTocoords marks the tiles passed over as empty; a Go slice panics   *)
(* when an index is out of its range.                                      *)
(***************************************************************************)
Indices(r, i) == IF i.kind = "forward" THEN Swept(r, i.value) ELSE {}

Driven(map, r, i) ==
  [t \in Tiles |-> IF t \in Indices(r, i) THEN Empty ELSE map[t]]

\* getOneInFront, after the instruction i.
InFront(r, i) == Place(Ahead(Turned(r, ChangeInRotation(i)), 1))

\* Mutant: what is on the map is not looked at.
SeenWhileTurning_Overwrites(map, r, i, colour) ==
  IF i.kind \notin TurnKinds
  THEN map
  ELSE [map EXCEPT ![InFront(r, i)] = ObstacleValue(colour)]

\* updateMapWithObstructionWhileTurning: nothing seen does not remove what
\* is on the map already.
SeenWhileTurning(map, r, i, colour) ==
  IF \/ i.kind \notin TurnKinds
     \/ colour = NoColour /\ map[InFront(r, i)] \notin {Unknown, Empty}
  THEN map
  ELSE [map EXCEPT ![InFront(r, i)] = ObstacleValue(colour)]

-----------------------------------------------------------------------------
(***************************************************************************)
(* The tile to explore next: the first one with the most unknown tiles     *)
(* around it.                                                              *)
(***************************************************************************)
UnknownTiles(map) == {t \in Tiles : map[t] = Unknown}

UnknownNeighbours(map, t) == Cardinality(Neighbours(t) \cap UnknownTiles(map))

NextDestination(map) ==
  LET U == UnknownTiles(map)
      best == {t \in U : \A u \in U :
                 UnknownNeighbours(map, u) <= UnknownNeighbours(map, t)}
  IN  CHOOSE t \in best : \A u \in best : t <= u

OnMap(r) == r.x \in 0..(Size - 1) /\ r.y \in 0..(Size - 1)

\* The paths mapAndDrive may find, from the rover to a destination.
Routes(map, r, to) == IF OnMap(r) THEN ShortestPaths(map, Place(r), to) ELSE {}

(***************************************************************************)
(* autonomousDrive.  Its variables x and y hold the row and the column of  *)
(* the next destination; mapAndDrive takes the column first.  The balls    *)
(* are never all found: ballIsFound is called with the distance of a stop, *)
(* which is no colour.                                                     *)
(***************************************************************************)
ExplorationRoutes(map, r) ==
  IF UnknownTiles(map) = {}
  THEN {}
  ELSE LET t == NextDestination(map)
       IN  Routes(map, r, Tile(Row(t), Column(t)))

\* Publish a sequence made from one of the paths, if there is one; the error
\* of mapAndDrive is logged or ignored.
PublishRoute(paths, r, mode) ==
  IF paths = {} \/ mode = Explore
  THEN UNCHANGED topic
  ELSE \E p \in paths :
         topic' = topic \o Instructions(p, r.rotation, mode) \o <<End>>

\* Plan from the rover as it is after the report.
Replan(map, r) ==
  IF exploring
  THEN PublishRoute(ExplorationRoutes(map, r), r, FullDiscovery)
  ELSE PublishRoute(Routes(map, r, destination.tile), r, destination.mode)

-----------------------------------------------------------------------------
(***************************************************************************)
(* The drive sends the distance as the text of a float, with two decimals; *)
(* strconv.Atoi refuses it, and what it returns with the error is 0.       *)
(***************************************************************************)
Atoi(distance) == 0

(***************************************************************************)
(* instructionFeedPubHandler.  An instruction is put on the map when the   *)
(* next report comes; until then it is stashed.                            *)
(***************************************************************************)
IsForwardStop(m) == m.kind = "SD" /\ m.value # -1

\* An index is out of range: that of a tile to be marked or looked at, or of
\* the tile from which to plan.
Panics(m) ==
  LET move   == IF IsForwardStop(m) THEN Forward(Atoi(m.value)) ELSE stash
      moved  == After(rover, move)
      driven == IF m.kind = "S" THEN {} ELSE Indices(rover, move)
      front  == IF IsForwardStop(m) THEN {InFront(moved, Nothing)} ELSE {}
      faced  == IF m.kind \in TurnKinds \cup {"S"} /\ stash.kind \in TurnKinds
                THEN {InFront(rover, stash)} ELSE {}
  IN  \/ ~ (driven \cup front \cup faced) \subseteq Tiles
      \/ /\ m.kind = "SD" \/ (m.kind = "X" /\ exploring)
         /\ ~ OnMap(moved)
         /\ exploring => UnknownTiles(tiles) \ (driven \cup front) # {}

Receive(kinds) ==
  /\ alive
  /\ reports # <<>>
  /\ Head(reports).kind \in kinds
  /\ reports' = Tail(reports)

Handle(kinds) == Receive(kinds) /\ ~ Panics(Head(reports))

\* updateMap, on a map that the handler has changed before.
UpdateMap(map, i) ==
  /\ tiles' = Driven(map, rover, stash)
  /\ rover' = After(rover, stash)
  /\ stash' = i

\* Mutant: the instruction is put on the map at once.
HandleForward_NoStash ==
  /\ Handle({"forward"})
  /\ tiles' = Driven(tiles, rover, Head(reports))
  /\ rover' = After(rover, Head(reports))
  /\ stash' = Nothing
  /\ UNCHANGED <<topic, alive, stopData, destination, exploring, request>>

HandleForward ==
  /\ Handle({"forward"})
  /\ UpdateMap(tiles, Head(reports))
  /\ UNCHANGED <<topic, alive, stopData, destination, exploring, request>>

\* Until now nothing was seen in the direction of the turn before.
HandleTurn ==
  /\ Handle(TurnKinds)
  /\ UpdateMap(SeenWhileTurning(tiles, rover, stash, NoColour), Head(reports))
  /\ UNCHANGED <<topic, alive, stopData, destination, exploring, request>>

HandleEnd ==
  /\ Handle({"X"})
  /\ UpdateMap(tiles, Nothing)
  /\ IF exploring THEN Replan(tiles', rover') ELSE UNCHANGED topic
  /\ UNCHANGED <<alive, stopData, destination, exploring, request>>

\* Mutant: the handler waits for the second part of any stop.
HandleStop_AlwaysWaits ==
  /\ Handle({"S"})
  /\ stopData' = Head(reports).value
  /\ UNCHANGED <<topic, alive, tiles, rover, stash, destination, exploring, request>>

\* The first part of a stop.
HandleStop ==
  /\ Handle({"S"})
  /\ LET colour == Head(reports).value
     IN  IF stash.kind = "forward"
         THEN stopData' = colour /\ UNCHANGED tiles
         ELSE /\ tiles' = SeenWhileTurning(tiles, rover, stash, colour)
              /\ UNCHANGED stopData
  /\ UNCHANGED <<topic, alive, rover, stash, destination, exploring, request>>

(***************************************************************************)
(* The second part, "SD:-1" when the stop comes from a turn: complete the  *)
(* turn, whose obstacle is on the map already.                             *)
(***************************************************************************)
HandleTurnStop ==
  /\ Handle({"SD"})
  /\ Head(reports).value = -1
  /\ UpdateMap(tiles, Forward(0))
  /\ stopData' = NoColour
  /\ Replan(tiles', rover')
  /\ UNCHANGED <<alive, destination, exploring, request>>

HandleForwardStop ==
  /\ Handle({"SD"})
  /\ IsForwardStop(Head(reports))
  /\ LET distance == Forward(Atoi(Head(reports).value))
         stopped  == After(rover, distance)
         front    == InFront(stopped, Nothing)
     IN  /\ rover' = stopped
         /\ tiles' = [Driven(tiles, rover, distance)
                        EXCEPT ![front] = ObstacleValue(stopData)]
  /\ stash' = Forward(0)
  /\ stopData' = NoColour
  /\ Replan(tiles', rover')
  /\ UNCHANGED <<alive, destination, exploring, request>>

\* The backward with which control corrects the distance is ignored.
HandleBackward ==
  /\ Receive({"backward"})
  /\ UNCHANGED <<topic, serverVars>>

(***************************************************************************)
(* An index out of range, in the goroutine of the MQTT client, ends the    *)
(* server.  What the handler had done before the panic is lost with it.    *)
(***************************************************************************)
Panic ==
  /\ Receive(TurnKinds \cup {"forward", "X", "S", "SD"})
  /\ Panics(Head(reports))
  /\ alive' = FALSE
  /\ UNCHANGED <<topic, tiles, rover, stash, stopData, destination, exploring,
                 request>>

ReportNext ==
  \/ HandleForward \/ HandleTurn \/ HandleEnd \/ HandleStop
  \/ HandleTurnStop \/ HandleForwardStop \/ HandleBackward \/ Panic

-----------------------------------------------------------------------------
(***************************************************************************)
(* targetCoords.  mapAndDrive reads the rover's place and the map for the  *)
(* path, then its rotation for the instructions, then publishes them one   *)
(* by one.  Without a path the handler ends with an error.                 *)
(***************************************************************************)
FindPath(paths, mode, then) ==
  \E p \in paths :
    request' = [NoRequest EXCEPT !.path = p, !.mode = mode, !.then = then]

TargetCoords(t, mode) ==
  /\ alive
  /\ request = NoRequest
  /\ destination' = [tile |-> t, mode |-> mode]
  /\ LET paths == Routes(tiles, rover, t)
     IN  IF paths = {} THEN UNCHANGED request ELSE FindPath(paths, mode, destination')
  /\ UNCHANGED <<topics, alive, tiles, rover, stash, stopData, exploring>>

\* Mode 3: explore.  The destination is kept all the same, at the end, with
\* a mode that value2Mode refuses; a panic ends the request before that.
StartAutonomous(t) ==
  /\ alive
  /\ request = NoRequest
  /\ exploring' = TRUE
  /\ LET paths == ExplorationRoutes(tiles, rover)
         then  == [tile |-> t, mode |-> Explore]
     IN  IF paths = {}
         THEN /\ destination' = IF OnMap(rover) \/ UnknownTiles(tiles) = {}
                             THEN then ELSE destination
              /\ UNCHANGED request
         ELSE FindPath(paths, FullDiscovery, then) /\ UNCHANGED destination
  /\ UNCHANGED <<topics, alive, tiles, rover, stash, stopData>>

MakeInstructions ==
  /\ alive
  /\ request.path # <<>>
  /\ request' = [request EXCEPT
                   !.path = <<>>,
                   !.left = Instructions(request.path, rover.rotation, request.mode)
                              \o <<End>>]
  /\ UNCHANGED <<topics, alive, tiles, rover, stash, stopData, destination,
                 exploring>>

PublishNext ==
  /\ alive
  /\ request.left # <<>>
  /\ topic' = Append(topic, Head(request.left))
  /\ IF Len(request.left) = 1
     THEN request' = NoRequest /\ destination' = request.then
     ELSE request' = [request EXCEPT !.left = Tail(@)] /\ UNCHANGED destination
  /\ UNCHANGED <<reports, alive, tiles, rover, stash, stopData, exploring>>

RequestNext == MakeInstructions \/ PublishNext

\* driveD and driveA: a distance forward, or quarter turns one way.
ManualDrive(instructions) ==
  /\ alive
  /\ topic' = topic \o instructions \o <<End>>
  /\ UNCHANGED <<reports, serverVars>>

\* The web page only ever posts TRUE.
StopAutonomous ==
  /\ alive
  /\ exploring' = FALSE
  /\ UNCHANGED <<topics, alive, tiles, rover, stash, stopData, destination,
                 request>>

\* resetMap leaves the stash, the stop data and the destination as they are.
ResetMap ==
  /\ alive
  /\ tiles' = NewMap
  /\ rover' = NewRover
  /\ UNCHANGED <<topics, alive, stash, stopData, destination, exploring, request>>

=============================================================================
