---------------------------- MODULE MissionProofs ----------------------------
(***************************************************************************)
(* Server and rover together, for every field and every request: their     *)
(* types, and dead reckoning, from what the reports on their way will make *)
(* the server believe.                                                     *)
(***************************************************************************)
EXTENDS Mission, PlanProofs

-----------------------------------------------------------------------------
(***************************************************************************)
(* What is sent and kept: turns are by 90 degrees, and a path that waits   *)
(* for its instructions is one.                                            *)
(***************************************************************************)
Orders == Moves \cup {End}

Back == Report("backward", 0)

Sent == Orders \cup {Back}

Reports ==
  Sent \cup [kind : {"S"}, value : Colours] \cup [kind : {"SD"}, value : {-1} \cup Nat]

Stashes == Moves \cup {Nothing}

Values == {Unknown, Empty, Border} \cup 5..10

Maps == [Tiles -> Values]

Destinations == [tile : Tiles, mode : Simple..Explore]

IsRoute(p) == IsPath(p) /\ Len(p) > 1

IsRequest(q) ==
  /\ q = [path |-> q.path, mode |-> q.mode, left |-> q.left, then |-> q.then]
  /\ q.path = <<>> \/ IsRoute(q.path)
  /\ q.left \in Seq(Orders)
  /\ q.then \in Destinations

TopicsInv == topic \in Seq(Orders) /\ reports \in Seq(Reports)

ServerInv ==
  /\ alive \in BOOLEAN
  /\ tiles \in Maps
  /\ rover \in Rovers
  /\ stash \in Stashes
  /\ stopData \in Colours \cup {NoColour}
  /\ destination \in Destinations
  /\ exploring \in BOOLEAN
  /\ IsRequest(request)

FieldInv ==
  /\ DOMAIN world \subseteq Tiles
  /\ \A t \in DOMAIN world : world[t] \in Colours
  /\ body \in Rovers
  /\ queue \in Seq(Sent)
  /\ Len(queue) <= QueueLength
  /\ doing \in Stashes \cup {Back}
  /\ gone \in Nat
  /\ phase \in {"ready", "moving", "stopping"}
  /\ lastSent \in Colours \cup {"none"}

Types == TopicsInv /\ ServerInv /\ FieldInv /\ acts \in 0..MaxActs

LEMMA KindsAre ==
  /\ Moves \subseteq [kind : {"forward"} \cup TurnKinds, value : Nat]
  /\ End \in [kind : {"X"}, value : Nat]
  /\ Back \in [kind : {"backward"}, value : Nat]
  /\ Nothing \in [kind : {"nil"}, value : Nat]
BY DEF Moves, Forward, Right, Left, End, Back, Report, Nothing, TurnKinds

LEMMA SentAre ==
  /\ Orders \subseteq [kind : InstructionKinds, value : Nat]
  /\ Sent \subseteq [kind : InstructionKinds, value : Nat]
  /\ Stashes \subseteq [kind : TurnKinds \cup {"forward", "nil"}, value : Nat]
  /\ Sent \subseteq Reports
<1>1. Sent \subseteq Reports
  BY DEF Reports
<1>2. QED
  BY <1>1, KindsAre DEF Orders, Sent, Stashes, InstructionKinds, TurnKinds

LEMMA TypesOK == Types => TypeOK
<1>1. SUFFICES ASSUME Types PROVE TypeOK
  OBVIOUS
<1> DEFINE I == [kind : InstructionKinds, value : Nat]
<1>2. topic \in Seq(I) /\ queue \in Seq(I)
  <2>1. Orders \subseteq I /\ Sent \subseteq I
    BY SentAre
  <2> HIDE DEF I
  <2>2. QED
    BY <1>1, <2>1, SeqMonotonic DEF Types, TopicsInv, FieldInv
<1>3. \A i \in DOMAIN reports : reports[i] \in Reports
  BY <1>1, ElementOfSeq, LenProperties DEF Types, TopicsInv
<1>4. TopicsTypeOK
  BY <1>2, <1>3, SentAre DEF TopicsTypeOK, Reports
<1>5. ServerTypeOK
  <2>1. stash \in [kind : TurnKinds \cup {"forward", "nil"}, value : Nat]
    BY <1>1, SentAre DEF Types, ServerInv
  <2>2. DOMAIN request = DOMAIN NoRequest
    BY <1>1 DEF Types, ServerInv, IsRequest, NoRequest
  <2>3. QED
    BY <1>1, <2>1, <2>2 DEF Types, ServerInv, ServerTypeOK, Maps, Values, Rovers, Destinations
<1>6. FieldTypeOK
  <2>1. doing \in [kind : InstructionKinds \cup {"nil"}, value : Nat]
    BY <1>1, KindsAre DEF Types, FieldInv, Stashes, InstructionKinds, TurnKinds
  <2>2. QED
    BY <1>1, <1>2, <2>1 DEF Types, FieldInv, FieldTypeOK, Rovers
<1>7. QED
  BY <1>1, <1>4, <1>5, <1>6 DEF TypeOK, Types

LEMMA AfterStash ==
  ASSUME NEW r \in Rovers, NEW i \in Stashes
  PROVE  /\ After(r, i) \in Rovers
         /\ After(r, Nothing) = r
         /\ Ahead(r, 0) = r /\ After(r, Forward(0)) = r
<1>1. r = [x |-> r.x, y |-> r.y, rotation |-> r.rotation]
      /\ r.x \in Int /\ r.y \in Int /\ r.rotation \in Rotations
  BY DEF Rovers
<1>2. After(r, Nothing) = r
  BY <1>1 DEF After, Nothing, Turned, ChangeInRotation, Rotations
<1>3. Ahead(r, 0) = r
  <2>1. Across(r.rotation) \in Int /\ Down(r.rotation) \in Int
    BY DEF Across, Down
  <2>2. QED
    BY <1>1, <2>1 DEF Ahead
<1>4. After(r, Forward(0)) = r
  BY <1>3 DEF After, Forward
<1>5. After(r, i) \in Rovers
  BY <1>2, AfterIs DEF Stashes
<1>6. QED
  BY <1>2, <1>3, <1>4, <1>5

LEMMA MovesAre ==
  /\ Right \in Stashes /\ Left \in Stashes /\ Nothing \in Stashes
  /\ \A n \in Nat : Forward(n) \in Stashes /\ Forward(n) \in Moves
BY DEF Moves, Stashes

LEMMA ObstacleValues ==
  ASSUME NEW c
  PROVE  ObstacleValue(c) \in Values
BY DEF ObstacleValue, Values

LEMMA ZeroTile == 0 \in Tiles
BY SizeSquared DEF Tiles

LEMMA TypesInit == Init => Types
<1>1. SUFFICES ASSUME Init PROVE Types
  OBVIOUS
<1>2. TopicsInv
  BY <1>1 DEF Init, TopicsInit, TopicsInv
<1>3. NewRover \in Rovers
  BY StartAssumption, SizeAssumption DEF NewRover, Rovers, Rotations
<1>4. NewMap \in Maps
  BY DEF NewMap, Maps, Values
<1>5. NoDestination \in Destinations
  BY ZeroTile DEF NoDestination, Destinations, Simple, Explore
<1>6. ServerInv
  <2>1. IsRequest(NoRequest)
    BY <1>5 DEF IsRequest, NoRequest
  <2>2. QED
    BY <1>1, <1>3, <1>4, <1>5, <2>1, MovesAre DEF Init, ServerInit, ServerInv
<1>7. FieldInv
  <2>1. PICK S \in Obstacles :
          world = [t \in {o.tile : o \in S} |-> (CHOOSE o \in S : o.tile = t).colour]
    BY <1>1 DEF Init
  <2>2. S \subseteq [tile : Tiles, colour : Colours]
    BY MissionAssumption
  <2>3. ASSUME NEW t \in DOMAIN world PROVE world[t] \in Colours /\ t \in Tiles
    <3>1. PICK o \in S : o.tile = t
      BY <2>1, <2>3
    <3> DEFINE c == CHOOSE p \in S : p.tile = t
    <3>2. c \in S
      BY <3>1
    <3>3. world[t] = c.colour
      BY <2>1, <2>3
    <3> HIDE DEF c
    <3>4. QED
      BY <2>2, <3>1, <3>2, <3>3
  <2>4. <<>> \in Seq(Sent) /\ Len(<<>>) <= QueueLength
    BY FieldAssumption
  <2>5. QED
    BY <1>1, <1>3, <2>3, <2>4, MovesAre DEF Init, FieldInit, FieldInv
<1>8. acts \in 0..MaxActs
  BY <1>1, MissionAssumption DEF Init
<1>9. QED
  BY <1>2, <1>6, <1>7, <1>8 DEF Types

-----------------------------------------------------------------------------
(***************************************************************************)
(* The types, step by step.                                                *)
(***************************************************************************)
LEMMA SeqOfOrders ==
  ASSUME NEW s \in Seq(Orders), NEW u \in Seq(Moves)
  PROVE  s \o u \o <<End>> \in Seq(Orders) /\ u \o <<End>> \in Seq(Orders)
<1>1. Moves \subseteq Orders /\ End \in Orders
  BY DEF Orders
<1>2. u \in Seq(Orders) /\ <<End>> \in Seq(Orders)
  BY <1>1, SeqMonotonic
<1>3. s \o u \in Seq(Orders) /\ u \o <<End>> \in Seq(Orders)
  BY <1>2, ConcatProperties
<1>4. s \o u \o <<End>> \in Seq(Orders)
  BY <1>2, <1>3, ConcatProperties
<1>5. QED
  BY <1>3, <1>4

LEMMA RouteInstructions ==
  ASSUME NEW p, IsRoute(p), NEW a \in Rotations, NEW mode
  PROVE  Instructions(p, a, mode) \in Seq(Moves)
BY InstructionsLead DEF IsRoute, Leads

LEMMA RoutesAre ==
  ASSUME NEW map, NEW r \in Rovers, NEW to, NEW p \in Routes(map, r, to)
  PROVE  IsRoute(p)
<1>1. OnMap(r) /\ p \in ShortestPaths(map, Place(r), to)
  BY DEF Routes
<1>2. Place(r) \in Tiles
  BY <1>1, GridInverse DEF OnMap, Place
<1>3. QED
  BY <1>1, <1>2, ShortestPathsAreWalks, WalkIsPath DEF IsRoute

LEMMA ExplorationRoutesAre ==
  ASSUME NEW map, NEW r \in Rovers, NEW p \in ExplorationRoutes(map, r)
  PROVE  IsRoute(p)
BY RoutesAre DEF ExplorationRoutes

LEMMA PublishRouteTypes ==
  ASSUME topic \in Seq(Orders), NEW paths, \A p \in paths : IsRoute(p),
         NEW r \in Rovers, NEW mode, PublishRoute(paths, r, mode)
  PROVE  topic' \in Seq(Orders)
<1>1. r.rotation \in Rotations
  BY DEF Rovers
<1>2. CASE paths = {} \/ mode = Explore
  BY <1>2 DEF PublishRoute
<1>3. CASE ~ (paths = {} \/ mode = Explore)
  <2>1. PICK p \in paths : topic' = topic \o Instructions(p, r.rotation, mode) \o <<End>>
    BY <1>3 DEF PublishRoute
  <2>2. Instructions(p, r.rotation, mode) \in Seq(Moves)
    BY <1>1, RouteInstructions
  <2>3. QED
    BY <2>1, <2>2, SeqOfOrders
<1>4. QED
  BY <1>2, <1>3

LEMMA ReplanTypes ==
  ASSUME topic \in Seq(Orders), NEW map, NEW r \in Rovers, Replan(map, r)
  PROVE  topic' \in Seq(Orders)
<1>1. CASE exploring
  <2>1. PublishRoute(ExplorationRoutes(map, r), r, FullDiscovery)
    BY <1>1 DEF Replan
  <2>2. \A p \in ExplorationRoutes(map, r) : IsRoute(p)
    BY ExplorationRoutesAre
  <2>3. QED
    BY <2>1, <2>2, PublishRouteTypes
<1>2. CASE ~ exploring
  <2>1. PublishRoute(Routes(map, r, destination.tile), r, destination.mode)
    BY <1>2 DEF Replan
  <2>2. \A p \in Routes(map, r, destination.tile) : IsRoute(p)
    BY RoutesAre
  <2>3. QED
    BY <2>1, <2>2, PublishRouteTypes
<1>3. QED
  BY <1>1, <1>2

LEMMA ReportsTail ==
  ASSUME NEW X, NEW s \in Seq(X), s # <<>>
  PROVE  Head(s) \in X /\ Tail(s) \in Seq(X) /\ Len(Tail(s)) = Len(s) - 1
BY HeadTailProperties

LEMMA DrivenType ==
  ASSUME NEW map \in Maps, NEW r, NEW i
  PROVE  Driven(map, r, i) \in Maps
<1>1. Empty \in Values
  BY DEF Values
<1>2. QED
  BY <1>1 DEF Driven, Maps

LEMMA MapExcept ==
  ASSUME NEW map \in Maps, NEW t, NEW c
  PROVE  [map EXCEPT ![t] = ObstacleValue(c)] \in Maps
BY ObstacleValues DEF Maps

LEMMA SeenType ==
  ASSUME NEW map \in Maps, NEW r, NEW i, NEW c
  PROVE  SeenWhileTurning(map, r, i, c) \in Maps
BY MapExcept DEF SeenWhileTurning

\* The reports that carry a move.
LEMMA ReportKinds ==
  ASSUME NEW m \in Reports
  PROVE  /\ m.kind = "forward" \/ m.kind \in TurnKinds => m \in Moves
         /\ m.kind = "S" => m.value \in Colours
         /\ m.kind = "SD" => m.value \in {-1} \cup Nat
<1>1. m \in Moves \/ m = End \/ m = Back \/ m \in [kind : {"S"}, value : Colours]
      \/ m \in [kind : {"SD"}, value : {-1} \cup Nat]
  BY DEF Reports, Sent, Orders
<1>2. QED
  BY <1>1, KindsAre DEF TurnKinds

LEMMA ReportTypes ==
  ASSUME TopicsInv, ServerInv, ReportNext
  PROVE  TopicsInv' /\ ServerInv'
<1> DEFINE m == Head(reports)
<1>1. ASSUME NEW K, Receive(K)
      PROVE  alive /\ m \in Reports /\ m.kind \in K /\ reports' \in Seq(Reports)
  BY <1>1, ReportsTail DEF Receive, TopicsInv
<1>2. /\ tiles \in Maps /\ rover \in Rovers /\ stash \in Stashes /\ topic \in Seq(Orders)
      /\ \A i \in Stashes : After(rover, i) \in Rovers
  BY AfterStash DEF ServerInv, TopicsInv
<1>3. ASSUME NEW map \in Maps, NEW i \in Stashes, UpdateMap(map, i)
      PROVE  tiles' \in Maps /\ rover' \in Rovers /\ stash' \in Stashes
  BY <1>2, <1>3, DrivenType DEF UpdateMap
<1> HIDE DEF m
<1>4. CASE HandleForward
  <2>1. Receive({"forward"}) /\ UpdateMap(tiles, m)
        /\ UNCHANGED <<topic, alive, stopData, destination, exploring, request>>
    BY <1>4 DEF HandleForward, Handle, m
  <2>2. m \in Moves /\ m \in Stashes /\ reports' \in Seq(Reports)
    BY <1>1, <2>1, ReportKinds DEF Stashes
  <2>3. QED
    BY <1>2, <1>3, <2>1, <2>2 DEF TopicsInv, ServerInv
<1>5. CASE HandleTurn
  <2> DEFINE map == SeenWhileTurning(tiles, rover, stash, NoColour)
  <2>1. Receive(TurnKinds) /\ UpdateMap(map, m)
        /\ UNCHANGED <<topic, alive, stopData, destination, exploring, request>>
    BY <1>5 DEF HandleTurn, Handle, m
  <2>2. m \in Stashes /\ reports' \in Seq(Reports)
    BY <1>1, <2>1, ReportKinds DEF Stashes
  <2>3. map \in Maps
    BY <1>2, SeenType
  <2> HIDE DEF map
  <2>4. QED
    BY <1>2, <1>3, <2>1, <2>2, <2>3 DEF TopicsInv, ServerInv
<1>6. CASE HandleEnd
  <2>1. Receive({"X"}) /\ UpdateMap(tiles, Nothing)
        /\ UNCHANGED <<alive, stopData, destination, exploring, request>>
        /\ IF exploring THEN Replan(tiles', rover') ELSE UNCHANGED topic
    BY <1>6 DEF HandleEnd, Handle
  <2>2. tiles' \in Maps /\ rover' \in Rovers /\ stash' \in Stashes /\ reports' \in Seq(Reports)
    BY <1>1, <1>2, <1>3, <2>1, MovesAre
  <2>3. topic' \in Seq(Orders)
    <3>1. CASE exploring
      BY <1>2, <2>1, <2>2, <3>1, ReplanTypes
    <3>2. CASE ~ exploring
      BY <1>2, <2>1, <3>2
    <3>3. QED
      BY <3>1, <3>2
  <2>4. QED
    BY <2>1, <2>2, <2>3 DEF TopicsInv, ServerInv
<1>7. CASE HandleStop
  <2>1. Receive({"S"}) /\ UNCHANGED <<topic, alive, rover, stash, destination, exploring, request>>
        /\ \/ stopData' = m.value /\ UNCHANGED tiles
           \/ tiles' = SeenWhileTurning(tiles, rover, stash, m.value) /\ UNCHANGED stopData
    BY <1>7 DEF HandleStop, Handle, m
  <2>2. m.value \in Colours /\ reports' \in Seq(Reports)
    BY <1>1, <2>1, ReportKinds
  <2>3. tiles' \in Maps
    BY <1>2, <2>1, SeenType
  <2>4. QED
    BY <1>2, <2>1, <2>2, <2>3 DEF TopicsInv, ServerInv
<1>8. CASE HandleTurnStop
  <2>1. Receive({"SD"}) /\ UpdateMap(tiles, Forward(0)) /\ stopData' = NoColour
        /\ Replan(tiles', rover') /\ UNCHANGED <<alive, destination, exploring, request>>
    BY <1>8 DEF HandleTurnStop, Handle
  <2>2. tiles' \in Maps /\ rover' \in Rovers /\ stash' \in Stashes /\ reports' \in Seq(Reports)
    BY <1>1, <1>2, <1>3, <2>1, MovesAre
  <2>3. topic' \in Seq(Orders)
    BY <1>2, <2>1, <2>2, ReplanTypes
  <2>4. QED
    BY <2>1, <2>2, <2>3 DEF TopicsInv, ServerInv
<1>9. CASE HandleForwardStop
  <2> DEFINE distance == Forward(Atoi(Head(reports).value))
             stopped == After(rover, distance)
             front == InFront(stopped, Nothing)
  <2>1. Receive({"SD"}) /\ stash' = Forward(0) /\ stopData' = NoColour
        /\ rover' = stopped
        /\ tiles' = [Driven(tiles, rover, distance) EXCEPT ![front] = ObstacleValue(stopData)]
        /\ Replan(tiles', rover') /\ UNCHANGED <<alive, destination, exploring, request>>
    BY <1>9 DEF HandleForwardStop, Handle
  <2>2. distance \in Stashes
    BY MovesAre DEF Atoi
  <2> HIDE DEF distance
  <2>3. stopped \in Rovers /\ Driven(tiles, rover, distance) \in Maps
    BY <1>2, <2>2, DrivenType
  <2> HIDE DEF stopped, front
  <2>4. tiles' \in Maps /\ rover' \in Rovers /\ stash' \in Stashes /\ reports' \in Seq(Reports)
    BY <1>1, <2>1, <2>3, MapExcept, MovesAre
  <2>5. topic' \in Seq(Orders)
    BY <1>2, <2>1, <2>4, ReplanTypes
  <2>6. QED
    BY <2>1, <2>4, <2>5 DEF TopicsInv, ServerInv
<1>10. CASE HandleBackward
  <2>1. Receive({"backward"}) /\ UNCHANGED <<topic, serverVars>>
    BY <1>10 DEF HandleBackward
  <2>2. QED
    BY <1>1, <1>2, <2>1 DEF TopicsInv, ServerInv, serverVars
<1>11. CASE Panic
  <2>1. Receive(TurnKinds \cup {"forward", "X", "S", "SD"}) /\ alive' = FALSE
        /\ UNCHANGED <<topic, tiles, rover, stash, stopData, destination, exploring, request>>
    BY <1>11 DEF Panic
  <2>2. QED
    BY <1>1, <1>2, <2>1 DEF TopicsInv, ServerInv
<1>12. QED
  BY <1>4, <1>5, <1>6, <1>7, <1>8, <1>9, <1>10, <1>11 DEF ReportNext


LEMMA NoRequestIs == NoDestination \in Destinations /\ IsRequest(NoRequest)
<1>1. NoDestination \in Destinations
  BY ZeroTile DEF NoDestination, Destinations, Simple, Explore
<1>2. QED
  BY <1>1 DEF IsRequest, NoRequest

LEMMA RequestTypes ==
  ASSUME TopicsInv, ServerInv, RequestNext
  PROVE  TopicsInv' /\ ServerInv'
<1>1. IsRequest(request) /\ rover.rotation \in Rotations /\ topic \in Seq(Orders)
  BY DEF ServerInv, TopicsInv, Rovers
<1>2. CASE MakeInstructions
  <2> DEFINE d == Instructions(request.path, rover.rotation, request.mode) \o <<End>>
  <2>1. request' = [request EXCEPT !.path = <<>>, !.left = d]
        /\ request.path # <<>>
        /\ UNCHANGED <<topics, alive, tiles, rover, stash, stopData, destination, exploring>>
    BY <1>2 DEF MakeInstructions
  <2>2. d \in Seq(Orders)
    <3>1. IsRoute(request.path)
      BY <1>1, <2>1 DEF IsRequest
    <3>2. Instructions(request.path, rover.rotation, request.mode) \in Seq(Moves)
      BY <1>1, <3>1, RouteInstructions
    <3>3. <<>> \in Seq(Orders)
      OBVIOUS
    <3>4. QED
      BY <3>2, <3>3, SeqOfOrders
  <2> HIDE DEF d
  <2>3. IsRequest(request')
    BY <1>1, <2>1, <2>2 DEF IsRequest
  <2>4. QED
    BY <2>1, <2>3 DEF TopicsInv, ServerInv, topics
<1>3. CASE PublishNext
  <2>1. /\ request.left # <<>> /\ topic' = Append(topic, Head(request.left))
        /\ IF Len(request.left) = 1
           THEN request' = NoRequest /\ destination' = request.then
           ELSE request' = [request EXCEPT !.left = Tail(@)] /\ UNCHANGED destination
        /\ UNCHANGED <<reports, alive, tiles, rover, stash, stopData, exploring>>
    BY <1>3 DEF PublishNext
  <2>2. request.left \in Seq(Orders) /\ request.then \in Destinations
    BY <1>1 DEF IsRequest
  <2>3. Head(request.left) \in Orders /\ Tail(request.left) \in Seq(Orders)
    BY <2>1, <2>2, ReportsTail
  <2>4. topic' \in Seq(Orders)
    BY <1>1, <2>1, <2>3, AppendProperties
  <2>5. IsRequest(request') /\ destination' \in Destinations
    <3>1. CASE Len(request.left) = 1
      BY <2>1, <2>2, <3>1, NoRequestIs
    <3>2. CASE Len(request.left) # 1
      <4>1. request' = [request EXCEPT !.left = Tail(request.left)] /\ destination' = destination
        BY <2>1, <3>2
      <4>2. IsRequest(request')
        BY <1>1, <2>3, <4>1 DEF IsRequest
      <4>3. QED
        BY <4>1, <4>2 DEF ServerInv
    <3>3. QED
      BY <3>1, <3>2
  <2>6. QED
    BY <2>1, <2>4, <2>5 DEF TopicsInv, ServerInv
<1>4. QED
  BY <1>2, <1>3 DEF RequestNext

LEMMA FindPathTypes ==
  ASSUME NEW paths, \A p \in paths : IsRoute(p), NEW mode, NEW then \in Destinations,
         FindPath(paths, mode, then)
  PROVE  IsRequest(request')
<1>1. PICK p \in paths :
        request' = [NoRequest EXCEPT !.path = p, !.mode = mode, !.then = then]
  BY DEF FindPath
<1>2. IsRoute(p)
  BY <1>1
<1>3. request' = [path |-> p, mode |-> mode, left |-> <<>>, then |-> then]
  BY <1>1 DEF NoRequest
<1>4. QED
  BY <1>2, <1>3 DEF IsRequest

LEMMA AskTypes ==
  ASSUME Types, AskForTarget
  PROVE  Types'
<1>1. PICK t \in Targets, m \in Modes :
        IF m = Explore THEN StartAutonomous(t) ELSE TargetCoords(t, m)
  BY DEF AskForTarget
<1>2. acts' \in 0..MaxActs /\ FieldInv'
  <2>1. Act /\ UNCHANGED fieldVars
    BY DEF AskForTarget
  <2>2. acts' \in 0..MaxActs
    BY <2>1, MissionAssumption DEF Act, Types
  <2>3. QED
    BY <2>1, <2>2 DEF Types, FieldInv, fieldVars
<1>3. ServerInv /\ TopicsInv
  BY DEF Types
<1>4. [tile |-> t, mode |-> m] \in Destinations
  BY MissionAssumption DEF Destinations
<1>5. CASE m = Explore
  <2> DEFINE paths == ExplorationRoutes(tiles, rover)
             then == [tile |-> t, mode |-> Explore]
  <2>1. /\ exploring' = TRUE
        /\ UNCHANGED <<topics, alive, tiles, rover, stash, stopData>>
        /\ IF paths = {}
           THEN destination' \in {then, destination} /\ UNCHANGED request
           ELSE FindPath(paths, FullDiscovery, then) /\ UNCHANGED destination
    BY <1>1, <1>5 DEF StartAutonomous
  <2>2. \A p \in paths : IsRoute(p)
    BY <1>3, ExplorationRoutesAre DEF ServerInv
  <2>3. then \in Destinations
    BY <1>4, <1>5
  <2> HIDE DEF paths, then
  <2>4. IsRequest(request') /\ destination' \in Destinations
    <3>1. IsRequest(request) /\ destination \in Destinations
      BY <1>3 DEF ServerInv
    <3>2. CASE paths = {}
      BY <2>1, <2>3, <3>1, <3>2
    <3>3. CASE paths # {}
      BY <2>1, <2>2, <2>3, <3>1, <3>3, FindPathTypes
    <3>4. QED
      BY <3>2, <3>3
  <2>5. QED
    BY <1>2, <1>3, <2>1, <2>4 DEF Types, TopicsInv, ServerInv, topics
<1>6. CASE m # Explore
  <2> DEFINE paths == Routes(tiles, rover, t)
  <2>1. /\ destination' = [tile |-> t, mode |-> m]
        /\ IF paths = {} THEN UNCHANGED request ELSE FindPath(paths, m, destination')
        /\ UNCHANGED <<topics, alive, tiles, rover, stash, stopData, exploring>>
    BY <1>1, <1>6 DEF TargetCoords
  <2>2. \A p \in paths : IsRoute(p)
    BY <1>3, RoutesAre DEF ServerInv
  <2> HIDE DEF paths
  <2>3. destination' \in Destinations
    BY <1>4, <2>1
  <2>4. IsRequest(request')
    <3>1. CASE paths = {}
      BY <1>3, <2>1, <3>1 DEF ServerInv
    <3>2. CASE paths # {}
      BY <2>1, <2>2, <2>3, <3>2, FindPathTypes
    <3>3. QED
      BY <3>1, <3>2
  <2>5. QED
    BY <1>2, <1>3, <2>1, <2>3, <2>4 DEF Types, TopicsInv, ServerInv, topics
<1>7. QED
  BY <1>5, <1>6

LEMMA ManualTypes ==
  ASSUME Types, DriveManually
  PROVE  Types'
<1>1. Act /\ UNCHANGED fieldVars
  BY DEF DriveManually
<1>2. PICK s \in {<<Forward(n)>> : n \in Steps} \cup {<<Right>>, <<Left, Left>>} :
        ManualDrive(s)
  BY DEF DriveManually
<1>3. s \in Seq(Moves)
  <2>1. Right \in Moves /\ Left \in Moves /\ \A n \in Steps : Forward(n) \in Moves
    BY MissionAssumption DEF Moves
  <2>2. <<Right>> \in Seq(Moves) /\ <<Left, Left>> \in Seq(Moves)
        /\ \A n \in Steps : <<Forward(n)>> \in Seq(Moves)
    BY <2>1
  <2>3. QED
    BY <1>2, <2>2
<1>4. topic' = topic \o s \o <<End>> /\ UNCHANGED <<reports, serverVars>>
  BY <1>2 DEF ManualDrive
<1>5. TopicsInv'
  BY <1>3, <1>4, SeqOfOrders DEF Types, TopicsInv
<1>6. ServerInv'
  BY <1>4 DEF Types, ServerInv, serverVars
<1>7. FieldInv' /\ acts' \in 0..MaxActs
  BY <1>1, MissionAssumption DEF Types, FieldInv, fieldVars, Act
<1>8. QED
  BY <1>5, <1>6, <1>7 DEF Types

LEMMA ResetTypes ==
  ASSUME Types, Reset
  PROVE  Types'
<1>1. NewRover \in Rovers
  BY StartAssumption, SizeAssumption DEF NewRover, Rovers, Rotations
<1>2. NewMap \in Maps
  BY DEF NewMap, Maps, Values
<1>3. /\ tiles' = NewMap /\ rover' = NewRover /\ body' = NewRover
      /\ UNCHANGED <<topics, alive, stash, stopData, destination, exploring, request>>
      /\ UNCHANGED <<world, queue, doing, gone, phase, lastSent>>
      /\ Act
  BY DEF Reset, ResetMap
<1>4. TopicsInv' /\ ServerInv'
  BY <1>1, <1>2, <1>3 DEF Types, TopicsInv, ServerInv, topics
<1>5. FieldInv'
  BY <1>1, <1>3 DEF Types, FieldInv
<1>6. acts' \in 0..MaxActs
  BY <1>3, MissionAssumption DEF Types, Act
<1>7. QED
  BY <1>4, <1>5, <1>6 DEF Types


LEMMA SayTypes ==
  ASSUME reports \in Seq(Reports), NEW s \in Seq(Reports), Say(s)
  PROVE  reports' \in Seq(Reports)
BY ConcatProperties DEF Say

\* The obstacle in sight.
LEMMA SightTypes ==
  ASSUME FieldInv, InSight
  PROVE  world[Faced] \in Colours
BY DEF FieldInv, InSight

LEMMA StartTypes ==
  ASSUME TopicsInv, FieldInv, StartNext
  PROVE  TopicsInv' /\ FieldInv'
<1>1. /\ queue # <<>> /\ queue' = Tail(queue)
      /\ Say(<<Head(queue)>>)
      /\ IF Head(queue).kind = "X"
         THEN UNCHANGED <<doing, phase>>
         ELSE doing' = Head(queue) /\ phase' = "moving"
      /\ UNCHANGED <<topic, world, body, gone, lastSent>>
  BY DEF StartNext
<1>2. queue \in Seq(Sent) /\ Len(queue) <= QueueLength
  BY DEF FieldInv
<1>3. Head(queue) \in Sent /\ queue' \in Seq(Sent) /\ Len(queue') = Len(queue) - 1
  BY <1>1, <1>2, ReportsTail
<1>4. reports' \in Seq(Reports)
  <2>1. Head(queue) \in Reports
    BY <1>3, SentAre
  <2>2. <<Head(queue)>> \in Seq(Reports)
    BY <2>1
  <2>3. QED
    BY <1>1, <2>2, SayTypes DEF TopicsInv
<1>5. doing' \in Stashes \cup {Back} /\ phase' \in {"ready", "moving", "stopping"}
  <2>1. CASE Head(queue).kind = "X"
    BY <1>1, <2>1 DEF FieldInv
  <2>2. CASE Head(queue).kind # "X"
    <3>1. Head(queue) # End
      BY <2>2 DEF End
    <3>2. QED
      BY <1>1, <1>3, <2>2, <3>1 DEF Sent, Orders, Stashes
  <2>3. QED
    BY <2>1, <2>2
<1>6. Len(queue') <= QueueLength
  BY <1>2, <1>3, LenProperties, FieldAssumption
<1>7. QED
  BY <1>1, <1>3, <1>4, <1>5, <1>6 DEF TopicsInv, FieldInv

LEMMA QueueTypes ==
  ASSUME NEW q \in Seq(Sent), NEW i \in Sent, Len(q) <= QueueLength
  PROVE  LET r == IF Len(q) < QueueLength THEN Append(q, i) ELSE q
         IN  r \in Seq(Sent) /\ Len(r) <= QueueLength
<1>1. Append(q, i) \in Seq(Sent) /\ Len(Append(q, i)) = Len(q) + 1 /\ Len(q) \in Nat
  BY AppendProperties, LenProperties
<1>2. QED
  BY <1>1, FieldAssumption

LEMMA CompleteTypes ==
  ASSUME Complete
  PROVE  doing' \in Stashes \cup {Back} /\ gone' \in Nat /\ phase' \in {"ready", "moving", "stopping"}
BY MovesAre DEF Complete

\* Only a turn has the kind of a turn.
LEMMA DoingKinds ==
  ASSUME NEW i \in Stashes \cup {Back}
  PROVE  /\ i.kind = "forward" \/ i.kind \in TurnKinds => i \in Moves
         /\ i.kind = "forward" => i = Forward(i.value) /\ i.value \in Nat
         /\ i.kind \in TurnKinds => i = Right \/ i = Left
<1>1. i \in Moves \/ i = Nothing \/ i = Back
  BY DEF Stashes
<1>2. i.kind = "forward" \/ i.kind \in TurnKinds => i \in Moves
  BY <1>1 DEF Nothing, Back, Report, TurnKinds
<1>3. QED
  BY <1>2, MoveKinds DEF TurnKinds, Forward

LEMMA MoveTypes ==
  ASSUME TopicsInv, FieldInv, MoveNext
  PROVE  TopicsInv' /\ FieldInv'
<1>1. /\ queue \in Seq(Sent) /\ Len(queue) <= QueueLength
      /\ body \in Rovers /\ doing \in Stashes \cup {Back} /\ gone \in Nat
      /\ topic \in Seq(Orders) /\ reports \in Seq(Reports)
      /\ <<>> \in Seq(Sent) /\ Len(<<>>) <= QueueLength
  BY FieldAssumption DEF FieldInv, TopicsInv
<1>2. CASE Deliver
  <2>1. /\ topic # <<>> /\ topic' = Tail(topic)
        /\ queue' = IF Len(queue) < QueueLength THEN Append(queue, Head(topic)) ELSE queue
        /\ UNCHANGED <<reports, world, body, doing, gone, phase, lastSent>>
    BY <1>2 DEF Deliver
  <2>2. Head(topic) \in Orders /\ topic' \in Seq(Orders)
    BY <1>1, <2>1, ReportsTail
  <2>3. Head(topic) \in Sent
    BY <2>2 DEF Sent
  <2>4. queue' \in Seq(Sent) /\ Len(queue') <= QueueLength
    BY <1>1, <2>1, <2>3, QueueTypes
  <2>5. QED
    BY <2>1, <2>2, <2>4 DEF TopicsInv, FieldInv
<1>3. CASE Advance
  <2>1. body' = Ahead(body, 1) /\ gone' = gone + 1
        /\ UNCHANGED <<topics, world, queue, doing, phase, lastSent>>
    BY <1>3 DEF Advance
  <2>2. body' \in Rovers
    BY <1>1, <2>1, AheadIs
  <2>3. QED
    BY <1>1, <2>1, <2>2 DEF TopicsInv, FieldInv, topics
<1>4. CASE Arrive
  <2>1. body' = (IF Turning THEN After(body, doing) ELSE body)
        /\ Complete /\ UNCHANGED <<topics, world, queue, lastSent>>
    BY <1>4 DEF Arrive
  <2>2. body' \in Rovers
    <3>1. CASE Turning
      <4>1. doing \in Moves
        BY <1>1, <3>1, DoingKinds DEF Turning
      <4>2. QED
        BY <1>1, <2>1, <3>1, <4>1, AfterIs
    <3>2. CASE ~ Turning
      BY <1>1, <2>1, <3>2
    <3>3. QED
      BY <3>1, <3>2
  <2>3. QED
    BY <1>1, <2>1, <2>2, CompleteTypes DEF TopicsInv, FieldInv, topics
<1>5. CASE StopForward
  <2>1. /\ lastSent' = world[Faced] /\ phase' = "stopping" /\ queue' = <<>>
        /\ Say(<<Report("S", world[Faced])>>) /\ UNCHANGED <<topic, world, body, doing, gone>>
    BY <1>5 DEF StopForward
  <2>2. world[Faced] \in Colours
    BY <1>5, SightTypes DEF StopForward
  <2>3. <<Report("S", world[Faced])>> \in Seq(Reports)
    <3>1. Report("S", world[Faced]) \in Reports
      BY <2>2 DEF Report, Reports
    <3>2. QED
      BY <3>1
  <2>4. reports' \in Seq(Reports)
    BY <1>1, <2>1, <2>3, SayTypes
  <2>5. QED
    BY <1>1, <2>1, <2>2, <2>4 DEF TopicsInv, FieldInv
<1>6. CASE ReportDistance
  <2>1. /\ queue' = (IF Len(queue) < QueueLength THEN Append(queue, Back) ELSE queue)
        /\ Say(<<Report("SD", gone)>>) /\ Complete
        /\ UNCHANGED <<topic, world, body, lastSent>>
    BY <1>6 DEF ReportDistance, Back
  <2>2. queue' \in Seq(Sent) /\ Len(queue') <= QueueLength
    BY <1>1, <2>1, QueueTypes DEF Sent
  <2>3. <<Report("SD", gone)>> \in Seq(Reports)
    <3>1. Report("SD", gone) \in Reports
      BY <1>1 DEF Report, Reports
    <3>2. QED
      BY <3>1
  <2>4. reports' \in Seq(Reports)
    BY <1>1, <2>1, <2>3, SayTypes
  <2>5. QED
    BY <1>1, <2>1, <2>2, <2>4, CompleteTypes DEF TopicsInv, FieldInv
<1>7. CASE SeeWhileTurning
  <2> DEFINE S == Report("S", world[Faced])
  <2>1. /\ lastSent' = world[Faced]
        /\ \/ Say(<<S, Report("SD", -1)>>) /\ queue' = <<>>
           \/ Say(<<S>>) /\ UNCHANGED queue
        /\ UNCHANGED <<topic, world, body, doing, gone, phase>>
    BY <1>7 DEF SeeWhileTurning
  <2>2. world[Faced] \in Colours
    BY <1>7, SightTypes DEF SeeWhileTurning
  <2>3. S \in Reports /\ Report("SD", -1) \in Reports
    BY <2>2 DEF Report, Reports
  <2> HIDE DEF S
  <2>4. <<S>> \in Seq(Reports) /\ <<S, Report("SD", -1)>> \in Seq(Reports)
    BY <2>3
  <2>5. reports' \in Seq(Reports)
    BY <1>1, <2>1, <2>4, SayTypes
  <2>6. queue' \in Seq(Sent) /\ Len(queue') <= QueueLength
    BY <1>1, <2>1
  <2>7. QED
    BY <1>1, <2>1, <2>2, <2>5, <2>6 DEF TopicsInv, FieldInv
<1>8. QED
  BY <1>2, <1>3, <1>4, <1>5, <1>6, <1>7 DEF MoveNext

LEMMA TypesStep == Types /\ [Next]_vars => Types'
<1> SUFFICES ASSUME Types, [Next]_vars PROVE Types'
  OBVIOUS
<1>1. TopicsInv /\ ServerInv /\ FieldInv /\ acts \in 0..MaxActs
  BY DEF Types
<1>2. CASE AskForTarget
  BY <1>2, AskTypes
<1>3. CASE DriveManually
  BY <1>3, ManualTypes
<1>4. CASE EndExploration
  BY <1>1, <1>4 DEF EndExploration, StopAutonomous, Types, TopicsInv, ServerInv, FieldInv,
    fieldVars, topics
<1>5. CASE Reset
  BY <1>5, ResetTypes
<1>6. CASE HandleReport
  <2>1. TopicsInv' /\ ServerInv' /\ UNCHANGED <<fieldVars, acts>>
    BY <1>1, <1>6, ReportTypes DEF HandleReport
  <2>2. QED
    BY <1>1, <2>1 DEF Types, FieldInv, fieldVars
<1>7. CASE HandleRequest
  <2>1. TopicsInv' /\ ServerInv' /\ UNCHANGED <<fieldVars, acts>>
    BY <1>1, <1>7, RequestTypes DEF HandleRequest
  <2>2. QED
    BY <1>1, <2>1 DEF Types, FieldInv, fieldVars
<1>8. CASE Start
  <2>1. TopicsInv' /\ FieldInv' /\ UNCHANGED <<serverVars, acts>>
    BY <1>1, <1>8, StartTypes DEF Start
  <2>2. QED
    BY <1>1, <2>1 DEF Types, ServerInv, serverVars
<1>9. CASE Move
  <2>1. TopicsInv' /\ FieldInv' /\ UNCHANGED <<serverVars, acts>>
    BY <1>1, <1>9, MoveTypes DEF Move
  <2>2. QED
    BY <1>1, <2>1 DEF Types, ServerInv, serverVars
<1>10. CASE UNCHANGED vars
  BY <1>1, <1>10 DEF vars, Types, TopicsInv, ServerInv, FieldInv, serverVars, fieldVars, topics
<1>11. QED
  BY <1>2, <1>3, <1>4, <1>5, <1>6, <1>7, <1>8, <1>9, <1>10 DEF Next

LEMMA TypesInvariant == Spec => []Types
<1>1. QED
  BY TypesInit, TypesStep, PTL DEF Spec

(***************************************************************************)
(* Whatever the operator asks for and the rover meets, the map has a value *)
(* for each tile and no other, the queue of control is not overrun, and    *)
(* what waits on the topics is an instruction or a report of the protocol. *)
(***************************************************************************)
THEOREM MissionIsTyped == Spec => []TypeOK
<1>1. QED
  BY TypesInvariant, TypesOK, PTL


-----------------------------------------------------------------------------
(***************************************************************************)
(* What the server believes: the rover before its last instruction, that   *)
(* instruction, the map, and the stop whose distance is to come.  Each     *)
(* report changes the belief.  The reports on their way lead from the      *)
(* belief the server has to the one that it is to have; what holds between *)
(* the rover and that one is the invariant.                                *)
(***************************************************************************)
Beliefs ==
  [rover : Rovers, stash : Stashes, tiles : Maps, stopData : Colours \cup {NoColour}]

Belief == [rover |-> rover, stash |-> stash, tiles |-> tiles, stopData |-> stopData]

Expected(b) == After(b.rover, b.stash)

Updated(b, map, i) ==
  [b EXCEPT !.rover = Expected(b), !.stash = i, !.tiles = Driven(map, b.rover, b.stash)]

StopMarked(b) ==
  [Driven(b.tiles, b.rover, Forward(0))
     EXCEPT ![InFront(b.rover, Nothing)] = ObstacleValue(b.stopData)]

Hears(b, m) ==
  CASE m.kind = "forward" -> Updated(b, b.tiles, m)
    [] m.kind \in TurnKinds ->
         Updated(b, SeenWhileTurning(b.tiles, b.rover, b.stash, NoColour), m)
    [] m.kind = "X" -> Updated(b, b.tiles, Nothing)
    [] m.kind = "S" ->
         IF b.stash.kind = "forward"
         THEN [b EXCEPT !.stopData = m.value]
         ELSE [b EXCEPT !.tiles = SeenWhileTurning(b.tiles, b.rover, b.stash, m.value)]
    [] m.kind = "SD" ->
         IF m.value = -1
         THEN [Updated(b, b.tiles, Forward(0)) EXCEPT !.stopData = NoColour]
         ELSE [b EXCEPT !.stash = Forward(0), !.tiles = StopMarked(b), !.stopData = NoColour]
    [] OTHER -> b

\* The reports s lead from the belief b to c, through beliefs of V.
Told(V, b, s, c) ==
  \E t \in [1..(Len(s) + 1) -> V] :
    /\ t[1] = b /\ t[Len(s) + 1] = c
    /\ \A i \in 1..Len(s) : t[i + 1] = Hears(t[i], s[i])

LEMMA BeliefIs ==
  ASSUME NEW b \in Beliefs
  PROVE  /\ b.rover \in Rovers /\ b.stash \in Stashes /\ b.tiles \in Maps
         /\ b.stopData \in Colours \cup {NoColour}
         /\ Expected(b) \in Rovers
BY AfterStash DEF Beliefs, Expected

LEMMA BeliefType ==
  ASSUME ServerInv
  PROVE  Belief \in Beliefs
BY DEF ServerInv, Belief, Beliefs

LEMMA UpdatedIs ==
  ASSUME NEW b \in Beliefs, NEW map, NEW i
  PROVE  /\ Updated(b, map, i).rover = Expected(b)
         /\ Updated(b, map, i).stash = i
         /\ Updated(b, map, i).tiles = Driven(map, b.rover, b.stash)
         /\ Updated(b, map, i).stopData = b.stopData
         /\ Updated(b, map, i) = [rover |-> Expected(b), stash |-> i,
                                  tiles |-> Driven(map, b.rover, b.stash),
                                  stopData |-> b.stopData]
         /\ map \in Maps /\ i \in Stashes => Updated(b, map, i) \in Beliefs
<1> DEFINE driven == Driven(map, b.rover, b.stash)
<1>1. b = [rover |-> b.rover, stash |-> b.stash, tiles |-> b.tiles, stopData |-> b.stopData]
  BY DEF Beliefs
<1>2. Updated(b, map, i) = [b EXCEPT !.rover = Expected(b), !.stash = i, !.tiles = driven]
  BY DEF Updated
<1>3. map \in Maps => driven \in Maps
  BY DrivenType
<1>4. Expected(b) \in Rovers /\ b.stopData \in Colours \cup {NoColour}
  BY BeliefIs
<1> HIDE DEF driven
<1>5. Updated(b, map, i) =
        [rover |-> Expected(b), stash |-> i, tiles |-> driven, stopData |-> b.stopData]
  BY <1>1, <1>2
<1>6. QED
  BY <1>3, <1>4, <1>5 DEF Beliefs, driven

\* What each report makes of a belief.
LEMMA HearsIs ==
  ASSUME NEW b \in Beliefs, NEW m
  PROVE  /\ m.kind = "forward" => Hears(b, m) = Updated(b, b.tiles, m)
         /\ m.kind \in TurnKinds =>
              Hears(b, m) =
                Updated(b, SeenWhileTurning(b.tiles, b.rover, b.stash, NoColour), m)
         /\ m.kind = "X" => Hears(b, m) = Updated(b, b.tiles, Nothing)
         /\ m.kind = "S" /\ b.stash.kind = "forward" =>
              Hears(b, m) = [rover |-> b.rover, stash |-> b.stash, tiles |-> b.tiles,
                             stopData |-> m.value]
         /\ m.kind = "S" /\ b.stash.kind # "forward" =>
              Hears(b, m) = [rover |-> b.rover, stash |-> b.stash,
                             tiles |-> SeenWhileTurning(b.tiles, b.rover, b.stash, m.value),
                             stopData |-> b.stopData]
         /\ m.kind = "SD" /\ m.value = -1 =>
              Hears(b, m) = [rover |-> Expected(b), stash |-> Forward(0),
                             tiles |-> Driven(b.tiles, b.rover, b.stash),
                             stopData |-> NoColour]
         /\ m.kind = "SD" /\ m.value # -1 =>
              Hears(b, m) = [rover |-> b.rover, stash |-> Forward(0), tiles |-> StopMarked(b),
                             stopData |-> NoColour]
         /\ m.kind = "backward" => Hears(b, m) = b
<1>1. b = [rover |-> b.rover, stash |-> b.stash, tiles |-> b.tiles, stopData |-> b.stopData]
  BY DEF Beliefs
<1>2. m.kind = "forward" => Hears(b, m) = Updated(b, b.tiles, m)
  BY DEF Hears, TurnKinds
<1>3. m.kind \in TurnKinds =>
        Hears(b, m) = Updated(b, SeenWhileTurning(b.tiles, b.rover, b.stash, NoColour), m)
  BY DEF Hears, TurnKinds
<1>4. m.kind = "X" => Hears(b, m) = Updated(b, b.tiles, Nothing)
  BY DEF Hears, TurnKinds
<1>5. m.kind = "S" =>
        Hears(b, m) =
          IF b.stash.kind = "forward"
          THEN [b EXCEPT !.stopData = m.value]
          ELSE [b EXCEPT !.tiles = SeenWhileTurning(b.tiles, b.rover, b.stash, m.value)]
  BY DEF Hears, TurnKinds
<1>6. m.kind = "SD" /\ m.value = -1 =>
        Hears(b, m) = [Updated(b, b.tiles, Forward(0)) EXCEPT !.stopData = NoColour]
  BY DEF Hears, TurnKinds
<1>7. m.kind = "SD" /\ m.value # -1 =>
        Hears(b, m) =
          [b EXCEPT !.stash = Forward(0), !.tiles = StopMarked(b), !.stopData = NoColour]
  BY DEF Hears, TurnKinds
<1>8. m.kind = "backward" => Hears(b, m) = b
  BY DEF Hears, TurnKinds
<1> HIDE DEF Beliefs
<1>9. Updated(b, b.tiles, Forward(0)) =
        [rover |-> Expected(b), stash |-> Forward(0),
         tiles |-> Driven(b.tiles, b.rover, b.stash), stopData |-> b.stopData]
  BY UpdatedIs
<1> HIDE DEF Hears, Updated, StopMarked, SeenWhileTurning, Driven, Expected, Forward
<1>10. m.kind = "S" /\ b.stash.kind = "forward" =>
         Hears(b, m) = [rover |-> b.rover, stash |-> b.stash, tiles |-> b.tiles,
                        stopData |-> m.value]
  BY <1>1, <1>5
<1>11. m.kind = "S" /\ b.stash.kind # "forward" =>
         Hears(b, m) = [rover |-> b.rover, stash |-> b.stash,
                        tiles |-> SeenWhileTurning(b.tiles, b.rover, b.stash, m.value),
                        stopData |-> b.stopData]
  BY <1>1, <1>5
<1>12. m.kind = "SD" /\ m.value = -1 =>
         Hears(b, m) = [rover |-> Expected(b), stash |-> Forward(0),
                        tiles |-> Driven(b.tiles, b.rover, b.stash), stopData |-> NoColour]
  BY <1>6, <1>9
<1>13. m.kind = "SD" /\ m.value # -1 =>
         Hears(b, m) = [rover |-> b.rover, stash |-> Forward(0), tiles |-> StopMarked(b),
                        stopData |-> NoColour]
  BY <1>1, <1>7
<1>14. QED
  BY <1>2, <1>3, <1>4, <1>8, <1>10, <1>11, <1>12, <1>13

LEMMA StopMarkedType ==
  ASSUME NEW b \in Beliefs
  PROVE  StopMarked(b) \in Maps
BY BeliefIs, DrivenType, MapExcept DEF StopMarked

LEMMA HearsType ==
  ASSUME NEW b \in Beliefs, NEW m \in Reports
  PROVE  Hears(b, m) \in Beliefs
<1>1. /\ b.rover \in Rovers /\ b.stash \in Stashes /\ b.tiles \in Maps
      /\ b.stopData \in Colours \cup {NoColour} /\ Expected(b) \in Rovers
  BY BeliefIs
<1>2. m.kind = "forward" \/ m.kind \in TurnKinds => m \in Stashes
  BY ReportKinds DEF Stashes
<1>3. Nothing \in Stashes /\ Forward(0) \in Stashes
  BY MovesAre
<1>4. \A c : SeenWhileTurning(b.tiles, b.rover, b.stash, c) \in Maps
  BY <1>1, SeenType
<1>5. Driven(b.tiles, b.rover, b.stash) \in Maps /\ StopMarked(b) \in Maps
  BY <1>1, DrivenType, StopMarkedType
<1>6. m.kind = "S" => m.value \in Colours
  BY ReportKinds
<1>7. m.kind \in {"forward", "X", "S", "SD", "backward"} \cup TurnKinds
  BY SentAre DEF Reports, Sent, Orders, Moves, Forward, Right, Left, End, Back, Report, TurnKinds
<1>8. CASE m.kind \in {"forward", "X"} \cup TurnKinds
  BY <1>1, <1>2, <1>3, <1>4, <1>8, HearsIs, UpdatedIs
<1>9. CASE m.kind = "S"
  BY <1>1, <1>4, <1>6, <1>9, HearsIs DEF Beliefs
<1>10. CASE m.kind = "SD"
  BY <1>1, <1>3, <1>5, <1>10, HearsIs DEF Beliefs
<1>11. CASE m.kind = "backward"
  BY <1>11, HearsIs
<1>12. QED
  BY <1>7, <1>8, <1>9, <1>10, <1>11

LEMMA ToldNothing ==
  ASSUME NEW V, NEW b \in V
  PROVE  Told(V, b, <<>>, b)
<1>1. Len(<<>>) = 0 /\ 1..0 = {}
  OBVIOUS
<1> DEFINE t == [i \in 1..1 |-> b]
<1>2. t \in [1..1 -> V] /\ t[1] = b
  OBVIOUS
<1> HIDE DEF t
<1>3. QED
  BY <1>1, <1>2 DEF Told

LEMMA ToldFirst ==
  ASSUME NEW V, NEW b, NEW s \in Seq(Reports), s # <<>>, NEW c, Told(V, b, s, c)
  PROVE  Told(V, Hears(b, Head(s)), Tail(s), c)
<1> DEFINE n == Len(s)
<1>1. n \in Nat \ {0} /\ Len(Tail(s)) = n - 1 /\ Head(s) = s[1]
      /\ \A i \in 1..(n - 1) : Tail(s)[i] = s[i + 1]
  BY HeadTailProperties, LenProperties, EmptySeq
<1>2. PICK t \in [1..(n + 1) -> V] :
        t[1] = b /\ t[n + 1] = c /\ \A i \in 1..n : t[i + 1] = Hears(t[i], s[i])
  BY DEF Told
<1> HIDE DEF n
<1> DEFINE u == [i \in 1..n |-> t[i + 1]]
<1>3. u \in [1..n -> V] /\ u[1] = Hears(b, s[1]) /\ u[n] = c
  BY <1>1, <1>2
<1>4. \A i \in 1..(n - 1) : u[i + 1] = Hears(u[i], s[i + 1])
  BY <1>1, <1>2
<1> HIDE DEF u
<1>5. QED
  BY <1>1, <1>3, <1>4 DEF Told

LEMMA ToldMore ==
  ASSUME NEW V, NEW b, NEW s \in Seq(Reports), NEW c, Told(V, b, s, c),
         NEW m \in Reports, Hears(c, m) \in V
  PROVE  Told(V, b, s \o <<m>>, Hears(c, m))
<1> DEFINE n == Len(s)
           s2 == s \o <<m>>
           d == Hears(c, m)
<1>1. n \in Nat /\ Len(s2) = n + 1 /\ s2[n + 1] = m
      /\ \A i \in 1..n : s2[i] = s[i]
  <2>1. <<m>> \in Seq(Reports) /\ Len(<<m>>) = 1 /\ <<m>>[1] = m
    OBVIOUS
  <2>2. QED
    BY <2>1, ConcatProperties, LenProperties
<1>2. PICK t \in [1..(n + 1) -> V] :
        t[1] = b /\ t[n + 1] = c /\ \A i \in 1..n : t[i + 1] = Hears(t[i], s[i])
  BY DEF Told
<1>3. d \in V
  OBVIOUS
<1>4. d = Hears(c, m)
  OBVIOUS
<1> HIDE DEF n, s2, d
<1> DEFINE u == [i \in 1..(n + 2) |-> IF i = n + 2 THEN d ELSE t[i]]
<1>5. u \in [1..(n + 2) -> V] /\ u[1] = b /\ u[n + 2] = d
  BY <1>1, <1>2, <1>3
<1>6. \A i \in 1..(n + 1) : u[i + 1] = Hears(u[i], s2[i])
  BY <1>1, <1>2, <1>4
<1> HIDE DEF u
<1>7. Told(V, b, s2, d)
  <2>1. Len(s2) = n + 1 /\ Len(s2) + 1 = n + 2
    BY <1>1
  <2>2. u \in [1..(Len(s2) + 1) -> V] /\ u[1] = b /\ u[Len(s2) + 1] = d
        /\ \A i \in 1..Len(s2) : u[i + 1] = Hears(u[i], s2[i])
    BY <1>5, <1>6, <2>1
  <2>3. QED
    BY <2>2, Zenon DEF Told
<1>8. QED
  BY <1>7 DEF s2, d

LEMMA ToldEnds ==
  ASSUME NEW V, NEW b, NEW s \in Seq(Reports), NEW c, Told(V, b, s, c)
  PROVE  b \in V /\ c \in V /\ (s = <<>> => c = b)
<1>1. Len(s) \in Nat /\ (s = <<>> => Len(s) = 0)
  BY LenProperties
<1>2. QED
  BY <1>1 DEF Told

\* A handler makes of the belief what its report says.
LEMMA HandlersHear ==
  ASSUME ServerInv, ReportNext, ~ Panic
  PROVE  /\ Belief' = Hears(Belief, Head(reports))
         /\ alive /\ reports # <<>> /\ reports' = Tail(reports)
<1> DEFINE m == Head(reports)
           After1 == After(rover, stash)
<1>1. /\ rover \in Rovers /\ Belief \in Beliefs
      /\ Belief.rover = rover /\ Belief.stash = stash /\ Belief.tiles = tiles
      /\ Belief.stopData = stopData /\ Expected(Belief) = After1
  BY BeliefType DEF ServerInv, Belief, Expected
<1>2. ASSUME NEW K, Receive(K)
      PROVE  m.kind \in K /\ alive /\ reports # <<>> /\ reports' = Tail(reports)
  BY <1>2 DEF Receive
<1>3. Belief' = [rover |-> rover', stash |-> stash', tiles |-> tiles', stopData |-> stopData']
  BY DEF Belief
<1>4. ASSUME NEW map, NEW i, UpdateMap(map, i)
      PROVE  /\ rover' = After1 /\ stash' = i /\ tiles' = Driven(map, rover, stash)
             /\ UNCHANGED stopData => Belief' = Updated(Belief, map, i)
  <2>1. rover' = After1 /\ stash' = i /\ tiles' = Driven(map, rover, stash)
    BY <1>4 DEF UpdateMap
  <2>2. QED
    BY <1>1, <1>3, <2>1, UpdatedIs
<1> HIDE DEF m, After1
<1>5. CASE HandleForward
  <2>1. Receive({"forward"}) /\ UpdateMap(tiles, m) /\ UNCHANGED stopData
    BY <1>5 DEF HandleForward, Handle, m
  <2>2. QED
    BY <1>1, <1>2, <1>4, <2>1, HearsIs DEF m
<1>6. CASE HandleTurn
  <2> DEFINE map == SeenWhileTurning(tiles, rover, stash, NoColour)
  <2>1. Receive(TurnKinds) /\ UpdateMap(map, m) /\ UNCHANGED stopData
    BY <1>6 DEF HandleTurn, Handle, m
  <2>2. Belief' = Updated(Belief, map, m)
    BY <1>4, <2>1
  <2>3. QED
    BY <1>1, <1>2, <2>1, <2>2, HearsIs DEF m
<1>7. CASE HandleEnd
  <2>1. Receive({"X"}) /\ UpdateMap(tiles, Nothing) /\ UNCHANGED stopData
    BY <1>7 DEF HandleEnd, Handle
  <2>2. QED
    BY <1>1, <1>2, <1>4, <2>1, HearsIs DEF m
<1>8. CASE HandleStop
  <2>1. /\ Receive({"S"}) /\ UNCHANGED <<rover, stash>>
        /\ IF stash.kind = "forward"
           THEN stopData' = m.value /\ UNCHANGED tiles
           ELSE /\ tiles' = SeenWhileTurning(tiles, rover, stash, m.value)
                /\ UNCHANGED stopData
    BY <1>8 DEF HandleStop, Handle, m
  <2>2. QED
    BY <1>1, <1>2, <1>3, <2>1, HearsIs DEF m
<1>9. CASE HandleTurnStop
  <2>1. Receive({"SD"}) /\ UpdateMap(tiles, Forward(0)) /\ m.value = -1 /\ stopData' = NoColour
    BY <1>9 DEF HandleTurnStop, Handle, m
  <2>2. QED
    BY <1>1, <1>2, <1>3, <1>4, <2>1, HearsIs DEF m
<1>10. CASE HandleForwardStop
  <2>1. /\ Receive({"SD"}) /\ m.value # -1 /\ stash' = Forward(0) /\ stopData' = NoColour
        /\ rover' = After(rover, Forward(0))
        /\ tiles' = [Driven(tiles, rover, Forward(0))
                       EXCEPT ![InFront(rover', Nothing)] = ObstacleValue(stopData)]
    BY <1>10 DEF HandleForwardStop, Handle, IsForwardStop, Atoi, m
  <2>2. rover' = rover
    BY <1>1, <2>1, MovesAre, AfterStash
  <2>3. tiles' = StopMarked(Belief)
    BY <1>1, <2>1, <2>2 DEF StopMarked
  <2>4. QED
    BY <1>1, <1>2, <1>3, <2>1, <2>2, <2>3, HearsIs DEF m
<1>11. CASE HandleBackward
  <2>1. Receive({"backward"}) /\ UNCHANGED serverVars
    BY <1>11 DEF HandleBackward
  <2>2. Belief' = Belief
    BY <1>3, <2>1 DEF Belief, serverVars
  <2>3. QED
    BY <1>1, <1>2, <2>1, <2>2, HearsIs DEF m
<1>12. QED
  BY <1>5, <1>6, <1>7, <1>8, <1>9, <1>10, <1>11 DEF ReportNext

\* A report that is handled, and one that is sent.
LEMMA ToldHandled ==
  ASSUME ServerInv, reports \in Seq(Reports), ReportNext, ~ Panic,
         NEW V, NEW c, Told(V, Belief, reports, c)
  PROVE  Told(V, Belief', reports', c)
BY HandlersHear, ToldFirst

LEMMA ToldSaid ==
  ASSUME reports \in Seq(Reports), NEW V, NEW c, Told(V, Belief, reports, c),
         NEW m \in Reports, Hears(c, m) \in V,
         Say(<<m>>), UNCHANGED <<rover, stash, tiles, stopData>>
  PROVE  Told(V, Belief', reports', Hears(c, m))
<1>1. Belief' = Belief /\ reports' = reports \o <<m>>
  BY DEF Belief, Say
<1>2. QED
  BY <1>1, ToldMore

(***************************************************************************)
(* What the rover says in a step, and the belief it makes of c.            *)
(***************************************************************************)
Sighted == Report("S", world[Faced])
TurnEnds == Report("SD", -1)
Stopped == Report("SD", gone)

Follows(c, d) ==
  \/ (Deliver \/ Advance \/ Arrive) /\ d = c
  \/ StartNext /\ d = Hears(c, Head(queue))
  \/ StopForward /\ d = Hears(c, Sighted)
  \/ ReportDistance /\ d = Hears(c, Stopped)
  \/ SeeWhileTurning /\ Say(<<Sighted>>) /\ d = Hears(c, Sighted)
  \/ SeeWhileTurning /\ Say(<<Sighted, TurnEnds>>) /\ d = Hears(Hears(c, Sighted), TurnEnds)

LEMMA SaidAre ==
  ASSUME Types
  PROVE  /\ TurnEnds \in Reports /\ TurnEnds.kind = "SD" /\ TurnEnds.value = -1
         /\ Stopped \in Reports /\ Stopped.kind = "SD" /\ Stopped.value = gone /\ gone \in Nat
         /\ Sighted.kind = "S" /\ Sighted.value = world[Faced]
         /\ InSight => Sighted \in Reports /\ world[Faced] \in Colours
         /\ queue # <<>> => Head(queue) \in Reports /\ Head(queue) \in Sent
<1>1. gone \in Nat /\ FieldInv
  BY DEF Types, FieldInv
<1>2. InSight => world[Faced] \in Colours
  BY <1>1, SightTypes
<1>3. queue # <<>> => Head(queue) \in Sent
  BY ReportsTail DEF Types, FieldInv
<1>4. QED
  BY <1>1, <1>2, <1>3, SentAre DEF Sighted, TurnEnds, Stopped, Report, Reports

LEMMA TwoElements ==
  ASSUME NEW X, NEW a \in X, NEW b \in X
  PROVE  <<a, b>> = <<a>> \o <<b>>
<1>1. <<a>> \in Seq(X) /\ <<a, b>> \in Seq(X)
  OBVIOUS
<1>2. <<a>> \o <<b>> = Append(<<a>>, b)
  BY <1>1, AppendIsConcat
<1>3. Append(<<a>>, b) \in Seq(X) /\ Len(Append(<<a>>, b)) = 2
      /\ Append(<<a>>, b)[1] = a /\ Append(<<a>>, b)[2] = b
  BY <1>1, AppendProperties
<1>4. Len(<<a, b>>) = 2 /\ <<a, b>>[1] = a /\ <<a, b>>[2] = b /\ 1..2 = {1, 2}
  OBVIOUS
<1>5. \A i \in 1..Len(<<a, b>>) : <<a, b>>[i] = Append(<<a>>, b)[i]
  BY <1>3, <1>4
<1>6. <<a, b>> = Append(<<a>>, b)
  BY <1>1, <1>3, <1>4, <1>5, SeqEqual
<1>7. QED
  BY <1>2, <1>6

LEMMA SomethingFollows ==
  ASSUME Types, StartNext \/ MoveNext, NEW c \in Beliefs
  PROVE  \E d \in Beliefs : Follows(c, d)
<1>1. CASE StartNext
  <2>1. Head(queue) \in Reports
    BY <1>1, SaidAre DEF StartNext
  <2>2. QED
    BY <1>1, <2>1, HearsType DEF Follows
<1>2. CASE Deliver \/ Advance \/ Arrive
  BY <1>2 DEF Follows
<1>3. CASE StopForward
  <2>1. Sighted \in Reports
    BY <1>3, SaidAre DEF StopForward
  <2>2. QED
    BY <1>3, <2>1, HearsType DEF Follows
<1>4. CASE ReportDistance
  BY <1>4, SaidAre, HearsType DEF Follows
<1>5. CASE SeeWhileTurning
  <2>1. Sighted \in Reports /\ TurnEnds \in Reports
        /\ (Say(<<Sighted>>) \/ Say(<<Sighted, TurnEnds>>))
    BY <1>5, SaidAre DEF SeeWhileTurning, Sighted, TurnEnds
  <2>2. Hears(c, Sighted) \in Beliefs /\ Hears(Hears(c, Sighted), TurnEnds) \in Beliefs
    BY <2>1, HearsType
  <2>3. QED
    BY <1>5, <2>1, <2>2 DEF Follows
<1>6. QED
  BY <1>1, <1>2, <1>3, <1>4, <1>5 DEF MoveNext

\* The reports on their way tell what follows, if what they tell on the way is in V.
LEMMA FollowsIsTold ==
  ASSUME Types, NEW V, NEW c, NEW d \in V, Told(V, Belief, reports, c), Follows(c, d),
         UNCHANGED <<rover, stash, tiles, stopData>>,
         SeeWhileTurning => Hears(c, Sighted) \in V
  PROVE  Told(V, Belief', reports', d)
<1>1. reports \in Seq(Reports) /\ Belief' = Belief
  BY DEF Types, TopicsInv, Belief
<1>2. CASE (Deliver \/ Advance \/ Arrive) /\ d = c
  <2>1. UNCHANGED reports
    BY <1>2 DEF Deliver, Advance, Arrive, topics
  <2>2. QED
    BY <1>1, <1>2, <2>1
<1>3. CASE StartNext /\ d = Hears(c, Head(queue))
  <2>1. Say(<<Head(queue)>>) /\ Head(queue) \in Reports
    BY <1>3, SaidAre DEF StartNext
  <2>2. QED
    BY <1>1, <1>3, <2>1, ToldSaid
<1>4. CASE StopForward /\ d = Hears(c, Sighted)
  <2>1. Say(<<Sighted>>) /\ Sighted \in Reports
    BY <1>4, SaidAre DEF StopForward, Sighted
  <2>2. QED
    BY <1>1, <1>4, <2>1, ToldSaid
<1>5. CASE ReportDistance /\ d = Hears(c, Stopped)
  <2>1. Say(<<Stopped>>) /\ Stopped \in Reports
    BY <1>5, SaidAre DEF ReportDistance, Stopped
  <2>2. QED
    BY <1>1, <1>5, <2>1, ToldSaid
<1>6. CASE SeeWhileTurning /\ Say(<<Sighted>>) /\ d = Hears(c, Sighted)
  <2>1. Sighted \in Reports
    BY <1>6, SaidAre DEF SeeWhileTurning
  <2>2. QED
    BY <1>1, <1>6, <2>1, ToldSaid
<1>7. CASE /\ SeeWhileTurning /\ Say(<<Sighted, TurnEnds>>)
           /\ d = Hears(Hears(c, Sighted), TurnEnds)
  <2>1. Sighted \in Reports /\ TurnEnds \in Reports
    BY <1>7, SaidAre DEF SeeWhileTurning
  <2>2. reports' = (reports \o <<Sighted>>) \o <<TurnEnds>>
        /\ reports \o <<Sighted>> \in Seq(Reports)
    <3>1. <<Sighted>> \in Seq(Reports) /\ <<TurnEnds>> \in Seq(Reports)
      BY <2>1
    <3>2. <<Sighted, TurnEnds>> = <<Sighted>> \o <<TurnEnds>>
      BY <2>1, TwoElements
    <3>3. reports' = reports \o <<Sighted, TurnEnds>>
      BY <1>7 DEF Say
    <3>4. QED
      BY <1>1, <3>1, <3>2, <3>3, ConcatProperties, ConcatAssociative
  <2>3. Told(V, Belief, reports \o <<Sighted>>, Hears(c, Sighted))
    BY <1>1, <1>7, <2>1, ToldMore
  <2>4. QED
    BY <1>1, <1>7, <2>1, <2>2, <2>3, ToldMore
<1>8. QED
  BY <1>2, <1>3, <1>4, <1>5, <1>6, <1>7 DEF Follows

-----------------------------------------------------------------------------
(***************************************************************************)
(* Dead reckoning.  The belief agrees with the rover between two           *)
(* instructions, during one, and until the distance of a stop is known.    *)
(***************************************************************************)
Agrees(c) ==
  /\ phase = "ready" => gone = 0 /\ Expected(c) = body
  /\ phase = "moving" =>
       /\ doing.kind = "forward" =>
            c.stash = doing /\ gone <= doing.value /\ Ahead(c.rover, gone) = body
       /\ doing.kind \in TurnKinds => Expected(c) = After(body, doing)
       /\ doing.kind \notin TurnKinds \cup {"forward"} => Expected(c) = body
  /\ phase = "stopping" => Ahead(c.rover, gone) = body

Reckoned == alive => \E c \in Beliefs : Told(Beliefs, Belief, reports, c) /\ Agrees(c)

\* A rover that is stopped while it moves forward has not left its tile.
StopsAtOnce == phase = "stopping" => gone = 0

LEMMA AgreesStays ==
  ASSUME NEW c, Agrees(c), UNCHANGED <<body, doing, gone, phase>>
  PROVE  Agrees(c)'
BY DEF Agrees, Expected

LEMMA OneFurther ==
  ASSUME NEW r \in Rovers, NEW n \in Nat
  PROVE  Ahead(Ahead(r, n), 1) = Ahead(r, n + 1)
<1> DEFINE a == Across(r.rotation)
           b == Down(r.rotation)
<1>1. a \in {-1, 0, 1} /\ b \in {-1, 0, 1} /\ r.x \in Int /\ r.y \in Int
  BY AheadIs DEF Rovers
<1>2. Ahead(r, n) = [x |-> r.x + n * a, y |-> r.y + n * b, rotation |-> r.rotation]
      /\ Ahead(r, n + 1) =
           [x |-> r.x + (n + 1) * a, y |-> r.y + (n + 1) * b, rotation |-> r.rotation]
      /\ Ahead(Ahead(r, n), 1) =
           [x |-> (r.x + n * a) + 1 * a, y |-> (r.y + n * b) + 1 * b, rotation |-> r.rotation]
  BY DEF Ahead
<1> HIDE DEF a, b
<1>3. (n + 1) * a = n * a + a /\ n * a \in Int /\ 1 * a = a
  BY <1>1
<1>4. (n + 1) * b = n * b + b /\ n * b \in Int /\ 1 * b = b
  BY <1>1
<1>5. (r.x + n * a) + a = r.x + (n * a + a) /\ (r.y + n * b) + b = r.y + (n * b + b)
  BY <1>1, <1>3, <1>4
<1>6. QED
  BY <1>2, <1>3, <1>4, <1>5

\* What the reports make of the rover that is expected.
LEMMA HeardRover ==
  ASSUME NEW c \in Beliefs, NEW m
  PROVE  LET d == Hears(c, m)
         IN  /\ m.kind = "forward" \/ m.kind \in TurnKinds =>
                  d.rover = Expected(c) /\ d.stash = m
             /\ m.kind = "X" => d.rover = Expected(c) /\ d.stash = Nothing
             /\ m.kind \in {"S", "backward"} => d.rover = c.rover /\ d.stash = c.stash
             /\ m.kind = "SD" =>
                  /\ d.rover = IF m.value = -1 THEN Expected(c) ELSE c.rover
                  /\ d.stash = Forward(0)
BY HearsIs, UpdatedIs

\* Nothing to be done, as far as the place is concerned.
LEMMA NothingExpected ==
  ASSUME NEW d, d.rover \in Rovers, d.stash = Nothing \/ d.stash = Forward(0)
  PROVE  Expected(d) = d.rover
BY AfterStash, MovesAre DEF Expected

LEMMA StartAgrees ==
  ASSUME Types, StartNext, NEW c \in Beliefs, Agrees(c), NEW d, d = Hears(c, Head(queue))
  PROVE  Agrees(d)'
<1> DEFINE m == Head(queue)
<1>1. /\ phase = "ready" /\ queue # <<>>
      /\ IF m.kind = "X"
         THEN UNCHANGED <<doing, phase>>
         ELSE doing' = m /\ phase' = "moving"
      /\ UNCHANGED <<body, gone>>
  BY DEF StartNext
<1>2. m \in Moves \/ m = End \/ m = Back
  BY <1>1, SaidAre DEF Sent, Orders
<1>3. gone = 0 /\ Expected(c) = body /\ body \in Rovers
  BY <1>1, BeliefIs DEF Agrees
<1>4. d = Hears(c, m)
  OBVIOUS
<1> HIDE DEF m
<1>5. CASE m.kind = "X"
  <2>1. d.rover = body /\ d.stash = Nothing
    BY <1>3, <1>4, <1>5, HeardRover
  <2>2. Expected(d) = body
    BY <1>3, <2>1, NothingExpected
  <2>3. QED
    BY <1>1, <1>3, <1>5, <2>2 DEF Agrees, Expected
<1>6. CASE m.kind = "forward"
  <2>1. d.rover = body /\ d.stash = m
    BY <1>3, <1>4, <1>6, HeardRover
  <2>2. Ahead(d.rover, 0) = body
    BY <1>3, <2>1, AfterStash, MovesAre
  <2>3. m.value \in Nat
    BY <1>2, <1>6, MoveKinds DEF End, Back, Report
  <2>4. doing' = m /\ phase' = "moving" /\ gone' = 0 /\ body' = body /\ m.kind \notin TurnKinds
    BY <1>1, <1>3, <1>6 DEF TurnKinds
  <2>5. QED
    BY <1>6, <2>1, <2>2, <2>3, <2>4 DEF Agrees
<1>7. CASE m.kind \in TurnKinds
  <2>1. Expected(d) = After(body, m)
    BY <1>3, <1>4, <1>7, HeardRover DEF Expected
  <2>2. doing' = m /\ phase' = "moving" /\ body' = body /\ m.kind # "forward"
    BY <1>1, <1>7 DEF TurnKinds
  <2>3. QED
    BY <1>7, <2>1, <2>2 DEF Agrees, Expected
<1>8. CASE m.kind = "backward"
  <2>1. Expected(d) = body
    BY <1>3, <1>4, <1>8, HeardRover DEF Expected
  <2>2. doing' = m /\ phase' = "moving" /\ body' = body
        /\ m.kind # "forward" /\ m.kind \notin TurnKinds
    BY <1>1, <1>8 DEF TurnKinds
  <2>3. QED
    BY <2>1, <2>2 DEF Agrees, Expected
<1>9. QED
  BY <1>2, <1>5, <1>6, <1>7, <1>8, KindsAre

LEMMA FollowsAgrees ==
  ASSUME Types, StopsAtOnce, NEW c \in Beliefs, Agrees(c), NEW d \in Beliefs, Follows(c, d)
  PROVE  Agrees(d)'
<1>1. body \in Rovers /\ gone \in Nat /\ doing \in Stashes \cup {Back}
  BY DEF Types, FieldInv
<1>2. c.rover \in Rovers /\ c.stash \in Stashes /\ Expected(c) \in Rovers
  BY BeliefIs
<1>3. CASE Deliver /\ d = c
  BY <1>3, AgreesStays DEF Deliver
<1>4. CASE Advance /\ d = c
  <2>1. /\ phase = "moving" /\ doing.kind = "forward" /\ gone < doing.value
        /\ body' = Ahead(body, 1) /\ gone' = gone + 1 /\ UNCHANGED <<doing, phase>>
    BY <1>4 DEF Advance, Advancing
  <2>2. c.stash = doing /\ Ahead(c.rover, gone) = body
    BY <2>1 DEF Agrees
  <2>3. Ahead(c.rover, gone + 1) = body'
    BY <1>1, <1>2, <2>1, <2>2, OneFurther
  <2>4. doing.value \in Nat /\ doing.kind \notin TurnKinds
    BY <1>1, <2>1, DoingKinds DEF TurnKinds
  <2>5. QED
    BY <1>1, <1>4, <2>1, <2>2, <2>3, <2>4 DEF Agrees
<1>5. CASE Arrive /\ d = c
  <2>1. /\ phase = "moving" /\ (doing.kind = "forward" => gone = doing.value)
        /\ body' = (IF Turning THEN After(body, doing) ELSE body)
        /\ gone' = 0 /\ phase' = "ready"
    BY <1>5 DEF Arrive, Complete
  <2>2. Expected(c) = body'
    <3>1. CASE doing.kind = "forward"
      <4>1. c.stash = doing /\ Ahead(c.rover, doing.value) = body /\ ~ Turning
        BY <2>1, <3>1 DEF Agrees, Turning, TurnKinds
      <4>2. Expected(c) = Ahead(c.rover, doing.value)
        BY <3>1, <4>1 DEF Expected, After
      <4>3. QED
        BY <2>1, <4>1, <4>2
    <3>2. CASE doing.kind \in TurnKinds
      BY <2>1, <3>2 DEF Agrees, Turning
    <3>3. CASE doing.kind \notin TurnKinds \cup {"forward"}
      BY <2>1, <3>3 DEF Agrees, Turning
    <3>4. QED
      BY <3>1, <3>2, <3>3
  <2>3. QED
    BY <1>5, <2>1, <2>2 DEF Agrees, Expected
<1>6. CASE StartNext /\ d = Hears(c, Head(queue))
  BY <1>6, StartAgrees
<1>7. CASE StopForward /\ d = Hears(c, Sighted)
  <2>1. phase = "moving" /\ doing.kind = "forward" /\ phase' = "stopping"
        /\ UNCHANGED <<body, doing, gone>>
    BY <1>7 DEF StopForward, Advancing
  <2>2. d.rover = c.rover
    BY <1>7, SaidAre, HeardRover
  <2>3. Ahead(d.rover, gone) = body
    BY <2>1, <2>2 DEF Agrees
  <2>4. QED
    BY <2>1, <2>3 DEF Agrees
<1>8. CASE ReportDistance /\ d = Hears(c, Stopped)
  <2>1. phase = "stopping" /\ gone' = 0 /\ phase' = "ready" /\ UNCHANGED body
    BY <1>8 DEF ReportDistance, Complete
  <2>2. gone = 0 /\ Ahead(c.rover, 0) = body
    BY <2>1 DEF Agrees, StopsAtOnce
  <2>3. d.rover = body /\ d.stash = Forward(0)
    BY <1>2, <1>8, <2>2, SaidAre, HeardRover, AfterStash, MovesAre
  <2>4. Expected(d) = body
    BY <1>1, <2>3, NothingExpected
  <2>5. QED
    BY <2>1, <2>4 DEF Agrees, Expected
<1>9. CASE SeeWhileTurning /\ d = Hears(c, Sighted)
  <2>1. phase = "moving" /\ doing.kind \in TurnKinds /\ UNCHANGED <<body, doing, gone, phase>>
    BY <1>9 DEF SeeWhileTurning, Turning
  <2>2. Expected(d) = Expected(c)
    BY <1>9, SaidAre, HeardRover DEF Expected
  <2>3. Expected(c) = After(body, doing) /\ doing.kind # "forward"
    BY <2>1 DEF Agrees, TurnKinds
  <2>4. QED
    BY <2>1, <2>2, <2>3 DEF Agrees, Expected
<1>10. CASE SeeWhileTurning /\ d = Hears(Hears(c, Sighted), TurnEnds)
  <2>1. phase = "moving" /\ doing.kind \in TurnKinds /\ InSight
        /\ UNCHANGED <<body, doing, gone, phase>>
    BY <1>10 DEF SeeWhileTurning, Turning
  <2>2. PICK e \in Beliefs : e = Hears(c, Sighted)
    BY <2>1, SaidAre, HearsType
  <2>3. Expected(e) = Expected(c)
    BY <2>2, SaidAre, HeardRover DEF Expected
  <2>4. d.rover = Expected(c) /\ d.stash = Forward(0)
    BY <1>10, <2>2, <2>3, SaidAre, HeardRover
  <2>5. Expected(d) = Expected(c)
    BY <1>2, <2>4, NothingExpected
  <2>6. Expected(c) = After(body, doing) /\ doing.kind # "forward"
    BY <2>1 DEF Agrees, TurnKinds
  <2>7. QED
    BY <2>1, <2>5, <2>6 DEF Agrees, Expected
<1>11. QED
  BY <1>3, <1>4, <1>5, <1>6, <1>7, <1>8, <1>9, <1>10 DEF Follows

LEMMA NewIs ==
  /\ NewRover \in Rovers /\ NewMap \in Maps
  /\ \A b : b.rover = NewRover /\ b.stash = Nothing => Expected(b) = NewRover
<1>1. NewRover \in Rovers
  BY StartAssumption, SizeAssumption DEF NewRover, Rovers, Rotations
<1>2. NewMap \in Maps
  BY DEF NewMap, Maps, Values
<1>3. QED
  BY <1>1, <1>2, NothingExpected

LEMMA ReckonedInit == Init => Reckoned
<1>1. SUFFICES ASSUME Init PROVE Told(Beliefs, Belief, reports, Belief) /\ Agrees(Belief)
  BY TypesInit, BeliefType DEF Reckoned, Types
<1>2. reports = <<>> /\ phase = "ready" /\ gone = 0 /\ body = NewRover
      /\ rover = NewRover /\ stash = Nothing /\ Belief \in Beliefs
  BY <1>1, TypesInit, BeliefType DEF Init, TopicsInit, FieldInit, ServerInit, Types
<1>3. Expected(Belief) = NewRover
  BY <1>2, NewIs DEF Belief
<1>4. QED
  BY <1>2, <1>3, ToldNothing DEF Agrees

LEMMA ReckonedStep ==
  ASSUME Careful
  PROVE  Types /\ Types' /\ StopsAtOnce /\ Reckoned /\ [Next]_vars => Reckoned'
<1> SUFFICES ASSUME Types, Types', StopsAtOnce, Reckoned, [Next]_vars, alive'
             PROVE  \E c \in Beliefs : Told(Beliefs, Belief', reports', c) /\ Agrees(c)'
  BY DEF Reckoned, Told
<1>1. reports \in Seq(Reports) /\ ServerInv
  BY DEF Types, TopicsInv
<1>2. ASSUME UNCHANGED <<alive, rover, stash, tiles, stopData, reports>>,
             UNCHANGED <<body, doing, gone, phase>>
      PROVE  \E c \in Beliefs : Told(Beliefs, Belief', reports', c) /\ Agrees(c)'
  <2>1. PICK c \in Beliefs : Told(Beliefs, Belief, reports, c) /\ Agrees(c)
    BY <1>2 DEF Reckoned
  <2>2. Belief' = Belief /\ reports' = reports
    BY <1>2 DEF Belief
  <2>3. Agrees(c)'
    BY <1>2, <2>1, AgreesStays
  <2>4. QED
    BY <2>1, <2>2, <2>3
<1>3. CASE AskForTarget
  BY <1>2, <1>3 DEF AskForTarget, StartAutonomous, TargetCoords, fieldVars, topics
<1>4. CASE DriveManually
  BY <1>2, <1>4 DEF DriveManually, ManualDrive, fieldVars, serverVars
<1>5. CASE EndExploration
  BY <1>2, <1>5 DEF EndExploration, StopAutonomous, fieldVars, topics
<1>6. CASE HandleRequest
  BY <1>2, <1>6 DEF HandleRequest, RequestNext, MakeInstructions, PublishNext, fieldVars, topics
<1>7. CASE UNCHANGED vars
  BY <1>2, <1>7 DEF vars, serverVars, fieldVars, topics
<1>8. CASE Reset
  <2>1. /\ alive /\ stash = Nothing /\ reports = <<>> /\ phase = "ready"
        /\ rover' = NewRover /\ tiles' = NewMap /\ body' = NewRover
        /\ UNCHANGED <<reports, stash, stopData, doing, gone, phase>>
    BY <1>8 DEF Reset, ResetMap, Quiet, topics
  <2>2. gone = 0
    BY <2>1 DEF Reckoned, Agrees
  <2>3. PICK b \in Beliefs : b = Belief'
    BY BeliefType DEF Types, Belief, Beliefs, ServerInv
  <2>4. Expected(b) = NewRover
    BY <2>1, <2>3, NewIs DEF Belief
  <2>5. Agrees(b)'
    BY <2>1, <2>2, <2>4 DEF Agrees, Expected
  <2>6. Told(Beliefs, b, <<>>, b)
    BY ToldNothing
  <2>7. QED
    BY <2>1, <2>3, <2>5, <2>6
<1>9. CASE HandleReport
  <2>1. ReportNext /\ ~ Panic /\ UNCHANGED fieldVars
    BY <1>9 DEF HandleReport, Panic
  <2>2. PICK c \in Beliefs : Told(Beliefs, Belief, reports, c) /\ Agrees(c)
    BY <1>1, <2>1, HandlersHear DEF Reckoned
  <2>3. Told(Beliefs, Belief', reports', c)
    BY <1>1, <2>1, <2>2, ToldHandled
  <2>4. Agrees(c)'
    BY <2>1, <2>2, AgreesStays DEF fieldVars
  <2>5. QED
    BY <2>3, <2>4
<1>10. CASE Start \/ Move
  <2>1. (StartNext \/ MoveNext) /\ UNCHANGED <<alive, rover, stash, tiles, stopData>>
    BY <1>10 DEF Start, Move, serverVars
  <2>2. PICK c \in Beliefs : Told(Beliefs, Belief, reports, c) /\ Agrees(c)
    BY <2>1 DEF Reckoned
  <2>3. PICK d \in Beliefs : Follows(c, d)
    BY <2>1, SomethingFollows
  <2>4. SeeWhileTurning => Hears(c, Sighted) \in Beliefs
    BY SaidAre, HearsType DEF SeeWhileTurning
  <2>5. Told(Beliefs, Belief', reports', d)
    BY <2>1, <2>2, <2>3, <2>4, FollowsIsTold
  <2>6. Agrees(d)'
    BY <2>2, <2>3, FollowsAgrees
  <2>7. QED
    BY <2>5, <2>6
<1>11. QED
  BY <1>3, <1>4, <1>5, <1>6, <1>7, <1>8, <1>9, <1>10 DEF Next

LEMMA ReckonedIsKnown == Types /\ Reckoned => DeadReckoning
<1>1. SUFFICES ASSUME Types, Reckoned, alive, reports = <<>>, phase = "ready"
               PROVE  After(rover, stash) = body
  BY DEF DeadReckoning
<1>2. PICK c \in Beliefs : Told(Beliefs, Belief, reports, c) /\ Agrees(c)
  BY <1>1 DEF Reckoned
<1>3. c = Belief
  BY <1>1, <1>2, ToldEnds DEF Types, TopicsInv
<1>4. Expected(Belief) = body
  BY <1>1, <1>2, <1>3 DEF Agrees
<1>5. QED
  BY <1>4 DEF Expected, Belief

(***************************************************************************)
(* The server knows where the rover is (map_general.go,                    *)
(* mqttGeneral.go:117), however the reports are delayed, as long as the    *)
(* map is reset only when all is over and on the map, and no stop comes in *)
(* the middle of a forward: turns, the ends of sequences, stops while      *)
(* turning, corrections backwards, full queues and new plans never lose    *)
(* the place. (A stop after a whole tile does, for its distance is read as *)
(* 0: mqttGeneral.go:150, the run mission_stop.)                           *)
(***************************************************************************)
THEOREM PlaceIsKnown ==
  ASSUME Careful
  PROVE  Spec /\ []StopsAtOnce => []DeadReckoning
<1>1. QED
  BY TypesInvariant, ReckonedInit, ReckonedStep, ReckonedIsKnown, PTL DEF Spec


-----------------------------------------------------------------------------
(***************************************************************************)
(* The map.  What is on it is true of a field where no two obstacles have  *)
(* the same colour, and what vision has sent stays on it.                  *)
(***************************************************************************)
IsTrue(map) ==
  \A t \in Tiles :
    /\ map[t] = Empty => t \notin DOMAIN world
    /\ map[t] >= Obstacle => t \in DOMAIN world /\ map[t] = ObstacleValue(world[t])

TrueBeliefs == {b \in Beliefs : IsTrue(b.tiles)}

Apart == \A t \in DOMAIN world : \A u \in DOMAIN world : world[t] = world[u] => t = u

\* The obstacles of one map are on the other one.
Keeps(map, new) == \A t \in DOMAIN world : map[t] >= Obstacle => new[t] >= Obstacle

LEMMA ObstacleValueIs ==
  ASSUME NEW c \in Colours
  PROVE  ObstacleValue(c) \in 5..10 /\ ObstacleValue(c) >= Obstacle
         /\ ObstacleValue(c) # Empty /\ ObstacleValue(NoColour) = Empty
BY DEF ObstacleValue, Colours, NoColour, Obstacle, Empty

LEMMA DrivenTruly ==
  ASSUME FieldInv, NEW map \in Maps, IsTrue(map),
         NEW r, NEW i, Indices(r, i) \cap DOMAIN world = {}
  PROVE  IsTrue(Driven(map, r, i)) /\ Keeps(map, Driven(map, r, i))
<1> DEFINE new == Driven(map, r, i)
<1>1. \A t \in Tiles : new[t] = IF t \in Indices(r, i) THEN Empty ELSE map[t]
  BY DEF Driven
<1>2. DOMAIN world \subseteq Tiles
  BY DEF FieldInv
<1> HIDE DEF new
<1>3. ~ Empty >= Obstacle
  BY DEF Empty, Obstacle
<1>4. IsTrue(new)
  <2>1. SUFFICES ASSUME NEW t \in Tiles
                 PROVE  /\ new[t] = Empty => t \notin DOMAIN world
                        /\ new[t] >= Obstacle =>
                             t \in DOMAIN world /\ new[t] = ObstacleValue(world[t])
    BY DEF IsTrue
  <2>2. CASE t \in Indices(r, i)
    BY <1>1, <1>3, <2>2
  <2>3. CASE t \notin Indices(r, i)
    <3>1. new[t] = map[t]
      BY <1>1, <2>3
    <3>2. QED
      BY <3>1 DEF IsTrue
  <2>4. QED
    BY <2>2, <2>3
<1>5. Keeps(map, new)
  BY <1>1, <1>2 DEF Keeps
<1>6. QED
  BY <1>4, <1>5 DEF new

LEMMA MarkedTruly ==
  ASSUME FieldInv, NEW map \in Maps, IsTrue(map), NEW t, NEW c \in Colours \cup {NoColour},
         IF c = NoColour THEN t \notin DOMAIN world ELSE t \in DOMAIN world /\ world[t] = c
  PROVE  LET new == [map EXCEPT ![t] = ObstacleValue(c)]
         IN  /\ IsTrue(new) /\ Keeps(map, new) /\ new \in Maps
             /\ c # NoColour => new[t] >= Obstacle
<1> DEFINE new == [map EXCEPT ![t] = ObstacleValue(c)]
<1>1. /\ \A u \in Tiles : new[u] = IF u = t THEN ObstacleValue(c) ELSE map[u]
      /\ new \in Maps
  BY MapExcept DEF Maps
<1>2. DOMAIN world \subseteq Tiles
  BY DEF FieldInv
<1>3. c # NoColour => ObstacleValue(c) >= Obstacle /\ ObstacleValue(c) # Empty
  BY ObstacleValueIs
<1>4. c = NoColour => ObstacleValue(c) = Empty /\ ~ ObstacleValue(c) >= Obstacle
  <2>1. ObstacleValue(NoColour) = Empty
    BY DEF ObstacleValue, NoColour
  <2>2. ~ Empty >= Obstacle
    BY DEF Empty, Obstacle
  <2>3. QED
    BY <2>1, <2>2
<1> HIDE DEF new
<1>5. IsTrue(new)
  <2>1. SUFFICES ASSUME NEW u \in Tiles
                 PROVE  /\ new[u] = Empty => u \notin DOMAIN world
                        /\ new[u] >= Obstacle =>
                             u \in DOMAIN world /\ new[u] = ObstacleValue(world[u])
    BY DEF IsTrue
  <2>2. CASE u = t
    BY <1>1, <1>3, <1>4, <2>2
  <2>3. CASE u # t
    <3>1. new[u] = map[u]
      BY <1>1, <2>3
    <3>2. QED
      BY <3>1 DEF IsTrue
  <2>4. QED
    BY <2>2, <2>3
<1>6. Keeps(map, new) /\ (c # NoColour => new[t] >= Obstacle)
  BY <1>1, <1>2, <1>3 DEF Keeps
<1>7. QED
  BY <1>1, <1>5, <1>6 DEF new

\* Nothing is seen where a turn ends.
LEMMA SeenNothingTruly ==
  ASSUME FieldInv, NEW map \in Maps, IsTrue(map), NEW r, NEW i,
         i.kind \in TurnKinds /\ InFront(r, i) \in DOMAIN world => map[InFront(r, i)] >= Obstacle
  PROVE  LET new == SeenWhileTurning(map, r, i, NoColour)
         IN  IsTrue(new) /\ Keeps(map, new) /\ new \in Maps
<1> DEFINE new == SeenWhileTurning(map, r, i, NoColour)
           t == InFront(r, i)
<1>1. CASE i.kind \notin TurnKinds \/ map[t] \notin {Unknown, Empty}
  <2>1. new = map
    BY <1>1 DEF SeenWhileTurning
  <2>2. QED
    BY <2>1 DEF Keeps
<1>2. CASE i.kind \in TurnKinds /\ map[t] \in {Unknown, Empty}
  <2>1. new = [map EXCEPT ![t] = ObstacleValue(NoColour)]
    BY <1>2 DEF SeenWhileTurning
  <2>2. t \notin DOMAIN world
    BY <1>2 DEF Unknown, Empty, Obstacle
  <2> HIDE DEF new, t
  <2>3. IsTrue(new) /\ Keeps(map, new) /\ new \in Maps
    BY <2>1, <2>2, MarkedTruly
  <2>4. QED
    BY <2>3 DEF new
<1>3. QED
  BY <1>1, <1>2

LEMMA SeenTruly ==
  ASSUME FieldInv, NEW map \in Maps, IsTrue(map), NEW r, NEW i, i.kind \in TurnKinds,
         InFront(r, i) \in DOMAIN world
  PROVE  LET new == SeenWhileTurning(map, r, i, world[InFront(r, i)])
         IN  /\ IsTrue(new) /\ Keeps(map, new) /\ new \in Maps
             /\ new[InFront(r, i)] >= Obstacle
<1> DEFINE t == InFront(r, i)
           new == SeenWhileTurning(map, r, i, world[t])
<1>1. world[t] \in Colours /\ world[t] # NoColour
  BY DEF FieldInv, Colours, NoColour
<1>2. new = [map EXCEPT ![t] = ObstacleValue(world[t])]
  BY <1>1 DEF SeenWhileTurning
<1>3. t \in DOMAIN world
  OBVIOUS
<1> HIDE DEF new, t
<1>4. IsTrue(new) /\ Keeps(map, new) /\ new \in Maps /\ new[t] >= Obstacle
  BY <1>1, <1>2, <1>3, MarkedTruly
<1>5. QED
  BY <1>4 DEF new, t


-----------------------------------------------------------------------------
(***************************************************************************)
(* What the belief c has to show: all that was sent, except the obstacle   *)
(* of a stop whose distance is not told; no obstacle where the last        *)
(* instruction led; and the obstacle that a finished turn faces.           *)
(***************************************************************************)
Driving == phase = "moving" /\ doing.kind = "forward"

Known(c) ==
  \A t \in DOMAIN world :
    world[t] = lastSent /\ ~ (phase = "stopping" /\ t = Faced) => c.tiles[t] >= Obstacle

Clear(c) == Indices(c.rover, c.stash) \cap DOMAIN world = {}

Facing(c) ==
  LET t == InFront(c.rover, c.stash)
  IN  c.stash.kind \in TurnKinds /\ t \in DOMAIN world => c.tiles[t] >= Obstacle

Sees(c) ==
  /\ Known(c)
  /\ Driving => \A k \in 0..gone : Place(Ahead(c.rover, k)) \notin DOMAIN world
  /\ phase # "stopping" /\ ~ Driving => Clear(c)
  /\ phase # "stopping" /\ ~ Driving /\ ~ Turning => Facing(c)
  /\ Turning =>
       \/ c.stash = doing /\ c.rover = body
       \/ c.stash = Forward(0) /\ Faced \in DOMAIN world /\ world[Faced] = lastSent
  /\ phase = "stopping" =>
       /\ doing.kind = "forward"
       /\ Faced \in DOMAIN world /\ world[Faced] = lastSent /\ c.stopData = lastSent

LEMMA IndicesAre ==
  ASSUME NEW r, NEW i
  PROVE  /\ i.kind # "forward" => Indices(r, i) = {}
         /\ i.kind = "forward" => Indices(r, i) = {Place(Ahead(r, k)) : k \in 0..i.value}
         /\ Indices(r, Forward(0)) = {Place(Ahead(r, 0))}
         /\ Indices(r, Nothing) = {}
<1>1. 0..0 = {0}
  OBVIOUS
<1>2. QED
  BY <1>1 DEF Indices, Swept, Forward, Nothing

LEMMA SeesStays ==
  ASSUME NEW c, Sees(c), UNCHANGED <<world, body, doing, gone, phase, lastSent>>
  PROVE  Sees(c)'
<1>1. UNCHANGED <<Faced, Driving, Turning>>
  BY DEF Faced, Driving, Turning
<1>2. Known(c)' /\ (Clear(c)' <=> Clear(c)) /\ (Facing(c)' <=> Facing(c))
  BY <1>1 DEF Sees, Known, Clear, Facing
<1>3. QED
  BY <1>1, <1>2 DEF Sees

\* Known depends on the map and on what was sent.
LEMMA KnownStays ==
  ASSUME NEW c, Known(c), NEW d, Keeps(c.tiles, d.tiles), UNCHANGED <<world, lastSent>>,
         phase # "stopping"
  PROVE  Known(d)'
BY DEF Known, Keeps

\* The obstacle just sent is the only one of its colour.
LEMMA KnownNow ==
  ASSUME Apart, NEW d, NEW t \in DOMAIN world, lastSent' = world[t], UNCHANGED world,
         d.tiles[t] >= Obstacle \/ (phase' = "stopping" /\ Faced' = t)
  PROVE  Known(d)'
BY DEF Known, Apart

LEMMA StartSees ==
  ASSUME Types, NoCollision, StartNext,
         NEW c \in TrueBeliefs, Agrees(c), Sees(c),
         NEW d \in Beliefs, d = Hears(c, Head(queue))
  PROVE  Sees(d)' /\ IsTrue(d.tiles)
<1> DEFINE m == Head(queue)
<1>1. /\ phase = "ready" /\ queue # <<>>
      /\ IF m.kind = "X"
         THEN UNCHANGED <<doing, phase>>
         ELSE doing' = m /\ phase' = "moving"
      /\ UNCHANGED <<world, body, gone, lastSent>>
  BY DEF StartNext
<1>2. m \in Moves \/ m = End \/ m = Back
  BY <1>1, SaidAre DEF Sent, Orders
<1>3. /\ gone = 0 /\ Expected(c) = body /\ body \in Rovers
      /\ c \in Beliefs /\ IsTrue(c.tiles) /\ c.tiles \in Maps
      /\ c.rover \in Rovers /\ c.stash \in Stashes /\ FieldInv
  BY <1>1, BeliefIs DEF Agrees, TrueBeliefs, Types
<1>4. d = Hears(c, m)
  OBVIOUS
<1> HIDE DEF m
<1>5. ~ Driving /\ ~ Turning /\ Known(c) /\ Clear(c) /\ Facing(c)
  BY <1>1 DEF Sees, Driving, Turning
<1>6. CASE m.kind = "X"
  <2>1. d = Updated(c, c.tiles, Nothing)
    BY <1>3, <1>4, <1>6, HearsIs
  <2>2. d.stash = Nothing /\ d.tiles = Driven(c.tiles, c.rover, c.stash)
    BY <1>3, <2>1, UpdatedIs
  <2>3. IsTrue(d.tiles) /\ Keeps(c.tiles, d.tiles)
    BY <1>3, <1>5, <2>2, DrivenTruly DEF Clear
  <2>4. Known(d)'
    BY <1>1, <1>5, <2>3, KnownStays
  <2>5. Clear(d)' /\ Facing(d)'
    BY <2>2, IndicesAre DEF Clear, Facing, Nothing, TurnKinds
  <2>6. phase' = "ready"
    BY <1>1, <1>6
  <2>7. QED
    BY <2>3, <2>4, <2>5, <2>6 DEF Sees, Driving, Turning
<1>7. CASE m.kind = "forward"
  <2>1. d = Updated(c, c.tiles, m)
    BY <1>3, <1>4, <1>7, HearsIs
  <2>2. d.rover = body /\ d.stash = m /\ d.tiles = Driven(c.tiles, c.rover, c.stash)
    BY <1>3, <2>1, UpdatedIs
  <2>3. IsTrue(d.tiles) /\ Keeps(c.tiles, d.tiles)
    BY <1>3, <1>5, <2>2, DrivenTruly DEF Clear
  <2>4. Known(d)'
    BY <1>1, <1>5, <2>3, KnownStays
  <2>5. phase' = "moving" /\ doing' = m /\ gone' = 0 /\ m.kind \notin TurnKinds
    BY <1>1, <1>3, <1>7 DEF TurnKinds
  <2>6. \A k \in 0..gone' : Place(Ahead(d.rover, k)) \notin DOMAIN world'
    <3>1. Ahead(body, 0) = body
      BY <1>3, AfterStash, MovesAre
    <3>2. 0..gone' = {0}
      BY <2>5
    <3>3. QED
      BY <1>1, <2>2, <3>1, <3>2 DEF NoCollision
  <2>7. QED
    BY <1>7, <2>3, <2>4, <2>5, <2>6 DEF Sees, Driving, Turning
<1>8. CASE m.kind \in TurnKinds
  <2> DEFINE map == SeenWhileTurning(c.tiles, c.rover, c.stash, NoColour)
  <2>1. d = Updated(c, map, m)
    BY <1>3, <1>4, <1>8, HearsIs
  <2>2. IsTrue(map) /\ Keeps(c.tiles, map) /\ map \in Maps
    BY <1>3, <1>5, SeenNothingTruly DEF Facing
  <2> HIDE DEF map
  <2>3. d.rover = body /\ d.stash = m /\ d.tiles = Driven(map, c.rover, c.stash)
    BY <1>3, <2>1, UpdatedIs
  <2>4. IsTrue(d.tiles) /\ Keeps(map, d.tiles)
    BY <1>3, <1>5, <2>2, <2>3, DrivenTruly DEF Clear
  <2>5. Keeps(c.tiles, d.tiles)
    BY <2>2, <2>4 DEF Keeps
  <2>6. Known(d)'
    BY <1>1, <1>5, <2>5, KnownStays
  <2>7. phase' = "moving" /\ doing' = m /\ body' = body /\ m.kind # "forward"
    BY <1>1, <1>8 DEF TurnKinds
  <2>8. Clear(d)'
    BY <2>3, <2>7, IndicesAre DEF Clear
  <2>9. QED
    BY <1>8, <2>3, <2>4, <2>6, <2>7, <2>8 DEF Sees, Driving, Turning
<1>9. CASE m.kind = "backward"
  <2>1. d = c
    BY <1>3, <1>4, <1>9, HearsIs
  <2>2. phase' = "moving" /\ doing' = m /\ m.kind # "forward" /\ m.kind \notin TurnKinds
    BY <1>1, <1>9 DEF TurnKinds
  <2>3. Known(d)' /\ Clear(d)' /\ Facing(d)'
    BY <1>1, <1>5, <2>1, <2>2 DEF Known, Clear, Facing
  <2>4. QED
    BY <1>3, <2>1, <2>2, <2>3 DEF Sees, Driving, Turning
<1>10. QED
  BY <1>2, <1>6, <1>7, <1>8, <1>9, KindsAre


\* What a forward or a turn faces, and the place of a rover that turns.
LEMMA FacedIs ==
  /\ Faced = InFront(body, doing)
  /\ doing.kind = "forward" => Faced = InFront(body, Nothing)
BY DEF Faced, InFront, ChangeInRotation, Nothing

LEMMA TurnStays ==
  ASSUME NEW r \in Rovers, NEW i, i.kind # "forward"
  PROVE  Place(After(r, i)) = Place(r)
BY DEF Rovers, After, Turned, Place

LEMMA StopSees ==
  ASSUME Types, StopForward, Apart,
         NEW c \in TrueBeliefs, Agrees(c), Sees(c),
         NEW d \in Beliefs, d = Hears(c, Sighted)
  PROVE  Sees(d)' /\ IsTrue(d.tiles)
<1>1. /\ phase = "moving" /\ doing.kind = "forward" /\ Faced \in DOMAIN world
      /\ lastSent' = world[Faced] /\ phase' = "stopping" /\ UNCHANGED <<world, body, doing>>
  BY DEF StopForward, Advancing, InSight
<1>2. c \in Beliefs /\ IsTrue(c.tiles) /\ c.stash = doing
  BY <1>1 DEF TrueBeliefs, Agrees
<1>3. d = [rover |-> c.rover, stash |-> c.stash, tiles |-> c.tiles, stopData |-> world[Faced]]
  BY <1>1, <1>2, SaidAre, HearsIs
<1>4. Faced' = Faced
  BY <1>1 DEF Faced
<1>5. Known(d)'
  BY <1>1, <1>4, KnownNow
<1>6. d.tiles = c.tiles /\ d.stopData = world[Faced]
  BY <1>3
<1>7. QED
  BY <1>1, <1>2, <1>4, <1>5, <1>6 DEF Sees, Driving, Turning

LEMMA DistanceSees ==
  ASSUME Types, StopsAtOnce, NoCollision, ReportDistance, Apart,
         NEW c \in TrueBeliefs, Agrees(c), Sees(c),
         NEW d \in Beliefs, d = Hears(c, Stopped)
  PROVE  Sees(d)' /\ IsTrue(d.tiles)
<1>1. phase = "stopping" /\ phase' = "ready" /\ UNCHANGED <<world, body, lastSent>>
  BY DEF ReportDistance, Complete
<1>2. /\ c \in Beliefs /\ IsTrue(c.tiles) /\ c.tiles \in Maps /\ c.rover \in Rovers
      /\ FieldInv /\ body \in Rovers
  BY BeliefIs DEF TrueBeliefs, Types, FieldInv
<1>3. gone = 0 /\ c.rover = body /\ Place(Ahead(body, 0)) = Place(body)
  BY <1>1, <1>2, AfterStash, MovesAre DEF Agrees, StopsAtOnce
<1>4. /\ Faced \in DOMAIN world /\ world[Faced] = lastSent /\ c.stopData = lastSent
      /\ Faced = InFront(body, Nothing)
  BY <1>1, FacedIs DEF Sees
<1>5. d = [rover |-> c.rover, stash |-> Forward(0), tiles |-> StopMarked(c),
           stopData |-> NoColour]
  BY <1>2, <1>3, SaidAre, HearsIs
<1> DEFINE map == Driven(c.tiles, c.rover, Forward(0))
<1>6. IsTrue(map) /\ map \in Maps
  <2>1. Indices(c.rover, Forward(0)) = {Place(body)}
    BY <1>3, IndicesAre
  <2>2. Indices(c.rover, Forward(0)) \cap DOMAIN world = {}
    BY <2>1 DEF NoCollision
  <2>3. QED
    BY <1>2, <2>2, DrivenTruly, DrivenType
<1>7. d.tiles = [map EXCEPT ![Faced] = ObstacleValue(world[Faced])]
  BY <1>3, <1>4, <1>5 DEF StopMarked
<1> HIDE DEF map
<1>8. world[Faced] \in Colours /\ world[Faced] # NoColour
  BY <1>2, <1>4 DEF FieldInv, Colours, NoColour
<1>9. IsTrue(d.tiles) /\ d.tiles[Faced] >= Obstacle
  BY <1>2, <1>4, <1>6, <1>7, <1>8, MarkedTruly
<1>10. Known(d)'
  BY <1>1, <1>4, <1>9, KnownNow
<1>11. d.rover = body /\ d.stash = Forward(0)
  BY <1>3, <1>5
<1>12. Clear(d)' /\ Facing(d)'
  <2>1. Indices(d.rover, d.stash) = {Place(body)}
    BY <1>3, <1>11, IndicesAre
  <2>2. d.stash.kind \notin TurnKinds
    BY <1>11 DEF Forward, TurnKinds
  <2>3. QED
    BY <1>1, <2>1, <2>2 DEF Clear, Facing, NoCollision
<1>13. QED
  BY <1>1, <1>9, <1>10, <1>12 DEF Sees, Driving, Turning

LEMMA TurnSees ==
  ASSUME Types, SeeWhileTurning, Apart,
         NEW c \in TrueBeliefs, Agrees(c), Sees(c),
         NEW e \in Beliefs, e = Hears(c, Sighted)
  PROVE  /\ Sees(e)' /\ IsTrue(e.tiles)
         /\ e.stash = doing /\ e.rover = body
<1>1. /\ phase = "moving" /\ doing.kind \in TurnKinds /\ Turning
      /\ Faced \in DOMAIN world /\ world[Faced] # lastSent
      /\ lastSent' = world[Faced] /\ UNCHANGED <<world, body, doing, phase>>
  BY DEF SeeWhileTurning, Turning, InSight
<1>2. c \in Beliefs /\ IsTrue(c.tiles) /\ c.tiles \in Maps /\ FieldInv
  BY BeliefIs DEF TrueBeliefs, Types
<1>3. c.stash = doing /\ c.rover = body /\ doing.kind # "forward"
  BY <1>1 DEF Sees, TurnKinds
<1> DEFINE map == SeenWhileTurning(c.tiles, c.rover, c.stash, world[Faced])
<1>4. e = [rover |-> c.rover, stash |-> c.stash, tiles |-> map, stopData |-> c.stopData]
  BY <1>2, <1>3, SaidAre, HearsIs
<1>5. Faced = InFront(c.rover, c.stash)
  BY <1>3, FacedIs
<1>6. IsTrue(map) /\ map[Faced] >= Obstacle
  BY <1>1, <1>2, <1>3, <1>5, SeenTruly
<1> HIDE DEF map
<1>7. e.rover = body /\ e.stash = doing /\ e.tiles = map
  BY <1>3, <1>4
<1>8. Known(e)'
  BY <1>1, <1>6, <1>7, KnownNow
<1>9. Clear(e)'
  BY <1>3, <1>7, IndicesAre DEF Clear
<1>10. QED
  BY <1>1, <1>3, <1>6, <1>7, <1>8, <1>9 DEF Sees, Driving, Turning

LEMMA TurnStopSees ==
  ASSUME Types, NoCollision, SeeWhileTurning, Apart,
         NEW c \in TrueBeliefs, Agrees(c), Sees(c),
         NEW d \in Beliefs, d = Hears(Hears(c, Sighted), TurnEnds)
  PROVE  Sees(d)' /\ IsTrue(d.tiles)
<1>1. /\ phase = "moving" /\ doing.kind \in TurnKinds /\ Faced \in DOMAIN world /\ InSight
      /\ lastSent' = world[Faced] /\ UNCHANGED <<world, body, doing, phase>>
  BY DEF SeeWhileTurning, Turning, InSight
<1>2. c \in Beliefs /\ FieldInv /\ body \in Rovers
  BY DEF TrueBeliefs, Types, FieldInv
<1>3. PICK e \in Beliefs : e = Hears(c, Sighted)
  BY <1>1, <1>2, SaidAre, HearsType
<1>4. Sees(e)' /\ IsTrue(e.tiles) /\ e.stash = doing /\ e.rover = body /\ e.tiles \in Maps
  BY <1>3, TurnSees, BeliefIs
<1>5. d = [rover |-> Expected(e), stash |-> Forward(0),
           tiles |-> Driven(e.tiles, e.rover, e.stash), stopData |-> NoColour]
  BY <1>3, SaidAre, HearsIs
<1>6. doing.kind # "forward"
  BY <1>1 DEF TurnKinds
<1>7. IsTrue(d.tiles) /\ Keeps(e.tiles, d.tiles)
  <2>1. d.tiles = Driven(e.tiles, e.rover, e.stash)
    BY <1>5
  <2>2. Indices(e.rover, e.stash) = {}
    BY <1>4, <1>6, IndicesAre
  <2>3. QED
    BY <1>2, <1>4, <2>1, <2>2, DrivenTruly
<1>8. Known(d)'
  BY <1>1, <1>4, <1>7 DEF Sees, Known, Keeps
<1>9. d.stash = Forward(0) /\ d.rover = After(body, doing) /\ d.rover \in Rovers
  BY <1>4, <1>5, BeliefIs DEF Expected
<1>10. Clear(d)'
  <2>1. Place(Ahead(d.rover, 0)) = Place(body)
    BY <1>2, <1>6, <1>9, AfterStash, MovesAre, TurnStays
  <2>2. Indices(d.rover, d.stash) = {Place(body)}
    BY <1>9, <2>1, IndicesAre
  <2>3. QED
    BY <1>1, <2>2 DEF Clear, NoCollision
<1>11. Faced' = Faced
  BY <1>1 DEF Faced
<1>12. QED
  BY <1>1, <1>6, <1>7, <1>8, <1>9, <1>10, <1>11 DEF Sees, Driving, Turning


LEMMA FollowsSees ==
  ASSUME Types, StopsAtOnce, NoCollision, NoCollision', Apart,
         NEW c \in TrueBeliefs, Agrees(c), Sees(c),
         NEW d \in Beliefs, Follows(c, d)
  PROVE  /\ Sees(d)' /\ IsTrue(d.tiles)
         /\ SeeWhileTurning => Hears(c, Sighted) \in TrueBeliefs
<1>1. c \in Beliefs /\ IsTrue(c.tiles)
  BY DEF TrueBeliefs
<1>2. body \in Rovers /\ gone \in Nat /\ c.rover \in Rovers /\ doing \in Stashes \cup {Back}
  BY <1>1, BeliefIs DEF Types, FieldInv
<1>3. SeeWhileTurning => Hears(c, Sighted) \in TrueBeliefs
  <2>1. SUFFICES ASSUME SeeWhileTurning PROVE Hears(c, Sighted) \in TrueBeliefs
    OBVIOUS
  <2>2. Sighted \in Reports
    BY <2>1, SaidAre DEF SeeWhileTurning
  <2>3. PICK e \in Beliefs : e = Hears(c, Sighted)
    BY <1>1, <2>2, HearsType
  <2>4. IsTrue(e.tiles)
    BY <2>1, <2>3, TurnSees
  <2>5. QED
    BY <2>3, <2>4 DEF TrueBeliefs
<1>4. CASE Deliver /\ d = c
  BY <1>1, <1>3, <1>4, SeesStays DEF Deliver
<1>5. CASE Advance /\ d = c
  <2>1. /\ phase = "moving" /\ doing.kind = "forward" /\ gone < doing.value
        /\ body' = Ahead(body, 1) /\ gone' = gone + 1
        /\ UNCHANGED <<world, doing, phase, lastSent>>
    BY <1>5 DEF Advance, Advancing
  <2>2. Ahead(c.rover, gone) = body
    BY <2>1 DEF Agrees
  <2>3. Ahead(c.rover, gone + 1) = body'
    BY <1>2, <2>1, <2>2, OneFurther
  <2>4. \A k \in 0..gone' : Place(Ahead(c.rover, k)) \notin DOMAIN world'
    <3>1. SUFFICES ASSUME NEW k \in 0..(gone + 1)
                   PROVE  Place(Ahead(c.rover, k)) \notin DOMAIN world
      BY <2>1
    <3>2. CASE k \in 0..gone
      BY <2>1, <3>2 DEF Sees, Driving
    <3>3. CASE k = gone + 1
      <4>1. Place(body') \notin DOMAIN world
        BY <2>1 DEF NoCollision, Place
      <4>2. QED
        BY <2>3, <3>3, <4>1
    <3>4. QED
      BY <1>2, <3>2, <3>3
  <2>5. Known(c)'
    BY <2>1 DEF Sees, Known
  <2>6. doing.kind \notin TurnKinds
    BY <2>1 DEF TurnKinds
  <2>7. QED
    BY <1>1, <1>3, <1>5, <2>1, <2>4, <2>5, <2>6 DEF Sees, Driving, Turning
<1>6. CASE Arrive /\ d = c
  <2>1. /\ phase = "moving" /\ (doing.kind = "forward" => gone = doing.value)
        /\ (Turning => ~ InSight) /\ phase' = "ready" /\ UNCHANGED <<world, lastSent>>
    BY <1>6 DEF Arrive, Complete
  <2>2. Known(c)'
    BY <2>1 DEF Sees, Known
  <2>3. Clear(c) /\ Facing(c)
    <3>1. CASE doing.kind = "forward"
      <4>1. c.stash = doing /\ \A k \in 0..gone : Place(Ahead(c.rover, k)) \notin DOMAIN world
        BY <2>1, <3>1 DEF Agrees, Sees, Driving
      <4>2. Indices(c.rover, c.stash) = {Place(Ahead(c.rover, k)) : k \in 0..gone}
        BY <2>1, <3>1, <4>1, IndicesAre
      <4>3. c.stash.kind \notin TurnKinds
        BY <3>1, <4>1 DEF TurnKinds
      <4>4. QED
        BY <4>1, <4>2, <4>3 DEF Clear, Facing
    <3>2. CASE Turning
      <4>1. doing.kind # "forward" /\ doing.kind \in TurnKinds
        BY <3>2 DEF Turning, TurnKinds
      <4>2. Clear(c)
        BY <2>1, <4>1 DEF Sees, Driving
      <4>3. CASE c.stash = doing /\ c.rover = body
        <5>1. InFront(c.rover, c.stash) = Faced
          BY <4>3, FacedIs
        <5>2. Faced \in DOMAIN world => c.tiles[Faced] >= Obstacle
          BY <2>1, <3>2 DEF InSight, Sees, Known
        <5>3. QED
          BY <4>2, <5>1, <5>2 DEF Facing
      <4>4. CASE c.stash = Forward(0)
        BY <4>2, <4>4 DEF Facing, Forward, TurnKinds
      <4>5. QED
        BY <3>2, <4>3, <4>4 DEF Sees
    <3>3. CASE doing.kind # "forward" /\ ~ Turning
      BY <2>1, <3>3 DEF Sees, Driving
    <3>4. QED
      BY <3>1, <3>2, <3>3
  <2>4. Clear(c)' /\ Facing(c)'
    BY <2>1, <2>3 DEF Clear, Facing
  <2>5. QED
    BY <1>1, <1>3, <1>6, <2>1, <2>2, <2>4 DEF Sees, Driving, Turning
<1>7. CASE StartNext /\ d = Hears(c, Head(queue))
  BY <1>3, <1>7, StartSees
<1>8. CASE StopForward /\ d = Hears(c, Sighted)
  BY <1>3, <1>8, StopSees
<1>9. CASE ReportDistance /\ d = Hears(c, Stopped)
  BY <1>3, <1>9, DistanceSees
<1>10. CASE SeeWhileTurning /\ d = Hears(c, Sighted)
  BY <1>3, <1>10, TurnSees
<1>11. CASE SeeWhileTurning /\ d = Hears(Hears(c, Sighted), TurnEnds)
  BY <1>3, <1>11, TurnStopSees
<1>12. QED
  BY <1>4, <1>5, <1>6, <1>7, <1>8, <1>9, <1>10, <1>11 DEF Follows

-----------------------------------------------------------------------------
DistinctColours ==
  \A S \in Obstacles : \A o \in S : \A p \in S : o.colour = p.colour => o.tile = p.tile

\* The map is not thrown away once an obstacle was sent: vision does not repeat it.
KeepsMap == Reset => lastSent = "none"

Mapped ==
  /\ MapIsTrue /\ Apart
  /\ alive => \E c \in TrueBeliefs :
                Told(TrueBeliefs, Belief, reports, c) /\ Agrees(c) /\ Sees(c)

LEMMA NewMapTrue ==
  /\ \A t \in Tiles : NewMap[t] # Empty /\ ~ NewMap[t] >= Obstacle
  /\ IsTrue(NewMap)
<1>1. Unknown # Empty /\ Border # Empty /\ ~ Unknown >= Obstacle /\ ~ Border >= Obstacle
  BY DEF Unknown, Empty, Border, Obstacle
<1>2. \A t \in Tiles : NewMap[t] # Empty /\ ~ NewMap[t] >= Obstacle
  BY <1>1 DEF NewMap
<1>3. QED
  BY <1>2 DEF IsTrue

\* Nothing was sent and nothing is to be done.
LEMMA NothingSeen ==
  ASSUME FieldInv, NEW c, phase = "ready", lastSent = "none", c.stash = Nothing
  PROVE  Sees(c)
<1>1. Known(c)
  BY DEF FieldInv, Known, Colours
<1>2. Clear(c) /\ Facing(c)
  BY IndicesAre DEF Clear, Facing, Nothing, TurnKinds
<1>3. QED
  BY <1>1, <1>2 DEF Sees, Driving, Turning

LEMMA MappedInit == DistinctColours /\ Init => Mapped
<1>1. SUFFICES ASSUME DistinctColours, Init PROVE Mapped
  OBVIOUS
<1>2. /\ reports = <<>> /\ phase = "ready" /\ gone = 0 /\ body = NewRover /\ lastSent = "none"
      /\ rover = NewRover /\ stash = Nothing /\ tiles = NewMap
      /\ Belief \in Beliefs /\ FieldInv
  BY <1>1, TypesInit, BeliefType DEF Init, TopicsInit, FieldInit, ServerInit, Types
<1>3. Apart
  <2>1. PICK S \in Obstacles :
          world = [t \in {o.tile : o \in S} |-> (CHOOSE o \in S : o.tile = t).colour]
    BY <1>1 DEF Init
  <2>2. ASSUME NEW t \in DOMAIN world
        PROVE  \E o \in S : o.tile = t /\ world[t] = o.colour
    <3>1. PICK o \in S : o.tile = t
      BY <2>1, <2>2
    <3> DEFINE q == CHOOSE p \in S : p.tile = t
    <3>2. q \in S /\ q.tile = t
      BY <3>1
    <3>3. world[t] = q.colour
      BY <2>1, <2>2
    <3> HIDE DEF q
    <3>4. QED
      BY <3>2, <3>3
  <2>3. SUFFICES ASSUME NEW t \in DOMAIN world, NEW u \in DOMAIN world, world[t] = world[u]
                 PROVE  t = u
    BY DEF Apart
  <2>4. PICK o \in S : o.tile = t /\ world[t] = o.colour
    BY <2>2
  <2>5. PICK p \in S : p.tile = u /\ world[u] = p.colour
    BY <2>2
  <2>6. QED
    BY <1>1, <2>3, <2>4, <2>5 DEF DistinctColours
<1>4. MapIsTrue /\ IsTrue(tiles)
  BY <1>2, NewMapTrue DEF MapIsTrue, IsTrue
<1>5. Belief \in TrueBeliefs /\ Belief.stash = Nothing /\ Expected(Belief) = NewRover
  BY <1>2, <1>4, NewIs DEF TrueBeliefs, Belief
<1>6. Agrees(Belief) /\ Sees(Belief)
  BY <1>2, <1>5, NothingSeen DEF Agrees
<1>7. Told(TrueBeliefs, Belief, reports, Belief)
  BY <1>2, <1>5, ToldNothing
<1>8. QED
  BY <1>3, <1>4, <1>5, <1>6, <1>7 DEF Mapped


LEMMA WorldStays == [Next]_vars => UNCHANGED world
<1> SUFFICES ASSUME [Next]_vars PROVE UNCHANGED world
  OBVIOUS
<1>1. CASE AskForTarget \/ DriveManually \/ EndExploration \/ HandleReport \/ HandleRequest
  BY <1>1 DEF AskForTarget, DriveManually, EndExploration, HandleReport, HandleRequest, fieldVars
<1>2. CASE Reset
  BY <1>2 DEF Reset
<1>3. CASE Start
  BY <1>3 DEF Start, StartNext
<1>4. CASE Move
  BY <1>4 DEF Move, MoveNext, Deliver, Advance, Arrive, StopForward, ReportDistance,
    SeeWhileTurning, topics
<1>5. CASE UNCHANGED vars
  BY <1>5 DEF vars, fieldVars
<1>6. QED
  BY <1>1, <1>2, <1>3, <1>4, <1>5 DEF Next

LEMMA TrueMap ==
  ASSUME Belief \in TrueBeliefs
  PROVE  MapIsTrue
BY DEF TrueBeliefs, Belief, MapIsTrue, IsTrue

LEMMA MappedStep ==
  ASSUME Careful
  PROVE  /\ Types /\ Types' /\ StopsAtOnce /\ NoCollision /\ NoCollision' /\ Mapped
         /\ [Next]_vars /\ [KeepsMap]_vars
         => Mapped'
<1> SUFFICES ASSUME Types, Types', StopsAtOnce, NoCollision, NoCollision', Mapped,
                    [Next]_vars, [KeepsMap]_vars
             PROVE  Mapped'
  OBVIOUS
<1>1. reports \in Seq(Reports) /\ ServerInv /\ FieldInv
  BY DEF Types, TopicsInv
<1>2. world' = world /\ TrueBeliefs' = TrueBeliefs /\ Apart'
  <2>1. world' = world
    BY WorldStays
  <2>2. QED
    BY <2>1 DEF TrueBeliefs, IsTrue, Mapped, Apart
<1>3. ASSUME UNCHANGED tiles
      PROVE  MapIsTrue'
  BY <1>2, <1>3 DEF Mapped, MapIsTrue
<1>4. ASSUME MapIsTrue',
             alive' => \E c \in TrueBeliefs :
                         Told(TrueBeliefs, Belief', reports', c) /\ Agrees(c)' /\ Sees(c)'
      PROVE  Mapped'
  BY <1>2, <1>4 DEF Mapped, Told
<1>5. ASSUME UNCHANGED <<alive, rover, stash, tiles, stopData, reports>>,
             UNCHANGED fieldVars
      PROVE  Mapped'
  <2>1. CASE ~ alive'
    BY <1>3, <1>4, <1>5, <2>1
  <2>2. CASE alive'
    <3>1. PICK c \in TrueBeliefs : Told(TrueBeliefs, Belief, reports, c) /\ Agrees(c) /\ Sees(c)
      BY <1>5, <2>2 DEF Mapped
    <3>2. Belief' = Belief /\ reports' = reports
      BY <1>5 DEF Belief
    <3>3. Agrees(c)' /\ Sees(c)'
      BY <1>5, <3>1, AgreesStays, SeesStays DEF fieldVars
    <3>4. QED
      BY <1>3, <1>4, <1>5, <3>1, <3>2, <3>3
  <2>3. QED
    BY <2>1, <2>2
<1>6. CASE AskForTarget
  BY <1>5, <1>6 DEF AskForTarget, StartAutonomous, TargetCoords, topics
<1>7. CASE DriveManually
  BY <1>5, <1>7 DEF DriveManually, ManualDrive, serverVars
<1>8. CASE EndExploration
  BY <1>5, <1>8 DEF EndExploration, StopAutonomous, topics
<1>9. CASE HandleRequest
  BY <1>5, <1>9 DEF HandleRequest, RequestNext, MakeInstructions, PublishNext, topics
<1>10. CASE UNCHANGED vars
  BY <1>5, <1>10 DEF vars, serverVars, topics
<1>11. CASE Reset
  <2>1. /\ alive /\ stash = Nothing /\ reports = <<>> /\ phase = "ready"
        /\ rover' = NewRover /\ tiles' = NewMap /\ body' = NewRover
        /\ UNCHANGED <<reports, stash, stopData, doing, gone, phase, lastSent>> /\ Act
    BY <1>11 DEF Reset, ResetMap, Quiet, topics
  <2>2. lastSent = "none"
    <3>1. acts' # acts
      BY <2>1 DEF Act, Types
    <3>2. QED
      BY <1>11, <3>1 DEF KeepsMap, vars
  <2>3. gone = 0
    BY <2>1 DEF Mapped, Agrees
  <2>4. IsTrue(tiles') /\ MapIsTrue'
    BY <1>2, <2>1, NewMapTrue DEF MapIsTrue
  <2>5. PICK b \in TrueBeliefs : b = Belief'
    BY <2>4, BeliefType DEF Types, Belief, Beliefs, ServerInv, TrueBeliefs
  <2>6. Expected(b) = NewRover /\ b.stash = Nothing
    BY <2>1, <2>5, NewIs DEF Belief
  <2>7. Agrees(b)'
    BY <2>1, <2>3, <2>6 DEF Agrees, Expected
  <2>8. Sees(b)'
    <3>1. Known(b)' /\ Clear(b)' /\ Facing(b)'
      <4>1. Known(b)'
        BY <1>1, <1>2, <2>1, <2>2 DEF FieldInv, Known, Colours
      <4>2. QED
        BY <2>6, IndicesAre, <4>1 DEF Clear, Facing, Nothing, TurnKinds
    <3>2. QED
      BY <2>1, <3>1 DEF Sees, Driving, Turning
  <2>9. Told(TrueBeliefs, b, <<>>, b)
    BY ToldNothing
  <2>10. QED
    BY <1>4, <2>1, <2>4, <2>5, <2>7, <2>8, <2>9
<1>12. CASE HandleReport
  <2>1. ReportNext /\ UNCHANGED fieldVars
    BY <1>12 DEF HandleReport
  <2>2. CASE Panic
    <3>1. alive' = FALSE /\ UNCHANGED tiles
      BY <2>2 DEF Panic
    <3>2. QED
      BY <1>3, <1>4, <3>1
  <2>3. CASE ~ Panic
    <3>1. PICK c \in TrueBeliefs : Told(TrueBeliefs, Belief, reports, c) /\ Agrees(c) /\ Sees(c)
      BY <1>1, <2>1, <2>3, HandlersHear DEF Mapped
    <3>2. Told(TrueBeliefs, Belief', reports', c)
      BY <1>1, <2>1, <2>3, <3>1, ToldHandled
    <3>3. Agrees(c)' /\ Sees(c)'
      BY <2>1, <3>1, AgreesStays, SeesStays DEF fieldVars
    <3>4. MapIsTrue'
      <4>1. reports' \in Seq(Reports)
        BY DEF Types, TopicsInv
      <4>2. Belief' \in TrueBeliefs
        BY <3>2, <4>1, ToldEnds
      <4>3. IsTrue(tiles')
        BY <4>2 DEF TrueBeliefs, Belief
      <4>4. QED
        BY <1>2, <4>3 DEF IsTrue, MapIsTrue
    <3>5. QED
      BY <1>4, <3>1, <3>2, <3>3, <3>4
  <2>4. QED
    BY <2>2, <2>3
<1>13. CASE Start \/ Move
  <2>1. (StartNext \/ MoveNext) /\ UNCHANGED <<alive, rover, stash, tiles, stopData>>
    BY <1>13 DEF Start, Move, serverVars
  <2>2. CASE ~ alive'
    BY <1>3, <1>4, <2>1, <2>2
  <2>3. CASE alive'
    <3>1. PICK c \in TrueBeliefs : Told(TrueBeliefs, Belief, reports, c) /\ Agrees(c) /\ Sees(c)
      BY <2>1, <2>3 DEF Mapped
    <3>2. c \in Beliefs /\ Apart
      BY DEF TrueBeliefs, Mapped
    <3>3. PICK d \in Beliefs : Follows(c, d)
      BY <2>1, <3>2, SomethingFollows
    <3>4. Sees(d)' /\ d \in TrueBeliefs
          /\ (SeeWhileTurning => Hears(c, Sighted) \in TrueBeliefs)
      BY <3>1, <3>2, <3>3, FollowsSees DEF TrueBeliefs
    <3>5. Told(TrueBeliefs, Belief', reports', d)
      BY <2>1, <3>1, <3>3, <3>4, FollowsIsTold
    <3>6. Agrees(d)'
      BY <3>1, <3>2, <3>3, FollowsAgrees
    <3>7. QED
      BY <1>3, <1>4, <2>1, <3>4, <3>5, <3>6
  <2>4. QED
    BY <2>2, <2>3
<1>14. QED
  BY <1>6, <1>7, <1>8, <1>9, <1>10, <1>11, <1>12, <1>13 DEF Next

(***************************************************************************)
(* The map tells the truth of a field whose obstacles differ in colour, if *)
(* the rover has not driven into one of them, stops come before it has     *)
(* left its tile, and the map is reset only when all is over and on it,    *)
(* and vision has sent no obstacle: no order of reports, requests and      *)
(* moves makes the handler put an obstacle on a wrong tile, or take one    *)
(* off the map.                                                            *)
(***************************************************************************)
THEOREM MapStaysTrue ==
  ASSUME DistinctColours, Careful
  PROVE  Spec /\ []StopsAtOnce /\ []NoCollision /\ [][KeepsMap]_vars => []MapIsTrue
<1>1. Init => Mapped
  BY MappedInit
<1>2. Mapped => MapIsTrue
  BY DEF Mapped
<1>3. QED
  BY <1>1, <1>2, TypesInvariant, MappedStep, PTL DEF Spec


-----------------------------------------------------------------------------
(***************************************************************************)
(* An open field: nothing is ever seen.                                    *)
(***************************************************************************)
Open == DOMAIN world = {} /\ phase # "stopping" /\ lastSent = "none"

LEMMA OpenInit == Obstacles = {{}} /\ Init => Open
<1> SUFFICES ASSUME Obstacles = {{}}, Init PROVE Open
  OBVIOUS
<1>1. PICK S \in Obstacles :
        world = [t \in {o.tile : o \in S} |-> (CHOOSE o \in S : o.tile = t).colour]
  BY DEF Init
<1>2. {o.tile : o \in S} = {}
  OBVIOUS
<1>3. DOMAIN world = {}
  BY <1>1, <1>2
<1>4. QED
  BY <1>3 DEF Open, Init, FieldInit

LEMMA OpenStep == Open /\ [Next]_vars => Open'
<1> SUFFICES ASSUME Open, [Next]_vars PROVE Open'
  OBVIOUS
<1>1. ~ InSight /\ phase # "stopping" /\ UNCHANGED world
  BY WorldStays DEF Open, InSight
<1>2. ASSUME phase' # "stopping", UNCHANGED lastSent PROVE Open'
  BY <1>1, <1>2 DEF Open
<1>3. CASE AskForTarget \/ DriveManually \/ EndExploration \/ HandleReport \/ HandleRequest
  BY <1>1, <1>2, <1>3
    DEF AskForTarget, DriveManually, EndExploration, HandleReport, HandleRequest, fieldVars
<1>4. CASE Reset
  BY <1>1, <1>2, <1>4 DEF Reset
<1>5. CASE Start
  BY <1>1, <1>2, <1>5 DEF Start, StartNext
<1>6. CASE Move
  BY <1>1, <1>2, <1>6 DEF Move, MoveNext, Deliver, Advance, Arrive, Complete, StopForward,
    ReportDistance, SeeWhileTurning
<1>7. CASE UNCHANGED vars
  BY <1>1, <1>2, <1>7 DEF vars, fieldVars
<1>8. QED
  BY <1>3, <1>4, <1>5, <1>6, <1>7 DEF Next

LEMMA OpenIs ==
  Open => StopsAtOnce /\ NoCollision /\ KeepsMap
BY DEF Open, StopsAtOnce, NoCollision, KeepsMap

(***************************************************************************)
(* On an open field the server knows where the rover is, and its map is    *)
(* true, whatever is asked of it and when: targets, explorations and       *)
(* manual drives, before the reports of the last move have come. Only a    *)
(* reset must wait until all is over and on the map: one that comes while  *)
(* the rover drives, or after the end of a sequence was dropped, loses it  *)
(* (HTTPPost.go:117 leaves the stash and what is on its way).              *)
(***************************************************************************)
THEOREM OpenFieldIsKnown ==
  ASSUME Obstacles = {{}}, Careful
  PROVE  Spec => [](DeadReckoning /\ MapIsTrue)
<1>1. Init => Open
  BY OpenInit
<1>2. DistinctColours
  BY DEF DistinctColours
<1>3. Spec => []Open
  BY <1>1, OpenStep, PTL DEF Spec
<1>4. Open /\ [Next]_vars => [KeepsMap]_vars
  BY OpenIs
<1>5. Spec /\ []Open => []StopsAtOnce /\ []NoCollision /\ [][KeepsMap]_vars
  BY <1>4, OpenIs, PTL DEF Spec
<1>6. QED
  BY <1>2, <1>3, <1>5, PlaceIsKnown, MapStaysTrue, PTL

=============================================================================
