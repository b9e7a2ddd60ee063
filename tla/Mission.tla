------------------------------- MODULE Mission -------------------------------
(***************************************************************************)
(* Server and rover, joined by the two topics, and an operator at the web  *)
(* page.  The question is whether the server knows where the rover is and  *)
(* what stands around it, and whether the rover gets where it was sent.    *)
(***************************************************************************)
EXTENDS MapServer, Field

CONSTANTS
  Patient,      \* TRUE: the operator waits until nothing goes on
  Careful,      \* TRUE: the operator resets the map only when all is over
  Prompt,       \* TRUE: a sequence has arrived before the rover starts on it
  MaxActs,      \* bound: requests, manual drives and resets
  Modes,        \* bound: the modes of the targets
  Targets,      \* bound: the tiles asked for
  Steps,        \* bound: the distances of a manual drive, in tiles
  Obstacles     \* bound: the obstacles of the field, sets of [tile, colour]

ASSUME MissionAssumption ==
  /\ {Patient, Careful, Prompt} \subseteq BOOLEAN
  /\ MaxActs \in Nat
  /\ Modes \subseteq Simple..Explore
  /\ Targets \subseteq Tiles
  /\ Steps \subseteq Nat
  /\ \A S \in Obstacles : S \subseteq [tile : Tiles, colour : Colours]

VARIABLE acts   \* how many there were

vars == <<topics, serverVars, fieldVars, acts>>

TypeOK ==
  /\ TopicsTypeOK /\ ServerTypeOK /\ FieldTypeOK
  /\ acts \in 0..MaxActs

Init ==
  /\ TopicsInit
  /\ ServerInit
  /\ FieldInit(NewRover)
  /\ \E S \in Obstacles :
       world = [t \in {o.tile : o \in S} |->
                  (CHOOSE o \in S : o.tile = t).colour]
  /\ acts = 0

\* Nothing goes on any more.
Quiet ==
  /\ request = NoRequest
  /\ topic = <<>> /\ reports = <<>>
  /\ queue = <<>> /\ phase = "ready"

-----------------------------------------------------------------------------
Act == acts < MaxActs /\ acts' = acts + 1

AskForTarget ==
  /\ Patient => Quiet
  /\ Act
  /\ \E t \in Targets, m \in Modes :
       IF m = Explore THEN StartAutonomous(t) ELSE TargetCoords(t, m)
  /\ UNCHANGED fieldVars

DriveManually ==
  /\ Patient => Quiet
  /\ Act
  /\ \E instructions \in {<<Forward(n)>> : n \in Steps} \cup {<<Right>>, <<Left, Left>>} :
       ManualDrive(instructions)
  /\ UNCHANGED fieldVars

EndExploration ==
  /\ exploring
  /\ StopAutonomous
  /\ UNCHANGED <<fieldVars, acts>>

(***************************************************************************)
(* The operator resets the map and puts the rover back at the start.       *)
(* resetMap may be posted at any time (HTTPPost.go:117); a careful         *)
(* operator waits until nothing goes on and the last instruction is on the *)
(* map.  Otherwise reports of what the rover did before the reset, or the  *)
(* stash, which stays when a full queue has dropped the end of a sequence, *)
(* are applied to the rover of the new map.                                *)
(***************************************************************************)
Reset ==
  /\ Patient => Quiet
  /\ Careful => Quiet /\ stash = Nothing
  /\ Act
  /\ ResetMap
  /\ body' = NewRover
  /\ UNCHANGED <<world, queue, doing, gone, phase, lastSent>>

HandleReport == ReportNext /\ UNCHANGED <<fieldVars, acts>>
HandleRequest == RequestNext /\ UNCHANGED <<fieldVars, acts>>
Start ==
  /\ Prompt => topic = <<>> /\ request = NoRequest
  /\ StartNext
  /\ UNCHANGED <<serverVars, acts>>

Move == MoveNext /\ UNCHANGED <<serverVars, acts>>

Next ==
  \/ AskForTarget \/ DriveManually \/ EndExploration \/ Reset
  \/ HandleReport \/ HandleRequest \/ Start \/ Move

Spec == Init /\ [][Next]_vars

(***************************************************************************)
(* The goroutines of the server run, messages arrive, the rover's tasks    *)
(* run and its moves end.  The operator need not do anything.              *)
(***************************************************************************)
Fairness ==
  /\ WF_vars(HandleReport)
  /\ WF_vars(HandleRequest)
  /\ WF_vars(Start) /\ WF_vars(Move)

FairSpec == Spec /\ Fairness

-----------------------------------------------------------------------------
(***************************************************************************)
(* Dead reckoning: when every report is handled and the rover is between   *)
(* two instructions, it is where the server's rover will be once the stash *)
(* is applied, and looks the same way (uart.c:74: "required for server to  *)
(* stop on correct tile").                                                 *)
(***************************************************************************)
DeadReckoning ==
  alive /\ reports = <<>> /\ phase = "ready" => After(rover, stash) = body

(***************************************************************************)
(* The map tells the truth: a tile that is empty on it is empty, and an    *)
(* obstacle on it stands there, with its colour (map_general.go:220).      *)
(***************************************************************************)
MapIsTrue ==
  \A t \in Tiles :
    /\ tiles[t] = Empty => t \notin DOMAIN world
    /\ tiles[t] >= Obstacle =>
         t \in DOMAIN world /\ tiles[t] = ObstacleValue(world[t])

(***************************************************************************)
(* The rover never drives into an obstacle, although vision does not send  *)
(* an obstacle twice in a row (main.c:268): by then the map has it.        *)
(***************************************************************************)
NoCollision == Place(body) \notin DOMAIN world

(***************************************************************************)
(* When all is quiet, the rover is at the target it was sent to, unless    *)
(* the map shows that there is no way.                                     *)
(***************************************************************************)
TargetReached ==
  Quiet /\ ~ exploring /\ destination # NoDestination =>
    \/ Place(body) = destination.tile
    \/ ShortestPaths(tiles, Place(body), destination.tile) = {}

(***************************************************************************)
(* A mission ends, however often the rover is stopped and sent on.         *)
(***************************************************************************)
MissionEnds == ~ Quiet ~> Quiet

(***************************************************************************)
(* The web page (index.html:137): "Rover will explore the full map with no *)
(* extra controls from user".                                              *)
(***************************************************************************)
ExploresFullMap ==
  Quiet /\ exploring =>
    \A t \in UnknownTiles(tiles) : ShortestPaths(tiles, Place(body), t) = {}

=============================================================================
