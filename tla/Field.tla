-------------------------------- MODULE Field --------------------------------
(***************************************************************************)
(* The rover on its field, as the server's design takes it to be: control, *)
(* drive and vision together (Rover has their tasks in detail), and the    *)
(* obstacles that stand there.                                             *)
(*                                                                         *)
(* An obstacle is seen when the rover is about to drive into its tile, or  *)
(* turns to face it ("only be in box in front", map_general.go:197).       *)
(* Vision sends an obstacle when its colour is not the last one it sent    *)
(* (main.c:268).                                                           *)
(***************************************************************************)
EXTENDS Topics

CONSTANT QueueLength   \* MAX_DRIVE_INSTRUCTION_SEQUENCE_LENGTH

ASSUME FieldAssumption == QueueLength \in Nat \ {0}

VARIABLES
  world,     \* the obstacles: from tiles to colours
  body,      \* where the rover is: x, y, rotation
  queue,     \* driveInstructionQueue
  doing,     \* the instruction being executed
  gone,      \* tiles driven of it
  phase,     \* "ready", "moving", or "stopping" until the distance is known
  lastSent   \* the colour vision sent last

fieldVars == <<world, body, queue, doing, gone, phase, lastSent>>

FieldTypeOK ==
  /\ DOMAIN world \subseteq Tiles
  /\ body \in [x : Int, y : Int, rotation : Rotations]
  /\ queue \in Seq([kind : InstructionKinds, value : Nat])
  /\ Len(queue) <= QueueLength
  /\ doing \in [kind : InstructionKinds \cup {"nil"}, value : Nat]
  /\ gone \in Nat
  /\ phase \in {"ready", "moving", "stopping"}
  /\ lastSent \in Colours \cup {"none"}

FieldInit(start) ==
  /\ body = start
  /\ queue = <<>>
  /\ doing = Nothing
  /\ gone = 0
  /\ phase = "ready"
  /\ lastSent = "none"

-----------------------------------------------------------------------------
Say(s) == reports' = reports \o s

\* The MQTT task of control; a full queue drops the message.
Deliver ==
  /\ topic # <<>>
  /\ topic' = Tail(topic)
  /\ queue' = IF Len(queue) < QueueLength THEN Append(queue, Head(topic)) ELSE queue
  /\ UNCHANGED <<reports, world, body, doing, gone, phase, lastSent>>

\* The drive is ready: the next instruction is sent to it and reported.
\* The end of a sequence is only reported.
StartNext ==
  /\ phase = "ready"
  /\ queue # <<>>
  /\ queue' = Tail(queue)
  /\ Say(<<Head(queue)>>)
  /\ IF Head(queue).kind = "X"
     THEN UNCHANGED <<doing, phase>>
     ELSE doing' = Head(queue) /\ phase' = "moving"
  /\ UNCHANGED <<topic, world, body, gone, lastSent>>

\* Mutant: control does not learn that the drive is ready.
Complete_NotReady ==
  /\ doing' = Nothing
  /\ gone' = 0
  /\ UNCHANGED phase

Complete ==
  /\ doing' = Nothing
  /\ gone' = 0
  /\ phase' = "ready"

\* The tile a forward or a turn leads to or faces, and its obstacle.
Faced == Place(Ahead(Turned(body, ChangeInRotation(doing)), 1))

InSight == Faced \in DOMAIN world /\ world[Faced] # lastSent

Advancing == phase = "moving" /\ doing.kind = "forward" /\ gone < doing.value

Turning == phase = "moving" /\ doing.kind \in TurnKinds

Advance ==
  /\ Advancing
  /\ ~ InSight
  /\ body' = Ahead(body, 1)
  /\ gone' = gone + 1
  /\ UNCHANGED <<topics, world, queue, doing, phase, lastSent>>

\* The move is done.  A backward only corrects the place within a tile.
Arrive ==
  /\ phase = "moving"
  /\ doing.kind = "forward" => gone = doing.value
  /\ Turning => ~ InSight
  /\ body' = IF Turning THEN After(body, doing) ELSE body
  /\ Complete
  /\ UNCHANGED <<topics, world, queue, lastSent>>

\* Vision stops a rover that moves forward: the drive is told, and the rest
\* of the sequence is thrown away.
StopForward ==
  /\ Advancing
  /\ InSight
  /\ lastSent' = world[Faced]
  /\ phase' = "stopping"
  /\ queue' = <<>>
  /\ Say(<<Report("S", world[Faced])>>)
  /\ UNCHANGED <<topic, world, body, doing, gone>>

\* The drive answers: control drives back to the last tile and passes the
\* distance on to the server.
ReportDistance ==
  /\ phase = "stopping"
  /\ queue' = IF Len(queue) < QueueLength
              THEN Append(queue, Report("backward", 0)) ELSE queue
  /\ Say(<<Report("SD", gone)>>)
  /\ Complete
  /\ UNCHANGED <<topic, world, body, lastSent>>

\* While the rover turns, an obstacle matters if a forward comes next; with
\* an empty queue the outcome depends on an uninitialised buffer.
SeeWhileTurning ==
  /\ Turning
  /\ InSight
  /\ lastSent' = world[Faced]
  /\ \E stops \in IF queue = <<>> THEN BOOLEAN ELSE {Head(queue).kind = "forward"} :
       IF stops
       THEN /\ Say(<<Report("S", world[Faced]), Report("SD", -1)>>)
            /\ queue' = <<>>
       ELSE /\ Say(<<Report("S", world[Faced])>>)
            /\ UNCHANGED queue
  /\ UNCHANGED <<topic, world, body, doing, gone, phase>>

MoveNext ==
  \/ Deliver \/ Advance \/ Arrive
  \/ StopForward \/ ReportDistance \/ SeeWhileTurning

=============================================================================
