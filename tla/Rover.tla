-------------------------------- MODULE Rover --------------------------------
(***************************************************************************)
(* The rover: the control board and the drive board, joined by a UART, with *)
(* the command server and the vision system as their environment.          *)
(*                                                                         *)
(* A "ready" of the drive is a permission to send it one instruction.  The *)
(* permission travels: drive -> toControl -> ready -> toDrive -> drive.    *)
(* Much of what the server relies on follows from there being just one.    *)
(***************************************************************************)
EXTENDS Controller, Drive

(***************************************************************************)
(* FALSE: nothing is assumed of the relative speed of the tasks and the    *)
(* two boards.  TRUE: only the schedules in which they keep the pace their *)
(* delays give them (PaceOfDriveTask, PaceOfDriveBoard).                   *)
(***************************************************************************)
CONSTANT Timely

ASSUME TimelyAssumption == Timely \in BOOLEAN

vars == <<linkVars, controllerVars, driveVars>>

TypeOK == LinksTypeOK /\ ControllerTypeOK /\ DriveTypeOK

Init == LinksInit /\ ControllerInit /\ DriveInit

(***************************************************************************)
(* The pace: the vision task has the highest priority and its handler      *)
(* blocks only to publish, so the rest of it takes no time; a pass of the  *)
(* drive task lasts 2 s (uart.c:61, 120), in which the drive, whose loop   *)
(* takes 1 ms, has read what it was sent; and the drive waits 2 s between  *)
(* the two parts of its answer to a stop, "S" and "R" (drive.ino:97), in   *)
(* which control reads the "S".                                            *)
(***************************************************************************)
HandlerRuns == visionPc \notin {"idle", "reportTurnStop"}

PaceOfDriveTask ==
  Timely => /\ ~ HandlerRuns
            /\ drivePc = "read" /\ driveMode = "loop" => toDrive = <<>>

PaceOfDriveBoard ==
  Timely => /\ ~ HandlerRuns
            /\ driveMode = "stopped" =>
                 \A i \in DOMAIN toControl : toControl[i] # "S"

Server     == ServerNext     /\ UNCHANGED <<controllerVars, driveVars>>
Startup    == Boot           /\ UNCHANGED driveVars
MqttTask   == MqttNext       /\ UNCHANGED driveVars
DriveTask  == DriveTaskNext  /\ UNCHANGED driveVars /\ PaceOfDriveTask
VisionData == VisionStop     /\ UNCHANGED driveVars
VisionTask == VisionTaskNext /\ UNCHANGED driveVars
DriveBoard == DriveNext      /\ UNCHANGED controllerVars /\ PaceOfDriveBoard

Next == \/ Server \/ Startup \/ MqttTask \/ DriveTask
        \/ VisionData \/ VisionTask \/ DriveBoard

Spec == Init /\ [][Next]_vars

(***************************************************************************)
(* The boards are powered, so a boot ends; FreeRTOS gives every task that  *)
(* is ready to run its turn (two cores, and the tasks of high priority     *)
(* block); the loop of the drive board runs for ever, and a move that goes *)
(* on is done at some point.  Nothing obliges the server to publish or     *)
(* vision to see an obstacle.                                              *)
(***************************************************************************)
Fairness ==
  /\ WF_vars(Startup)
  /\ WF_vars(MqttTask)
  /\ WF_vars(DriveTask)
  /\ WF_vars(VisionTask)
  /\ WF_vars(DriveBoard)
  /\ WF_vars(ContinueInstruction(TRUE) /\ UNCHANGED controllerVars)

FairSpec == Spec /\ Fairness

-----------------------------------------------------------------------------
(***************************************************************************)
(* Permissions to send.                                                    *)
(***************************************************************************)
One(p) == IF p THEN 1 ELSE 0

ReadyTokens == Cardinality({i \in DOMAIN toControl : toControl[i] = "R"})

\* Where a permission is: held by control, on its way to control, on its
\* way back as an instruction or a stop, or with the drive.
Permissions == One(ready) + ReadyTokens + Len(toDrive) + One(Busy)

(***************************************************************************)
(* Each stop adds at most one permission to the one the drive starts with  *)
(* (drive.ino:98 answers every stop with an "R"), and nothing else adds    *)
(* any.                                                                    *)
(***************************************************************************)
PermissionsBounded == Permissions <= 1 + stops

(***************************************************************************)
(* Although control reads only the last character of what has arrived      *)
(* (uart.c:66), it never loses the last permission: while the board stays  *)
(* up, a rover that could move on can still do so.                         *)
(***************************************************************************)
PermissionKept ==
  [][Up /\ Up' /\ Permissions >= 1 => Permissions' >= 1]_vars

(***************************************************************************)
(* Until the first stop there is one permission at most.                   *)
(***************************************************************************)
OnePermission ==
  stops = 0 => One(ready) + Len(toControl) + Len(toDrive) + One(Busy) <= 1

(***************************************************************************)
(* Until the first stop, when control sends the next instruction or tells  *)
(* the server that a sequence has ended, the drive has completed all the   *)
(* earlier ones.  The server moves its rover on the map on these reports.  *)
(***************************************************************************)
ReportsFollowExecution ==
  stops = 0 /\ drivePc \in {"send", "reportEnd"} => ~ Busy /\ toDrive = <<>>

-----------------------------------------------------------------------------
Ascending(s) ==
  \A i, j \in DOMAIN s :
    i < j /\ s[i].number # 0 /\ s[j].number # 0 => s[i].number < s[j].number

(***************************************************************************)
(* The server hears of its instructions in the order it published them,    *)
(* and of none twice (mqttGeneral.go:38): it derives the rover's position  *)
(* and direction from these reports.                                       *)
(***************************************************************************)
FeedbackInOrder == Ascending(feedback)

(***************************************************************************)
(* When the vision task has handled a stop, no instruction that was in the *)
(* queue when it began to flush is still there (spi.c:164), although the   *)
(* other tasks went on adding and removing instructions.                   *)
(***************************************************************************)
FlushLeavesNothing ==
  visionPc # "flush" =>
    \A i \in DOMAIN queue : queue[i].number \notin 1..flushMark

(***************************************************************************)
(* Every distance the server gets (SD) belongs to a stop it has been told  *)
(* of before (S): it applies the two together, and takes the obstacle from *)
(* the S (mqttGeneral.go:198).                                             *)
(***************************************************************************)
Count(kinds, n) == Cardinality({i \in 1..n : feedback[i].kind \in kinds})

DistanceFollowsStop ==
  \A n \in DOMAIN feedback : Count({"SD", "SDturn"}, n) <= Count({"S"}, n)

(***************************************************************************)
(* The first stop reaches a rover that moves forward (spi.c:149), provided *)
(* the drive task is not between sending an instruction and recording it   *)
(* as the current one (uart.c:109-116).                                    *)
(***************************************************************************)
Recording == drivePc \in {"report", "setCurrent"}

DecidesToStop == visionPc' = "setForwardStop"

FirstStopObeyed ==
  [][visionPc = "decide" /\ visionPc' # "decide"
       /\ stops = 1 /\ MovingForward /\ ~ Recording => DecidesToStop]_vars

-----------------------------------------------------------------------------
(***************************************************************************)
(* The rover does not get stuck: while there is a permission, an           *)
(* instruction in the queue leaves it, to the drive, to the server or      *)
(* flushed by a stop.                                                      *)
(***************************************************************************)
Queued(n) == \E i \in DOMAIN queue : queue[i].number = n

QueueDrains ==
  \A n \in 1..MaxInstructions :
    (Up /\ Permissions >= 1 /\ Queued(n)) ~> ~ Queued(n)

(***************************************************************************)
(* If no stop interferes, the end of a sequence that is in the queue is    *)
(* reported: the server waits for it to update the map and, when the rover *)
(* explores, to plan the next sequence (mqttGeneral.go:167-190).           *)
(***************************************************************************)
QueuedEnd(n) == \E i \in DOMAIN queue : queue[i] = [kind |-> "X", number |-> n]

Reported(n) == \E i \in DOMAIN feedback : feedback[i].number = n

EndIsReported ==
  \A n \in 1..MaxInstructions :
    (Up /\ Permissions >= 1 /\ QueuedEnd(n)) ~> (Reported(n) \/ stops > 0)

-----------------------------------------------------------------------------
(***************************************************************************)
(* spi.c:149: a stop is needed, and sent, "if moving forward".             *)
(***************************************************************************)
StopObeyed ==
  [][visionPc = "decide" /\ visionPc' # "decide" /\ MovingForward
       => DecidesToStop]_vars

(***************************************************************************)
(* uart.c:82: control will "only send next instruction if drive is ready", *)
(* so that the drive never takes an instruction in place of one that it is *)
(* still executing.                                                        *)
(***************************************************************************)
NoInstructionOverrun ==
  [][started /\ started' => instruction' = instruction]_vars

=============================================================================
