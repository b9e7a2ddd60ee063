------------------------------ MODULE Controller ------------------------------
(***************************************************************************)
(* The control board (ESP32): three FreeRTOS tasks on two cores that share *)
(* the drive instruction queue and currentDriveInstruction, with no lock.  *)
(*                                                                         *)
(*   MQTT task    handle_mqtt_event_data: fills the queue                  *)
(*   drive task   drive_uart_task: empties it towards the drive            *)
(*   vision task  handle_vision_stop_instruction: stops the rover and      *)
(*                flushes the queue                                        *)
(*                                                                         *)
(* A task can be preempted between any two accesses to what it shares with *)
(* the others, so each access is an action: drivePc and visionPc say which *)
(* access comes next.                                                      *)
(***************************************************************************)
EXTENDS Links

CONSTANTS
  QueueLength,   \* MAX_DRIVE_INSTRUCTION_SEQUENCE_LENGTH
  MaxStops,      \* bound: stop messages from vision
  MaxCrashes     \* bound: crashes of the control board

ASSUME ControllerAssumption ==
  /\ QueueLength \in Nat \ {0}
  /\ MaxStops \in Nat
  /\ MaxCrashes \in Nat

VARIABLES
  queue,      \* driveInstructionQueue
  current,    \* currentDriveInstruction; "none" is the empty string
  ready,      \* driveIsReady
  drivePc,    \* next step of the drive task; "down" while the board is down
  item,       \* queue_data: the instruction the drive task has dequeued
  visionPc,   \* next step of the vision task
  next,       \* the peeked next instruction is "forward"
  flushLeft,  \* receives left in flush_drive_instruction_queue
  flushMark,  \* history: highest number delivered when the last flush began
  stops,      \* stop messages received from vision
  crashes     \* crashes of the board

driveTaskVars == <<ready, drivePc, item>>
visionTaskVars == <<visionPc, next, flushLeft, flushMark, stops>>
controllerVars == <<queue, current, driveTaskVars, visionTaskVars, crashes>>

DrivePcs == {"down", "read", "checkBackward", "enqueueBackward",
             "reportDistance", "dequeue", "reportEnd", "clearCurrent",
             "send", "report", "setCurrent"}

VisionPcs == {"idle", "peek", "decide", "setForwardStop", "sendStop",
              "setTurnStop", "reportTurnStop", "flush"}

ControllerTypeOK ==
  /\ queue \in Seq(QueueMessage)
  /\ Len(queue) <= QueueLength
  /\ current \in MoveKinds \cup {"none", "SF", "ST"}
  /\ ready \in BOOLEAN
  /\ drivePc \in DrivePcs
  /\ item \in QueueMessage \cup {NoMessage}
  /\ visionPc \in VisionPcs
  /\ next \in BOOLEAN
  /\ flushLeft \in 0..QueueLength
  /\ flushMark \in Numbers
  /\ stops \in 0..MaxStops
  /\ crashes \in 0..MaxCrashes

ControllerInit ==
  /\ queue = <<>>
  /\ current = "none"
  /\ ready = FALSE
  /\ drivePc = "down"
  /\ item = NoMessage
  /\ visionPc = "idle"
  /\ next = FALSE
  /\ flushLeft = 0
  /\ flushMark = 0
  /\ stops = 0
  /\ crashes = 0

Up == drivePc # "down"

\* Mutant: a queue created longer than the flush expects.
HasRoom_OneMore == Len(queue) <= QueueLength

HasRoom == Len(queue) < QueueLength

Publish(m) == feedback' = Append(feedback, m)

-----------------------------------------------------------------------------
(***************************************************************************)
(* app_main: the wifi connection, the queue, the MQTT client, the UART     *)
(* driver, the tasks.  What arrived while the board was down is lost: the  *)
(* UART driver was not installed, and the MQTT session is a new one.       *)
(***************************************************************************)
Boot ==
  /\ ~ Up
  /\ drivePc' = "read"
  /\ inbox' = <<>>
  /\ toControl' = <<>>
  /\ UNCHANGED <<queue, current, ready, item, visionTaskVars, crashes,
                 published, toDrive, feedback>>

-----------------------------------------------------------------------------
\* Mutant: xQueueSendToFront.
EnqueueInstruction_ToFront ==
  /\ Up
  /\ inbox # <<>>
  /\ HasRoom
  /\ inbox' = Tail(inbox)
  /\ queue' = <<Head(inbox)>> \o queue
  /\ UNCHANGED <<current, driveTaskVars, visionTaskVars, crashes,
                 published, toDrive, toControl, feedback>>

\* The MQTT task.  xQueueSend to the back of the queue.
EnqueueInstruction ==
  /\ Up
  /\ inbox # <<>>
  /\ HasRoom
  /\ inbox' = Tail(inbox)
  /\ queue' = Append(queue, Head(inbox))
  /\ UNCHANGED <<current, driveTaskVars, visionTaskVars, crashes,
                 published, toDrive, toControl, feedback>>

\* The queue stays full for 10 ticks: xQueueSend fails, its result is ignored.
DropInstruction ==
  /\ Up
  /\ inbox # <<>>
  /\ ~ HasRoom
  /\ inbox' = Tail(inbox)
  /\ UNCHANGED <<controllerVars, published, toDrive, toControl, feedback>>

MqttNext == EnqueueInstruction \/ DropInstruction

-----------------------------------------------------------------------------
(***************************************************************************)
(* The drive task.  uart_read_bytes returns everything that has arrived,   *)
(* and only the last character of it is taken as the message.              *)
(***************************************************************************)
\* Mutant: the first message is taken.
Token_First == toControl[1]

Token == toControl[Len(toControl)]

ReadUart ==
  /\ drivePc = "read"
  /\ toControl' = <<>>
  /\ IF toControl = <<>>
     THEN /\ drivePc' = "dequeue"
          /\ UNCHANGED ready
     ELSE IF Token = "R"
     THEN /\ ready' = TRUE
          /\ drivePc' = "dequeue"
     ELSE /\ drivePc' = "checkBackward"
          /\ UNCHANGED ready
  /\ UNCHANGED <<queue, current, item, visionTaskVars, crashes,
                 published, inbox, toDrive, feedback>>

\* drive_backwards_to_last_valid_tile: its guard, then its xQueueSend.
CheckBackward ==
  /\ drivePc = "checkBackward"
  /\ drivePc' = IF current = "SF" THEN "enqueueBackward" ELSE "reportDistance"
  /\ UNCHANGED <<queue, current, ready, item, visionTaskVars, crashes, linkVars>>

EnqueueBackward ==
  /\ drivePc = "enqueueBackward"
  /\ drivePc' = "reportDistance"
  /\ queue' = IF HasRoom THEN Append(queue, Local("backward")) ELSE queue
  /\ UNCHANGED <<current, ready, item, visionTaskVars, crashes, linkVars>>

\* The second part of a stop, for the server.
ReportDistance ==
  /\ drivePc = "reportDistance"
  /\ drivePc' = "dequeue"
  /\ Publish(Local("SD"))
  /\ UNCHANGED <<queue, current, ready, item, visionTaskVars, crashes,
                 published, inbox, toDrive, toControl>>

\* Take the next instruction if the drive is ready, else end the pass.
Dequeue ==
  /\ drivePc = "dequeue"
  /\ IF ready /\ queue # <<>>
     THEN /\ queue' = Tail(queue)
          /\ item' = Head(queue)
          /\ drivePc' = IF Head(queue).kind = "X" THEN "reportEnd" ELSE "send"
     ELSE /\ drivePc' = "read"
          /\ UNCHANGED <<queue, item>>
  /\ UNCHANGED <<current, ready, visionTaskVars, crashes, linkVars>>

\* Mutant: the drive is taken to be busy after an X too.
ReportEnd_NotReady ==
  /\ drivePc = "reportEnd"
  /\ drivePc' = "clearCurrent"
  /\ Publish(item)
  /\ ready' = FALSE
  /\ UNCHANGED <<queue, current, item, visionTaskVars, crashes,
                 published, inbox, toDrive, toControl>>

\* X: the sequence is done.  The drive stays ready.
ReportEnd ==
  /\ drivePc = "reportEnd"
  /\ drivePc' = "clearCurrent"
  /\ Publish(item)
  /\ UNCHANGED <<queue, current, ready, item, visionTaskVars, crashes,
                 published, inbox, toDrive, toControl>>

ClearCurrent ==
  /\ drivePc = "clearCurrent"
  /\ drivePc' = "read"
  /\ current' = "none"
  /\ item' = NoMessage
  /\ UNCHANGED <<queue, ready, visionTaskVars, crashes, linkVars>>

\* Mutant: driveIsReady is not reset.
SendInstruction_StaysReady ==
  /\ drivePc = "send"
  /\ drivePc' = "report"
  /\ toDrive' = Append(toDrive, item)
  /\ UNCHANGED <<queue, current, ready, item, visionTaskVars, crashes,
                 published, inbox, toControl, feedback>>

SendInstruction ==
  /\ drivePc = "send"
  /\ drivePc' = "report"
  /\ toDrive' = Append(toDrive, item)
  /\ ready' = FALSE
  /\ UNCHANGED <<queue, current, item, visionTaskVars, crashes,
                 published, inbox, toControl, feedback>>

ReportInstruction ==
  /\ drivePc = "report"
  /\ drivePc' = "setCurrent"
  /\ Publish(item)
  /\ UNCHANGED <<queue, current, ready, item, visionTaskVars, crashes,
                 published, inbox, toDrive, toControl>>

SetCurrent ==
  /\ drivePc = "setCurrent"
  /\ drivePc' = "read"
  /\ current' = item.kind
  /\ item' = NoMessage
  /\ UNCHANGED <<queue, ready, visionTaskVars, crashes, linkVars>>

DriveTaskNext ==
  \/ ReadUart \/ CheckBackward \/ EnqueueBackward \/ ReportDistance
  \/ Dequeue \/ ReportEnd \/ ClearCurrent
  \/ SendInstruction \/ ReportInstruction \/ SetCurrent

-----------------------------------------------------------------------------
\* The vision task: a stop message, passed on to the server.
VisionStop ==
  /\ Up
  /\ visionPc = "idle"
  /\ stops < MaxStops
  /\ stops' = stops + 1
  /\ visionPc' = "peek"
  /\ Publish(Local("S"))
  /\ UNCHANGED <<queue, current, driveTaskVars, next, flushLeft, flushMark,
                 crashes, published, inbox, toDrive, toControl>>

(***************************************************************************)
(* xQueuePeek.  On an empty queue the buffer stays uninitialised: what is  *)
(* left of an earlier call on the stack may read as "forward", or as       *)
(* another word, or as the empty string (Crash).                           *)
(***************************************************************************)
Peek ==
  /\ visionPc = "peek"
  /\ visionPc' = "decide"
  /\ next' \in IF queue = <<>> THEN BOOLEAN ELSE {Head(queue).kind = "forward"}
  /\ UNCHANGED <<queue, current, driveTaskVars, flushLeft, flushMark, stops,
                 crashes, linkVars>>

\* strtok returns NULL for the empty string and strcmp(NULL, ...) panics: the
\* board restarts, and what it had in RAM is gone.
Crash ==
  /\ visionPc = "peek"
  /\ queue = <<>>
  /\ crashes < MaxCrashes
  /\ crashes' = crashes + 1
  /\ drivePc' = "down"
  /\ current' = "none"
  /\ ready' = FALSE
  /\ item' = NoMessage
  /\ visionPc' = "idle"
  /\ flushMark' = 0
  /\ UNCHANGED <<queue, next, flushLeft, stops, linkVars>>

\* Mutant: only a turn before a forward is stopped.
Decide_TurnFirst ==
  /\ visionPc = "decide"
  /\ visionPc' = IF next THEN "setTurnStop"
                 ELSE IF current = "forward" THEN "setForwardStop" ELSE "idle"
  /\ next' = FALSE
  /\ UNCHANGED <<queue, current, driveTaskVars, flushLeft, flushMark, stops,
                 crashes, linkVars>>

Decide ==
  /\ visionPc = "decide"
  /\ visionPc' = IF current = "forward" THEN "setForwardStop"
                 ELSE IF next THEN "setTurnStop" ELSE "idle"
  /\ next' = FALSE
  /\ UNCHANGED <<queue, current, driveTaskVars, flushLeft, flushMark, stops,
                 crashes, linkVars>>

SetForwardStop ==
  /\ visionPc = "setForwardStop"
  /\ visionPc' = "sendStop"
  /\ current' = "SF"
  /\ UNCHANGED <<queue, driveTaskVars, next, flushLeft, flushMark, stops,
                 crashes, linkVars>>

\* Mutant: one receive too few.
StartFlush_OneLess ==
  /\ visionPc' = "flush"
  /\ flushLeft' = QueueLength - 1
  /\ flushMark' = Delivered

\* flush_drive_instruction_queue starts with as many receives as can be needed.
StartFlush ==
  /\ visionPc' = "flush"
  /\ flushLeft' = QueueLength
  /\ flushMark' = Delivered

SendStop ==
  /\ visionPc = "sendStop"
  /\ toDrive' = Append(toDrive, Local("stop"))
  /\ StartFlush
  /\ UNCHANGED <<queue, current, driveTaskVars, next, stops, crashes,
                 published, inbox, toControl, feedback>>

SetTurnStop ==
  /\ visionPc = "setTurnStop"
  /\ visionPc' = "reportTurnStop"
  /\ current' = "ST"
  /\ UNCHANGED <<queue, driveTaskVars, next, flushLeft, flushMark, stops,
                 crashes, linkVars>>

\* "SD:-1": the stop comes from a turn.
ReportTurnStop ==
  /\ visionPc = "reportTurnStop"
  /\ Publish(Local("SDturn"))
  /\ StartFlush
  /\ UNCHANGED <<queue, current, driveTaskVars, next, stops, crashes,
                 published, inbox, toDrive, toControl>>

\* One xQueueReceive of the flush, which takes nothing from an empty queue.
Flush ==
  /\ visionPc = "flush"
  /\ flushLeft > 0
  /\ flushLeft' = flushLeft - 1
  /\ visionPc' = IF flushLeft = 1 THEN "idle" ELSE "flush"
  /\ queue' = IF queue = <<>> THEN queue ELSE Tail(queue)
  /\ UNCHANGED <<current, driveTaskVars, next, flushMark, stops, crashes,
                 linkVars>>

VisionTaskNext ==
  \/ Peek \/ Crash \/ Decide
  \/ SetForwardStop \/ SendStop
  \/ SetTurnStop \/ ReportTurnStop
  \/ Flush

=============================================================================
