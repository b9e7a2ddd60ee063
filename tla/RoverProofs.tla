----------------------------- MODULE RoverProofs -----------------------------
(***************************************************************************)
(* Theorems about Rover, for every value of its constants.                 *)
(***************************************************************************)
EXTENDS Rover, SequenceTheorems, TLAPS

-----------------------------------------------------------------------------
(***************************************************************************)
(* Type correctness.  What the drive task holds depends on its next step,  *)
(* and the number the flush starts from is a number of an instruction.     *)
(***************************************************************************)
ItemOK ==
  /\ drivePc \in {"send", "report", "setCurrent"} => item \in Message(MoveKinds)
  /\ drivePc = "reportEnd" => item \in Message({"X"})

InboxOK == Len(inbox) <= published

TypeInv == TypeOK /\ ItemOK /\ InboxOK

LEMMA MessageKinds ==
  /\ Message(ServerKinds) \subseteq QueueMessage
  /\ Message(MoveKinds) \subseteq QueueMessage
  /\ Message(MoveKinds) \subseteq DriveMessage
  /\ Message(MoveKinds) \subseteq FeedbackMessage
  /\ Message({"X"}) \subseteq FeedbackMessage
  /\ \A m \in QueueMessage : m.kind = "X" => m \in Message({"X"})
  /\ \A m \in QueueMessage : m.kind # "X" => m \in Message(MoveKinds)
  /\ \A m \in DriveMessage : m.kind \in MoveKinds => m \in Message(MoveKinds)
BY DEF Message, QueueMessage, DriveMessage, FeedbackMessage,
       ServerKinds, MoveKinds

LEMMA LocalMessages ==
  /\ Local("backward") \in QueueMessage
  /\ Local("stop") \in DriveMessage
  /\ Local("S") \in FeedbackMessage
  /\ Local("SD") \in FeedbackMessage
  /\ Local("SDturn") \in FeedbackMessage
  /\ NoMessage.kind = "none"
  /\ \A m \in Message(MoveKinds) : m.kind # "none"
<1>1. 0 \in Numbers
  BY MaxInstructionsAssumption DEF Numbers
<1>2. QED
  BY <1>1 DEF Local, NoMessage, Message, QueueMessage, DriveMessage,
              FeedbackMessage, MoveKinds

LEMMA NewMessage ==
  ASSUME NEW kinds, NEW k \in kinds, NEW n \in Numbers
  PROVE  [kind |-> k, number |-> n] \in Message(kinds)
BY DEF Message

LEMMA EmptyLen == Len(<<>>) = 0
BY EmptySeq

LEMMA InitTypeInv == Init => TypeInv
<1> SUFFICES ASSUME Init PROVE TypeInv
  OBVIOUS
<1>1. LinksTypeOK
  BY MaxInstructionsAssumption DEF Init, LinksInit, LinksTypeOK, Numbers
<1>2. ControllerTypeOK
  <2>1. queue \in Seq(QueueMessage) /\ Len(queue) = 0
    BY EmptySeq DEF Init, ControllerInit
  <2>2. /\ flushLeft \in 0..QueueLength
        /\ flushMark \in Numbers
        /\ stops \in 0..MaxStops
        /\ crashes \in 0..MaxCrashes
    BY MaxInstructionsAssumption, ControllerAssumption
       DEF Init, ControllerInit, Numbers
  <2>3. /\ current \in MoveKinds \cup {"none", "SF", "ST"}
        /\ drivePc \in DrivePcs
        /\ visionPc \in VisionPcs
        /\ item \in QueueMessage \cup {NoMessage}
        /\ ready \in BOOLEAN
        /\ next \in BOOLEAN
    BY DEF Init, ControllerInit, DrivePcs, VisionPcs
  <2>4. QED
    BY <2>1, <2>2, <2>3, ControllerAssumption DEF ControllerTypeOK
<1>3. DriveTypeOK
  BY DEF Init, DriveInit, DriveTypeOK
<1>4. ItemOK /\ InboxOK
  BY EmptyLen DEF Init, LinksInit, ControllerInit, ItemOK, InboxOK
<1>5. QED
  BY <1>1, <1>2, <1>3, <1>4 DEF TypeInv, TypeOK

LEMMA ServerTypeInv ==
  ASSUME TypeInv, Server
  PROVE  TypeInv'
<1>1. PICK k \in ServerKinds : PublishInstruction(k)
  BY DEF Server, ServerNext
<1>2. published' \in Numbers
  BY <1>1, MaxInstructionsAssumption
     DEF PublishInstruction, TypeInv, TypeOK, LinksTypeOK, Numbers
<1>3. [kind |-> k, number |-> published + 1] \in Message(ServerKinds)
  BY <1>1, <1>2, NewMessage DEF PublishInstruction
<1>4. inbox' \in Seq(Message(ServerKinds)) /\ Len(inbox') = Len(inbox) + 1
  BY <1>1, <1>3 DEF PublishInstruction, TypeInv, TypeOK, LinksTypeOK
<1>5. Len(inbox') <= published'
  BY <1>1, <1>4 DEF PublishInstruction, TypeInv, TypeOK, LinksTypeOK, InboxOK,
                    Numbers
<1>6. QED
  BY <1>1, <1>2, <1>4, <1>5
     DEF PublishInstruction, Server, TypeInv, TypeOK, ItemOK, InboxOK,
         LinksTypeOK, ControllerTypeOK, DriveTypeOK, controllerVars,
         driveTaskVars, visionTaskVars, driveVars

LEMMA StartupTypeInv ==
  ASSUME TypeInv, Startup
  PROVE  TypeInv'
<1>1. DriveTypeOK'
  BY DEF TypeInv, TypeOK, DriveTypeOK, Startup, driveVars
<1>2. LinksTypeOK' /\ InboxOK'
  BY DEF TypeInv, TypeOK, LinksTypeOK, InboxOK, Startup, Boot, Numbers
<1>3. ControllerTypeOK' /\ ItemOK'
  BY DEF TypeInv, TypeOK, ControllerTypeOK, ItemOK, Startup, Boot, DrivePcs,
         visionTaskVars
<1>4. QED
  BY <1>1, <1>2, <1>3 DEF TypeInv, TypeOK

LEMMA MqttTaskTypeInv ==
  ASSUME TypeInv, MqttTask
  PROVE  TypeInv'
<1>1. DriveTypeOK'
  BY DEF TypeInv, TypeOK, DriveTypeOK, MqttTask, driveVars
<1>2. inbox # <<>> /\ inbox' = Tail(inbox)
  BY DEF MqttTask, MqttNext, EnqueueInstruction, DropInstruction
<1>3. /\ inbox' \in Seq(Message(ServerKinds))
      /\ Head(inbox) \in Message(ServerKinds)
      /\ Len(inbox') <= Len(inbox)
  BY <1>2 DEF TypeInv, TypeOK, LinksTypeOK
<1>4. LinksTypeOK' /\ InboxOK'
  BY <1>3 DEF TypeInv, TypeOK, LinksTypeOK, InboxOK, Numbers, MqttTask, MqttNext,
              EnqueueInstruction, DropInstruction
<1>5. queue' \in Seq(QueueMessage) /\ Len(queue') <= QueueLength
  <2>1. CASE EnqueueInstruction
    BY <2>1, <1>3, MessageKinds, ControllerAssumption, AppendProperties
       DEF TypeInv, TypeOK, ControllerTypeOK, EnqueueInstruction, HasRoom
  <2>2. CASE DropInstruction
    BY <2>2 DEF TypeInv, TypeOK, ControllerTypeOK, DropInstruction,
                controllerVars
  <2>3. QED
    BY <2>1, <2>2 DEF MqttTask, MqttNext
<1>6. ControllerTypeOK' /\ ItemOK'
  BY <1>5 DEF TypeInv, TypeOK, ControllerTypeOK, ItemOK, MqttTask, MqttNext,
              EnqueueInstruction, DropInstruction, controllerVars,
              driveTaskVars, visionTaskVars
<1>7. QED
  BY <1>1, <1>4, <1>6 DEF TypeInv, TypeOK


\* What the drive task and the vision task publish is a feedback message.
LEMMA PublishType ==
  ASSUME LinksTypeOK, NEW m \in FeedbackMessage, Publish(m)
  PROVE  feedback' \in Seq(FeedbackMessage)
BY AppendProperties DEF LinksTypeOK, Publish

LEMMA DriveTaskTypeInv ==
  ASSUME TypeInv, DriveTask
  PROVE  TypeInv'
<1> USE DEF TypeInv, TypeOK
<1>1. DriveTypeOK'
  BY DEF DriveTypeOK, DriveTask, driveVars
<1>2. CASE ReadUart
  BY <1>1, <1>2, EmptySeq
     DEF LinksTypeOK, ControllerTypeOK, ItemOK, InboxOK, ReadUart,
         visionTaskVars, DrivePcs
<1>3. CASE CheckBackward
  BY <1>1, <1>3
     DEF LinksTypeOK, ControllerTypeOK, ItemOK, InboxOK, CheckBackward,
         visionTaskVars, linkVars, DrivePcs
<1>4. CASE EnqueueBackward
  <2>1. queue' \in Seq(QueueMessage) /\ Len(queue') <= QueueLength
    BY <1>4, LocalMessages, AppendProperties, ControllerAssumption
       DEF ControllerTypeOK, EnqueueBackward, HasRoom
  <2>2. QED
    BY <1>1, <1>4, <2>1
       DEF LinksTypeOK, ControllerTypeOK, ItemOK, InboxOK, EnqueueBackward,
           visionTaskVars, linkVars, DrivePcs
<1>5. CASE ReportDistance
  <2>1. feedback' \in Seq(FeedbackMessage)
    BY <1>5, LocalMessages, PublishType DEF ReportDistance
  <2>2. QED
    BY <1>1, <1>5, <2>1
       DEF LinksTypeOK, ControllerTypeOK, ItemOK, InboxOK, ReportDistance,
           visionTaskVars, DrivePcs
<1>6. CASE Dequeue
  <2>1. CASE ready /\ queue # <<>>
    <3>1. /\ item' \in QueueMessage
          /\ queue' \in Seq(QueueMessage)
          /\ Len(queue') <= QueueLength
      BY <1>6, <2>1, HeadTailProperties, LenProperties, ControllerAssumption
         DEF ControllerTypeOK, Dequeue
    <3>2. ItemOK' /\ drivePc' \in DrivePcs
      BY <1>6, <2>1, <3>1, MessageKinds DEF ItemOK, Dequeue, DrivePcs
    <3>3. QED
      BY <1>1, <1>6, <3>1, <3>2
         DEF LinksTypeOK, ControllerTypeOK, InboxOK, Dequeue, visionTaskVars,
             linkVars
  <2>2. CASE ~ (ready /\ queue # <<>>)
    BY <1>1, <1>6, <2>2
       DEF LinksTypeOK, ControllerTypeOK, ItemOK, InboxOK, Dequeue,
           visionTaskVars, linkVars, DrivePcs
  <2>3. QED
    BY <2>1, <2>2
<1>7. CASE ReportEnd
  <2>1. feedback' \in Seq(FeedbackMessage)
    BY <1>7, MessageKinds, PublishType DEF ReportEnd, ItemOK
  <2>2. QED
    BY <1>1, <1>7, <2>1
       DEF LinksTypeOK, ControllerTypeOK, ItemOK, InboxOK, ReportEnd,
           visionTaskVars, DrivePcs
<1>8. CASE ClearCurrent
  BY <1>1, <1>8
     DEF LinksTypeOK, ControllerTypeOK, ItemOK, InboxOK, ClearCurrent,
         visionTaskVars, linkVars, DrivePcs
<1>9. CASE SendInstruction
  <2>1. toDrive' \in Seq(DriveMessage)
    BY <1>9, MessageKinds, AppendProperties
       DEF SendInstruction, ItemOK, LinksTypeOK
  <2>2. QED
    BY <1>1, <1>9, <2>1
       DEF LinksTypeOK, ControllerTypeOK, ItemOK, InboxOK, SendInstruction,
           visionTaskVars, DrivePcs
<1>10. CASE ReportInstruction
  <2>1. feedback' \in Seq(FeedbackMessage)
    BY <1>10, MessageKinds, PublishType DEF ReportInstruction, ItemOK
  <2>2. QED
    BY <1>1, <1>10, <2>1
       DEF LinksTypeOK, ControllerTypeOK, ItemOK, InboxOK, ReportInstruction,
           visionTaskVars, DrivePcs
<1>11. CASE SetCurrent
  <2>1. item.kind \in MoveKinds
    BY <1>11 DEF SetCurrent, ItemOK, Message
  <2>2. QED
    BY <1>1, <1>11, <2>1
       DEF LinksTypeOK, ControllerTypeOK, ItemOK, InboxOK, SetCurrent,
           visionTaskVars, linkVars, DrivePcs
<1>12. QED
  BY <1>2, <1>3, <1>4, <1>5, <1>6, <1>7, <1>8, <1>9, <1>10, <1>11
     DEF DriveTask, DriveTaskNext


LEMMA VisionDataTypeInv ==
  ASSUME TypeInv, VisionData
  PROVE  TypeInv'
<1> USE DEF TypeInv, TypeOK
<1>1. DriveTypeOK'
  BY DEF DriveTypeOK, VisionData, driveVars
<1>2. feedback' \in Seq(FeedbackMessage)
  BY LocalMessages, PublishType DEF VisionData, VisionStop
<1>3. stops' \in 0..MaxStops
  BY ControllerAssumption DEF VisionData, VisionStop, ControllerTypeOK
<1>4. QED
  BY <1>1, <1>2, <1>3
     DEF LinksTypeOK, ControllerTypeOK, ItemOK, InboxOK, VisionData, VisionStop,
         driveTaskVars, VisionPcs

LEMMA StartFlushType ==
  ASSUME TypeInv, StartFlush
  PROVE  /\ visionPc' \in VisionPcs
         /\ flushLeft' \in 0..QueueLength
         /\ flushMark' \in Numbers
<1>1. Len(inbox) \in Nat
  BY LenProperties DEF TypeInv, TypeOK, LinksTypeOK
<1>2. QED
  BY <1>1, MaxInstructionsAssumption, ControllerAssumption
     DEF TypeInv, TypeOK, LinksTypeOK, InboxOK, StartFlush, Delivered, Numbers,
         VisionPcs

LEMMA VisionTaskTypeInv ==
  ASSUME TypeInv, VisionTask
  PROVE  TypeInv'
<1> USE DEF TypeInv, TypeOK
<1>1. DriveTypeOK'
  BY DEF DriveTypeOK, VisionTask, driveVars
<1>2. CASE Peek
  BY <1>1, <1>2
     DEF LinksTypeOK, ControllerTypeOK, ItemOK, InboxOK, Peek, driveTaskVars,
         linkVars, VisionPcs
<1>3. CASE Crash
  <2>1. crashes' \in 0..MaxCrashes /\ flushMark' \in Numbers
    BY <1>3, ControllerAssumption, MaxInstructionsAssumption
       DEF Crash, ControllerTypeOK, Numbers
  <2>2. QED
    BY <1>1, <1>3, <2>1
       DEF LinksTypeOK, ControllerTypeOK, ItemOK, InboxOK, Crash, linkVars,
           VisionPcs, DrivePcs
<1>4. CASE Decide
  BY <1>1, <1>4
     DEF LinksTypeOK, ControllerTypeOK, ItemOK, InboxOK, Decide, driveTaskVars,
         linkVars, VisionPcs
<1>5. CASE SetForwardStop
  BY <1>1, <1>5
     DEF LinksTypeOK, ControllerTypeOK, ItemOK, InboxOK, SetForwardStop,
         driveTaskVars, linkVars, VisionPcs
<1>6. CASE SendStop
  <2>1. toDrive' \in Seq(DriveMessage)
    BY <1>6, LocalMessages, AppendProperties DEF SendStop, LinksTypeOK
  <2>2. QED
    BY <1>1, <1>6, <2>1, StartFlushType
       DEF LinksTypeOK, ControllerTypeOK, ItemOK, InboxOK, SendStop,
           driveTaskVars
<1>7. CASE SetTurnStop
  BY <1>1, <1>7
     DEF LinksTypeOK, ControllerTypeOK, ItemOK, InboxOK, SetTurnStop,
         driveTaskVars, linkVars, VisionPcs
<1>8. CASE ReportTurnStop
  <2>1. feedback' \in Seq(FeedbackMessage)
    BY <1>8, LocalMessages, PublishType DEF ReportTurnStop
  <2>2. QED
    BY <1>1, <1>8, <2>1, StartFlushType
       DEF LinksTypeOK, ControllerTypeOK, ItemOK, InboxOK, ReportTurnStop,
           driveTaskVars
<1>9. CASE Flush
  <2>1. flushLeft' \in 0..QueueLength /\ visionPc' \in VisionPcs
    BY <1>9, ControllerAssumption DEF Flush, ControllerTypeOK, VisionPcs
  <2>2. queue' \in Seq(QueueMessage) /\ Len(queue') <= QueueLength
    BY <1>9, HeadTailProperties, LenProperties, ControllerAssumption
       DEF Flush, ControllerTypeOK
  <2>3. QED
    BY <1>1, <1>9, <2>1, <2>2
       DEF LinksTypeOK, ControllerTypeOK, ItemOK, InboxOK, Flush, driveTaskVars,
           linkVars
<1>10. QED
  BY <1>2, <1>3, <1>4, <1>5, <1>6, <1>7, <1>8, <1>9
     DEF VisionTask, VisionTaskNext

LEMMA DriveBoardTypeInv ==
  ASSUME TypeInv, DriveBoard
  PROVE  TypeInv'
<1> USE DEF TypeInv, TypeOK
<1>1. ControllerTypeOK' /\ ItemOK'
  BY DEF ControllerTypeOK, ItemOK, DriveBoard, controllerVars, driveTaskVars,
         visionTaskVars
<1>2. InboxOK' /\ published' \in Numbers /\ inbox' \in Seq(Message(ServerKinds))
      /\ feedback' \in Seq(FeedbackMessage)
  BY DEF InboxOK, LinksTypeOK, DriveBoard, DriveNext, DriveSetup,
         StartInstruction, ContinueInstruction, CompleteInstruction,
         StopAbruptly, ResumeAfterStop
<1>3. ReceiveInstruction => toDrive' \in Seq(DriveMessage)
  BY HeadTailProperties DEF ReceiveInstruction, LinksTypeOK
<1>4. \A token \in {"R", "S"} : Send(token) => toControl' \in Seq({"R", "S"})
  BY AppendProperties DEF Send, LinksTypeOK
<1>5. Moving(CurrentInstruction) => CurrentInstruction \in Message(MoveKinds)
  BY HeadTailProperties, MessageKinds, LocalMessages
     DEF Moving, CurrentInstruction, LinksTypeOK, DriveTypeOK, MoveKinds
<1>6. toDrive' \in Seq(DriveMessage)
  BY <1>3 DEF LinksTypeOK, DriveBoard, DriveNext, DriveSetup,
              StartInstruction, ContinueInstruction, CompleteInstruction,
              StopAbruptly, ResumeAfterStop
<1>7. toControl' \in Seq({"R", "S"})
  BY <1>4 DEF LinksTypeOK, DriveBoard, DriveNext, DriveSetup,
              StartInstruction, ContinueInstruction, CompleteInstruction,
              StopAbruptly, ResumeAfterStop
<1>8. DriveTypeOK'
  BY <1>5 DEF DriveTypeOK, DriveBoard, DriveNext, DriveSetup,
              StartInstruction, ContinueInstruction, CompleteInstruction,
              StopAbruptly, ResumeAfterStop
<1>9. QED
  BY <1>1, <1>2, <1>6, <1>7, <1>8 DEF LinksTypeOK

LEMMA TypeInvStep ==
  ASSUME TypeInv, [Next]_vars
  PROVE  TypeInv'
<1>1. CASE Next
  BY <1>1, ServerTypeInv, StartupTypeInv, MqttTaskTypeInv, DriveTaskTypeInv,
     VisionDataTypeInv, VisionTaskTypeInv, DriveBoardTypeInv DEF Next
<1>2. CASE UNCHANGED vars
  BY <1>2 DEF TypeInv, TypeOK, ItemOK, InboxOK, LinksTypeOK, ControllerTypeOK,
              DriveTypeOK, vars, linkVars, controllerVars, driveTaskVars,
              visionTaskVars, driveVars
<1>3. QED
  BY <1>1, <1>2

LEMMA TypeInvHolds == Spec => []TypeInv
<1>1. TypeInv /\ [Next]_vars => TypeInv'
  BY TypeInvStep
<1>2. QED
  BY InitTypeInv, <1>1, PTL DEF Spec

(***************************************************************************)
(* Every variable keeps its type; in particular the queue never holds more *)
(* than QueueLength instructions, whichever tasks fill and empty it.       *)
(***************************************************************************)
THEOREM TypeCorrect == Spec => []TypeOK
<1>1. TypeInv => TypeOK
  BY DEF TypeInv
<1>2. QED
  BY TypeInvHolds, <1>1, PTL

-----------------------------------------------------------------------------
(***************************************************************************)
(* The safety properties of Rover that hold for every value of its         *)
(* constants, from the type invariant above.                               *)
(***************************************************************************)

(***************************************************************************)
(* One permission.  OnePermission alone is not inductive: a control that   *)
(* sends must be the one that holds the permission, and no stop may be on  *)
(* its way or being answered.                                              *)
(***************************************************************************)
NoStopYet ==
  /\ visionPc = "idle"
  /\ driveMode # "stopped"
  /\ \A i \in DOMAIN toDrive : toDrive[i].kind # "stop"
  /\ \A i \in DOMAIN toControl : toControl[i] = "R"

SenderIsReady == drivePc \in {"send", "reportEnd"} => ready

SetupIsIdle == driveMode = "setup" => instruction = NoMessage

AtMostOne == One(ready) + Len(toControl) + Len(toDrive) + One(Busy) <= 1

PermissionInv ==
  stops = 0 => NoStopYet /\ SenderIsReady /\ SetupIsIdle /\ AtMostOne

LEMMA Lengths ==
  ASSUME TypeInv
  PROVE  /\ Len(toControl) \in Nat /\ DOMAIN toControl = 1..Len(toControl)
         /\ Len(toDrive) \in Nat /\ DOMAIN toDrive = 1..Len(toDrive)
         /\ Len(queue) \in Nat /\ DOMAIN queue = 1..Len(queue)
         /\ Len(inbox) \in Nat /\ DOMAIN inbox = 1..Len(inbox)
         /\ Len(feedback) \in Nat /\ DOMAIN feedback = 1..Len(feedback)
BY LenProperties DEF TypeInv, TypeOK, LinksTypeOK, ControllerTypeOK

LEMMA OneValues ==
  ASSUME NEW p
  PROVE  /\ One(p) \in {0, 1}
         /\ p => One(p) = 1
         /\ ~ p => One(p) = 0
BY DEF One

LEMMA InitPermissionInv == Init => PermissionInv
<1> SUFFICES ASSUME Init PROVE PermissionInv
  OBVIOUS
<1>1. Len(toControl) = 0 /\ Len(toDrive) = 0
  BY EmptyLen DEF Init, LinksInit
<1>2. DOMAIN toControl = {} /\ DOMAIN toDrive = {}
  BY <1>1, InitTypeInv, Lengths
<1>3. ~ ready /\ visionPc = "idle" /\ drivePc = "down"
  BY DEF Init, ControllerInit
<1>4. driveMode = "setup" /\ instruction = NoMessage
  BY DEF Init, DriveInit
<1>5. AtMostOne
  BY <1>1, <1>3 DEF AtMostOne, One
<1>6. QED
  BY <1>2, <1>3, <1>4, <1>5
     DEF PermissionInv, NoStopYet, SenderIsReady, SetupIsIdle

LEMMA ReadPermission ==
  ASSUME TypeInv, PermissionInv, ReadUart, UNCHANGED driveVars
  PROVE  PermissionInv'
<1> SUFFICES ASSUME stops = 0
             PROVE  (NoStopYet /\ SenderIsReady /\ SetupIsIdle /\ AtMostOne)'
  BY DEF PermissionInv, ReadUart, visionTaskVars
<1>1. toControl' = <<>> /\ Len(toControl') = 0 /\ DOMAIN toControl' = {}
  BY EmptyLen DEF ReadUart
<1>2. NoStopYet' /\ SenderIsReady' /\ SetupIsIdle'
  BY <1>1 DEF PermissionInv, NoStopYet, SenderIsReady, SetupIsIdle, ReadUart,
              visionTaskVars, driveVars
<1>3. One(ready') <= One(ready) + Len(toControl)
  <2>1. CASE toControl = <<>>
    BY <2>1, EmptyLen DEF ReadUart, One
  <2>2. CASE toControl # <<>>
    <3>1. Len(toControl) >= 1
      BY <2>2, Lengths, EmptySeq DEF TypeInv, TypeOK, LinksTypeOK
    <3>2. QED
      BY <3>1, Lengths DEF One
  <2>3. QED
    BY <2>1, <2>2
<1>4. toDrive' = toDrive /\ Busy' = Busy
  BY DEF ReadUart, Busy, driveVars
<1>5. Len(toControl') = 0 /\ AtMostOne
  BY <1>1 DEF PermissionInv
<1>6. AtMostOne'
  BY <1>3, <1>4, <1>5, Lengths, OneValues DEF AtMostOne
<1>7. QED
  BY <1>2, <1>6

LEMMA SendPermission ==
  ASSUME TypeInv, PermissionInv, SendInstruction, UNCHANGED driveVars
  PROVE  PermissionInv'
<1> SUFFICES ASSUME stops = 0
             PROVE  (NoStopYet /\ SenderIsReady /\ SetupIsIdle /\ AtMostOne)'
  BY DEF PermissionInv, SendInstruction, visionTaskVars
<1>1. item \in DriveMessage /\ item.kind # "stop"
  BY MessageKinds DEF SendInstruction, TypeInv, ItemOK, Message, MoveKinds
<1>2. /\ Len(toDrive') = Len(toDrive) + 1
      /\ DOMAIN toDrive' = 1..(Len(toDrive) + 1)
      /\ \A i \in 1..Len(toDrive) : toDrive'[i] = toDrive[i]
      /\ toDrive'[Len(toDrive) + 1] = item
  <2>1. toDrive \in Seq(DriveMessage) /\ toDrive' = Append(toDrive, item)
    BY DEF SendInstruction, TypeInv, TypeOK, LinksTypeOK
  <2>2. toDrive' \in Seq(DriveMessage)
    BY <1>1, <2>1, AppendProperties
  <2>3. QED
    BY <1>1, <2>1, <2>2, AppendProperties, LenProperties
<1>3. NoStopYet'
  BY <1>1, <1>2, Lengths
     DEF PermissionInv, NoStopYet, SendInstruction, visionTaskVars, driveVars
<1>4. SenderIsReady' /\ SetupIsIdle'
  BY DEF PermissionInv, SenderIsReady, SetupIsIdle, SendInstruction, driveVars
<1>5. ready /\ ~ ready'
  BY DEF PermissionInv, SenderIsReady, SendInstruction
<1>6. AtMostOne'
  BY <1>2, <1>5, Lengths
     DEF PermissionInv, AtMostOne, One, Busy, SendInstruction, driveVars
<1>7. QED
  BY <1>3, <1>4, <1>6

LEMMA DriveTaskPermission ==
  ASSUME TypeInv, PermissionInv, DriveTask
  PROVE  PermissionInv'
<1>1. UNCHANGED driveVars
  BY DEF DriveTask
<1>2. CASE ReadUart
  BY <1>1, <1>2, ReadPermission
<1>3. CASE SendInstruction
  BY <1>1, <1>3, SendPermission
<1>4. CASE Dequeue
  BY <1>1, <1>4
     DEF Dequeue, PermissionInv, NoStopYet, SenderIsReady, SetupIsIdle,
         AtMostOne, Busy, visionTaskVars, linkVars, driveVars
<1>5. ASSUME \/ CheckBackward \/ EnqueueBackward \/ ReportDistance
             \/ ReportEnd \/ ClearCurrent \/ ReportInstruction \/ SetCurrent
      PROVE  PermissionInv'
  BY <1>1, <1>5
     DEF CheckBackward, EnqueueBackward, ReportDistance, ReportEnd,
         ClearCurrent, ReportInstruction, SetCurrent, PermissionInv, NoStopYet,
         SenderIsReady, SetupIsIdle, AtMostOne, Busy, visionTaskVars,
         linkVars, driveVars
<1>6. QED
  BY <1>2, <1>3, <1>4, <1>5 DEF DriveTask, DriveTaskNext

LEMMA ServerPermission ==
  ASSUME TypeInv, PermissionInv, Server
  PROVE  PermissionInv'
BY DEF Server, ServerNext, PublishInstruction, PermissionInv, NoStopYet,
       SenderIsReady, SetupIsIdle, AtMostOne, Busy, controllerVars,
       driveTaskVars, visionTaskVars, driveVars

LEMMA StartupPermission ==
  ASSUME TypeInv, PermissionInv, Startup
  PROVE  PermissionInv'
<1>1. toControl' = <<>> /\ Len(toControl') = 0 /\ DOMAIN toControl' = {}
  BY EmptyLen DEF Startup, Boot
<1>2. UNCHANGED <<toDrive, ready, Busy, stops, driveMode, instruction, visionPc>>
  BY DEF Startup, Boot, Busy, visionTaskVars, driveVars
<1>3. Len(toControl') = 0 /\ UNCHANGED <<toDrive, ready, Busy>>
  BY <1>1, <1>2
<1>4. AtMostOne => AtMostOne'
  BY <1>3, Lengths, OneValues DEF AtMostOne
<1>5. NoStopYet /\ SetupIsIdle => NoStopYet' /\ SetupIsIdle' /\ SenderIsReady'
  BY <1>1, <1>2
     DEF NoStopYet, SetupIsIdle, SenderIsReady, Startup, Boot
<1>6. QED
  BY <1>2, <1>4, <1>5 DEF PermissionInv

LEMMA MqttTaskPermission ==
  ASSUME TypeInv, PermissionInv, MqttTask
  PROVE  PermissionInv'
BY DEF MqttTask, MqttNext, EnqueueInstruction, DropInstruction, PermissionInv,
       NoStopYet, SenderIsReady, SetupIsIdle, AtMostOne, Busy, controllerVars,
       driveTaskVars, visionTaskVars, driveVars

LEMMA VisionPermission ==
  ASSUME TypeInv, PermissionInv, VisionData \/ VisionTask
  PROVE  PermissionInv'
<1>1. CASE VisionData
  <2>1. stops' # 0
    BY <1>1 DEF VisionData, VisionStop, TypeInv, TypeOK, ControllerTypeOK
  <2>2. QED
    BY <2>1 DEF PermissionInv
<1>2. CASE VisionTask
  BY <1>2
     DEF VisionTask, VisionTaskNext, Peek, Crash, Decide, SetForwardStop,
         SendStop, SetTurnStop, ReportTurnStop, Flush, StartFlush,
         PermissionInv, NoStopYet
<1>3. QED
  BY <1>1, <1>2

LEMMA DriveBoardPermission ==
  ASSUME TypeInv, PermissionInv, DriveBoard
  PROVE  PermissionInv'
<1> SUFFICES ASSUME stops = 0
             PROVE  (NoStopYet /\ SenderIsReady /\ SetupIsIdle /\ AtMostOne)'
  BY DEF PermissionInv, DriveBoard, controllerVars, visionTaskVars
<1>1. /\ NoStopYet /\ SenderIsReady /\ SetupIsIdle /\ AtMostOne
      /\ UNCHANGED <<ready, drivePc, visionPc, stops>>
  BY DEF PermissionInv, DriveBoard, controllerVars, driveTaskVars,
         visionTaskVars
<1>2. SenderIsReady'
  BY <1>1 DEF SenderIsReady
\* What a pass of the loop does to the UART.
<1>3. ASSUME ReceiveInstruction
      PROVE  /\ \A i \in DOMAIN toDrive' : toDrive'[i].kind # "stop"
             /\ toDrive # <<>> => Len(toDrive') = Len(toDrive) - 1
             /\ toDrive = <<>> => toDrive' = toDrive
  <2>1. CASE toDrive = <<>>
    BY <1>1, <1>3, <2>1 DEF ReceiveInstruction, NoStopYet
  <2>2. CASE toDrive # <<>>
    <3>1. /\ toDrive' = Tail(toDrive) /\ toDrive \in Seq(DriveMessage)
      BY <1>3, <2>2 DEF ReceiveInstruction, TypeInv, TypeOK, LinksTypeOK
    <3>2. /\ toDrive' \in Seq(DriveMessage)
          /\ Len(toDrive') = Len(toDrive) - 1
          /\ \A i \in 1..Len(toDrive') : toDrive'[i] = toDrive[i + 1]
      BY <2>2, <3>1, HeadTailProperties
    <3>3. DOMAIN toDrive' = 1..Len(toDrive')
      BY <3>2, LenProperties
    <3>4. ASSUME NEW i \in 1..Len(toDrive')
          PROVE  toDrive'[i].kind # "stop"
      <4>1. i + 1 \in DOMAIN toDrive
        BY <3>2, Lengths
      <4>2. QED
        BY <1>1, <3>2, <4>1 DEF NoStopYet
    <3>5. QED
      BY <2>2, <3>2, <3>3, <3>4
  <2>3. QED
    BY <2>1, <2>2
<1>4. ASSUME Send("R")
      PROVE  /\ Len(toControl') = Len(toControl) + 1
             /\ \A i \in DOMAIN toControl' : toControl'[i] = "R"
  <2>1. toControl \in Seq({"R", "S"}) /\ toControl' = Append(toControl, "R")
    BY <1>4 DEF Send, TypeInv, TypeOK, LinksTypeOK
  <2>2. /\ toControl' \in Seq({"R", "S"})
        /\ Len(toControl') = Len(toControl) + 1
        /\ \A i \in 1..Len(toControl) : toControl'[i] = toControl[i]
        /\ toControl'[Len(toControl) + 1] = "R"
    BY <2>1, AppendProperties
  <2>3. DOMAIN toControl' = 1..(Len(toControl) + 1)
    BY <2>2, LenProperties
  <2>4. QED
    BY <1>1, <2>2, <2>3, Lengths DEF NoStopYet
<1>5. /\ Moving(CurrentInstruction) => toDrive # <<>> \/ instruction # NoMessage
      /\ Moving(CurrentInstruction) => CurrentInstruction # NoMessage
      /\ CurrentInstruction.kind # "stop"
  <2>1. instruction.kind # "stop"
    BY MessageKinds DEF TypeInv, TypeOK, DriveTypeOK, Message, MoveKinds,
                        NoMessage, Local
  <2>2. toDrive # <<>> => 1 \in DOMAIN toDrive /\ Head(toDrive) = toDrive[1]
    BY Lengths, EmptySeq, HeadTailProperties DEF TypeInv, TypeOK, LinksTypeOK
  <2>3. QED
    BY <1>1, <2>1, <2>2, LocalMessages
       DEF CurrentInstruction, Moving, NoStopYet, MoveKinds
<1>6. CASE DriveSetup
  BY <1>1, <1>2, <1>4, <1>6, Lengths
     DEF DriveSetup, NoStopYet, SetupIsIdle, AtMostOne, One, Busy
<1>7. CASE StartInstruction \/ \E done \in BOOLEAN : ContinueInstruction(done)
  <2>1. /\ ReceiveInstruction /\ Moving(CurrentInstruction)
        /\ instruction' = CurrentInstruction
        /\ driveMode = "loop" /\ driveMode' = "loop" /\ toControl' = toControl
    BY <1>7 DEF StartInstruction, ContinueInstruction
  <2>2. Busy' /\ (toDrive = <<>> => Busy)
    BY <2>1, <1>5 DEF Busy
  <2>3. AtMostOne'
    <3>1. CASE toDrive = <<>>
      BY <3>1, <1>1, <1>3, <2>1, <2>2 DEF AtMostOne, One
    <3>2. CASE toDrive # <<>>
      <4>1. Len(toDrive') = Len(toDrive) - 1 /\ AtMostOne
        BY <3>2, <1>1, <1>3, <2>1
      <4>2. UNCHANGED <<toControl, ready>>
        BY <1>1, <2>1
      <4>3. QED
        BY <4>1, <4>2, Lengths, OneValues DEF AtMostOne
    <3>3. QED
      BY <3>1, <3>2
  <2>4. NoStopYet' /\ SetupIsIdle'
    BY <1>1, <1>3, <2>1 DEF NoStopYet, SetupIsIdle
  <2>5. QED
    BY <1>2, <2>3, <2>4
<1>8. CASE CompleteInstruction
  <2>1. /\ ReceiveInstruction /\ Moving(CurrentInstruction) /\ Send("R")
        /\ instruction' = NoMessage
        /\ driveMode = "loop" /\ driveMode' = "loop"
    BY <1>8 DEF CompleteInstruction
  <2>2. ~ Busy' /\ (toDrive = <<>> => Busy)
    BY <2>1, <1>5 DEF Busy
  <2>3. AtMostOne'
    <3>1. CASE toDrive = <<>>
      BY <3>1, <1>1, <1>3, <1>4, <2>1, <2>2, Lengths DEF AtMostOne, One
    <3>2. CASE toDrive # <<>>
      <4>1. /\ Len(toDrive') = Len(toDrive) - 1 /\ AtMostOne
            /\ Len(toControl') = Len(toControl) + 1 /\ ready' = ready
        BY <3>2, <1>1, <1>3, <1>4, <2>1
      <4>2. One(Busy') = 0
        BY <2>2, OneValues
      <4>3. QED
        BY <4>1, <4>2, Lengths, OneValues DEF AtMostOne
    <3>3. QED
      BY <3>1, <3>2
  <2>4. NoStopYet' /\ SetupIsIdle'
    BY <1>1, <1>3, <1>4, <2>1 DEF NoStopYet, SetupIsIdle
  <2>5. QED
    BY <1>2, <2>3, <2>4
<1>9. CASE StopAbruptly
  BY <1>5, <1>9 DEF StopAbruptly
<1>10. CASE ResumeAfterStop
  BY <1>1, <1>10 DEF ResumeAfterStop, NoStopYet
<1>11. QED
  BY <1>6, <1>7, <1>8, <1>9, <1>10 DEF DriveBoard, DriveNext

LEMMA PermissionInvStep ==
  ASSUME TypeInv, PermissionInv, [Next]_vars
  PROVE  PermissionInv'
<1>1. CASE Next
  BY <1>1, ServerPermission, StartupPermission, MqttTaskPermission,
     DriveTaskPermission, VisionPermission, DriveBoardPermission DEF Next
<1>2. CASE UNCHANGED vars
  BY <1>2 DEF PermissionInv, NoStopYet, SenderIsReady, SetupIsIdle, AtMostOne,
              Busy, vars, linkVars, controllerVars, driveTaskVars,
              visionTaskVars, driveVars
<1>3. QED
  BY <1>1, <1>2

LEMMA PermissionInvHolds == Spec => []PermissionInv
<1>1. TypeInv /\ PermissionInv /\ [Next]_vars => PermissionInv'
  BY PermissionInvStep
<1>2. QED
  BY InitPermissionInv, TypeInvHolds, <1>1, PTL DEF Spec

(***************************************************************************)
(* Until the first stop, at most one permission to send is anywhere in the *)
(* rover (uart.c:109-110, 259-266 and drive.ino:76-77, 147-151).           *)
(***************************************************************************)
THEOREM OnePermissionHolds == Spec => []OnePermission
<1>1. PermissionInv => OnePermission
  BY DEF PermissionInv, AtMostOne, OnePermission
<1>2. QED
  BY PermissionInvHolds, <1>1, PTL

(***************************************************************************)
(* Until the first stop, control sends an instruction, or reports the end  *)
(* of a sequence, only when the drive has completed all the earlier ones.  *)
(***************************************************************************)
THEOREM ReportsFollowExecutionHolds == Spec => []ReportsFollowExecution
<1>1. TypeInv /\ PermissionInv => ReportsFollowExecution
  <2> SUFFICES ASSUME TypeInv, PermissionInv, stops = 0,
                      drivePc \in {"send", "reportEnd"}
               PROVE  ~ Busy /\ toDrive = <<>>
    BY DEF ReportsFollowExecution
  <2>1. ready /\ AtMostOne
    BY DEF PermissionInv, SenderIsReady
  <2>2. ~ Busy /\ Len(toDrive) = 0
    BY <2>1, Lengths DEF AtMostOne, One
  <2>3. QED
    BY <2>2, EmptySeq DEF TypeInv, TypeOK, LinksTypeOK
<1>2. QED
  BY TypeInvHolds, PermissionInvHolds, <1>1, PTL

-----------------------------------------------------------------------------
(***************************************************************************)
(* Sequences with one element more, and with the first taken away.         *)
(***************************************************************************)
LEMMA Longer ==
  ASSUME NEW S, NEW s \in Seq(S), NEW m \in S
  PROVE  /\ Append(s, m) \in Seq(S)
         /\ Len(s) \in Nat
         /\ DOMAIN s = 1..Len(s)
         /\ DOMAIN Append(s, m) = 1..(Len(s) + 1)
         /\ Len(Append(s, m)) = Len(s) + 1
         /\ \A i \in 1..Len(s) : Append(s, m)[i] = s[i]
         /\ Append(s, m)[Len(s) + 1] = m
BY AppendProperties, LenProperties

LEMMA Shorter ==
  ASSUME NEW S, NEW s \in Seq(S), s # <<>>
  PROVE  /\ Tail(s) \in Seq(S)
         /\ Len(s) \in Nat
         /\ DOMAIN s = 1..Len(s)
         /\ DOMAIN Tail(s) = 1..(Len(s) - 1)
         /\ Len(Tail(s)) = Len(s) - 1
         /\ \A i \in 1..(Len(s) - 1) : Tail(s)[i] = s[i + 1]
         /\ Head(s) \in S
         /\ Head(s) = s[1]
         /\ 1 \in DOMAIN s
BY HeadTailProperties, LenProperties, EmptySeq

LEMMA NoElement == DOMAIN <<>> = {}
BY EmptySeq, LenProperties

-----------------------------------------------------------------------------
(***************************************************************************)
(* Every instruction has one place.  Those that wait for the MQTT task     *)
(* have the numbers after Delivered, without a gap; what the queue holds   *)
(* has been delivered.                                                     *)
(***************************************************************************)
InboxNumbered ==
  \A i \in DOMAIN inbox : inbox[i].number = Delivered + i

QueueDelivered ==
  \A i \in DOMAIN queue : queue[i].number <= Delivered

\* What was delivered before the last flush began is in the part of the
\* queue that the flush is still to receive.
FlushAhead ==
  \A i \in DOMAIN queue :
    queue[i].number \in 1..flushMark => visionPc = "flush" /\ i <= flushLeft

FlushInv ==
  /\ InboxNumbered
  /\ QueueDelivered
  /\ flushMark <= Delivered
  /\ FlushAhead

LEMMA NumberTypes ==
  ASSUME TypeInv
  PROVE  /\ published \in Nat /\ Len(inbox) \in Nat /\ Len(queue) \in Nat
         /\ Delivered \in Nat
         /\ DOMAIN inbox = 1..Len(inbox) /\ DOMAIN queue = 1..Len(queue)
         /\ flushMark \in Nat /\ flushLeft \in Nat /\ QueueLength \in Nat
         /\ Len(queue) <= QueueLength
         /\ \A i \in DOMAIN inbox : inbox[i].number \in Nat
         /\ \A i \in DOMAIN queue : queue[i].number \in Nat
<1>1. inbox \in Seq(Message(ServerKinds)) /\ queue \in Seq(QueueMessage)
  BY DEF TypeInv, TypeOK, LinksTypeOK, ControllerTypeOK
<1>2. /\ Len(inbox) \in Nat /\ DOMAIN inbox = 1..Len(inbox)
      /\ Len(queue) \in Nat /\ DOMAIN queue = 1..Len(queue)
      /\ \A i \in DOMAIN inbox : inbox[i] \in Message(ServerKinds)
      /\ \A i \in DOMAIN queue : queue[i] \in QueueMessage
  BY <1>1, LenProperties, ElementOfSeq
<1>3. published \in Nat /\ flushMark \in Nat
  BY MaxInstructionsAssumption
     DEF TypeInv, TypeOK, LinksTypeOK, ControllerTypeOK, Numbers
<1>4. QueueLength \in Nat /\ flushLeft \in Nat /\ Len(queue) <= QueueLength
  BY ControllerAssumption DEF TypeInv, TypeOK, ControllerTypeOK
<1>5. Delivered \in Nat
  BY <1>2, <1>3 DEF TypeInv, InboxOK, Delivered
<1>6. \A kinds : \A m \in Message(kinds) : m.number \in Nat
  BY MaxInstructionsAssumption DEF Message, Numbers
<1>7. QED
  BY <1>2, <1>3, <1>4, <1>5, <1>6 DEF QueueMessage

LEMMA InitFlushInv == Init => FlushInv
<1> SUFFICES ASSUME Init PROVE FlushInv
  OBVIOUS
<1>1. DOMAIN inbox = {} /\ DOMAIN queue = {}
  BY NoElement DEF Init, LinksInit, ControllerInit
<1>2. flushMark = 0 /\ Delivered \in Nat
  BY InitTypeInv, NumberTypes DEF Init, ControllerInit
<1>3. QED
  BY <1>1, <1>2 DEF FlushInv, InboxNumbered, QueueDelivered, FlushAhead

LEMMA ServerFlush ==
  ASSUME TypeInv, FlushInv, Server
  PROVE  FlushInv' /\ Delivered' = Delivered
<1>1. PICK k \in ServerKinds : PublishInstruction(k)
  BY DEF Server, ServerNext
<1> DEFINE m == [kind |-> k, number |-> published + 1]
<1>2. inbox \in Seq(Message(ServerKinds)) /\ m \in Message(ServerKinds)
  BY <1>1, MaxInstructionsAssumption, NewMessage
     DEF PublishInstruction, TypeInv, TypeOK, LinksTypeOK, Numbers
<1>3. inbox' = Append(inbox, m) /\ published' = published + 1
  BY <1>1 DEF PublishInstruction
<1>4. /\ DOMAIN inbox' = 1..(Len(inbox) + 1)
      /\ Len(inbox') = Len(inbox) + 1
      /\ \A i \in 1..Len(inbox) : inbox'[i] = inbox[i]
      /\ inbox'[Len(inbox) + 1] = m
  BY <1>2, <1>3, Longer
<1>5. Delivered' = Delivered
  BY <1>3, <1>4, NumberTypes DEF Delivered
<1>6. m.number = Delivered + (Len(inbox) + 1)
  BY NumberTypes DEF Delivered
<1>7. InboxNumbered'
  <2> SUFFICES ASSUME NEW i \in DOMAIN inbox'
               PROVE  inbox'[i].number = Delivered + i
    BY <1>5 DEF InboxNumbered
  <2>1. CASE i = Len(inbox) + 1
    BY <2>1, <1>4, <1>6
  <2>2. CASE i # Len(inbox) + 1
    BY <2>2, <1>4, NumberTypes DEF FlushInv, InboxNumbered
  <2>3. QED
    BY <2>1, <2>2
<1>8. QED
  BY <1>5, <1>7
     DEF FlushInv, QueueDelivered, FlushAhead, Server, controllerVars,
         visionTaskVars

LEMMA StartupFlush ==
  ASSUME TypeInv, FlushInv, Startup
  PROVE  FlushInv' /\ Delivered' \in Nat /\ Delivered <= Delivered'
<1>1. DOMAIN inbox' = {} /\ Len(inbox') = 0 /\ published' = published
  BY NoElement, EmptyLen DEF Startup, Boot
<1>2. Delivered' = published
  BY <1>1, NumberTypes DEF Delivered
<1>3. Delivered <= published
  BY NumberTypes DEF Delivered
<1>4. InboxNumbered'
  BY <1>1 DEF InboxNumbered
<1>5. UNCHANGED <<queue, flushMark, flushLeft, visionPc>>
  BY DEF Startup, Boot, visionTaskVars
<1>6. QueueDelivered'
  BY <1>2, <1>3, <1>5, NumberTypes DEF FlushInv, QueueDelivered
<1>7. QED
  BY <1>2, <1>3, <1>4, <1>5, <1>6, NumberTypes DEF FlushInv, FlushAhead

LEMMA MqttTaskFlush ==
  ASSUME TypeInv, FlushInv, MqttTask
  PROVE  /\ FlushInv'
         /\ Delivered' = Delivered + 1
         /\ Head(inbox).number = Delivered + 1
         /\ Head(inbox) \in QueueMessage
<1>1. inbox # <<>> /\ inbox' = Tail(inbox) /\ published' = published
  BY DEF MqttTask, MqttNext, EnqueueInstruction, DropInstruction
<1>2. inbox \in Seq(Message(ServerKinds))
  BY DEF TypeInv, TypeOK, LinksTypeOK
<1>3. /\ DOMAIN inbox' = 1..(Len(inbox) - 1)
      /\ Len(inbox') = Len(inbox) - 1
      /\ \A i \in 1..(Len(inbox) - 1) : inbox'[i] = inbox[i + 1]
      /\ Head(inbox) \in Message(ServerKinds)
      /\ Head(inbox) = inbox[1]
      /\ 1 \in DOMAIN inbox
  BY <1>1, <1>2, Shorter
<1>4. Delivered' = Delivered + 1
  BY <1>1, <1>3, NumberTypes DEF Delivered
<1>5. Head(inbox).number = Delivered + 1
  BY <1>3 DEF FlushInv, InboxNumbered
<1>6. InboxNumbered'
  <2> SUFFICES ASSUME NEW i \in DOMAIN inbox'
               PROVE  inbox'[i].number = Delivered + 1 + i
    BY <1>4 DEF InboxNumbered
  <2>1. i + 1 \in DOMAIN inbox /\ inbox'[i] = inbox[i + 1]
    BY <1>3, NumberTypes
  <2>2. QED
    BY <1>3, <2>1, NumberTypes DEF FlushInv, InboxNumbered
<1>7. UNCHANGED <<flushMark, flushLeft, visionPc>>
  BY DEF MqttTask, MqttNext, EnqueueInstruction, DropInstruction,
         controllerVars, visionTaskVars
<1>8. QueueDelivered' /\ FlushAhead'
  <2>1. CASE EnqueueInstruction
    <3>1. /\ DOMAIN queue' = 1..(Len(queue) + 1)
          /\ \A i \in 1..Len(queue) : queue'[i] = queue[i]
          /\ queue'[Len(queue) + 1] = Head(inbox)
      BY <2>1, <1>3, MessageKinds, Longer
         DEF EnqueueInstruction, TypeInv, TypeOK, ControllerTypeOK
    <3> SUFFICES ASSUME NEW i \in DOMAIN queue'
                 PROVE  /\ queue'[i].number <= Delivered + 1
                        /\ queue'[i].number \in 1..flushMark =>
                             visionPc = "flush" /\ i <= flushLeft
      BY <1>4, <1>7 DEF QueueDelivered, FlushAhead
    <3>2. CASE i = Len(queue) + 1
      BY <3>1, <3>2, <1>5, NumberTypes DEF FlushInv
    <3>3. CASE i # Len(queue) + 1
      BY <3>1, <3>3, NumberTypes DEF FlushInv, QueueDelivered, FlushAhead
    <3>4. QED
      BY <3>2, <3>3
  <2>2. CASE DropInstruction
    BY <2>2, <1>4, <1>7, NumberTypes
       DEF DropInstruction, controllerVars, FlushInv, QueueDelivered, FlushAhead
  <2>3. QED
    BY <2>1, <2>2 DEF MqttTask, MqttNext
<1>9. flushMark' <= Delivered'
  BY <1>4, <1>7, NumberTypes DEF FlushInv
<1>10. QED
  BY <1>3, <1>4, <1>5, <1>6, <1>8, <1>9, MessageKinds DEF FlushInv

LEMMA DriveTaskFlush ==
  ASSUME TypeInv, FlushInv, DriveTask
  PROVE  FlushInv' /\ Delivered' = Delivered
<1>1. UNCHANGED <<published, inbox, Delivered, flushMark, flushLeft, visionPc>>
  BY DEF DriveTask, DriveTaskNext, ReadUart, CheckBackward, EnqueueBackward,
         ReportDistance, Dequeue, ReportEnd, ClearCurrent, SendInstruction,
         ReportInstruction, SetCurrent, linkVars, visionTaskVars, Delivered
<1>2. InboxNumbered' /\ flushMark' <= Delivered'
  BY <1>1 DEF FlushInv, InboxNumbered
<1>3. CASE queue' = queue
  BY <1>1, <1>2, <1>3 DEF FlushInv, QueueDelivered, FlushAhead
<1>4. CASE queue # <<>> /\ queue' = Tail(queue)
  <2>1. /\ DOMAIN queue' = 1..(Len(queue) - 1)
        /\ \A i \in 1..(Len(queue) - 1) : queue'[i] = queue[i + 1]
    BY <1>4, Shorter DEF TypeInv, TypeOK, ControllerTypeOK
  <2>2. ASSUME NEW i \in DOMAIN queue'
        PROVE  /\ queue'[i].number <= Delivered
               /\ queue'[i].number \in 1..flushMark =>
                    visionPc = "flush" /\ i <= flushLeft
    <3>1. i + 1 \in DOMAIN queue /\ queue'[i] = queue[i + 1] /\ i \in Nat
      BY <2>1, NumberTypes
    <3>2. queue[i + 1].number \in 1..flushMark =>
            visionPc = "flush" /\ i + 1 <= flushLeft
      BY <3>1 DEF FlushInv, FlushAhead
    <3>3. queue[i + 1].number <= Delivered
      BY <3>1 DEF FlushInv, QueueDelivered
    <3>4. QED
      BY <3>1, <3>2, <3>3, NumberTypes
  <2>3. QED
    BY <1>1, <1>2, <2>2 DEF FlushInv, QueueDelivered, FlushAhead
<1>5. CASE queue' = Append(queue, Local("backward"))
  <2>1. /\ DOMAIN queue' = 1..(Len(queue) + 1)
        /\ \A i \in 1..Len(queue) : queue'[i] = queue[i]
        /\ queue'[Len(queue) + 1] = Local("backward")
    BY <1>5, LocalMessages, Longer DEF TypeInv, TypeOK, ControllerTypeOK
  <2>2. Local("backward").number = 0
    BY DEF Local
  <2>3. ASSUME NEW i \in DOMAIN queue'
        PROVE  /\ queue'[i].number <= Delivered
               /\ queue'[i].number \in 1..flushMark =>
                    visionPc = "flush" /\ i <= flushLeft
    <3>1. CASE i = Len(queue) + 1
      BY <3>1, <2>1, <2>2, NumberTypes
    <3>2. CASE i # Len(queue) + 1
      BY <3>2, <2>1, NumberTypes DEF FlushInv, QueueDelivered, FlushAhead
    <3>3. QED
      BY <3>1, <3>2
  <2>4. QED
    BY <1>1, <1>2, <2>3 DEF FlushInv, QueueDelivered, FlushAhead
<1>6. QED
  BY <1>1, <1>3, <1>4, <1>5
     DEF DriveTask, DriveTaskNext, ReadUart, CheckBackward, EnqueueBackward,
         ReportDistance, Dequeue, ReportEnd, ClearCurrent, SendInstruction,
         ReportInstruction, SetCurrent

LEMMA StartFlushFlush ==
  ASSUME TypeInv, FlushInv, StartFlush,
         UNCHANGED <<queue, published, inbox>>
  PROVE  FlushInv' /\ Delivered' = Delivered
<1>1. Delivered' = Delivered
  BY DEF Delivered
<1>2. visionPc' = "flush" /\ flushLeft' = QueueLength /\ flushMark' = Delivered
  BY DEF StartFlush
<1>3. \A i \in DOMAIN queue : i <= QueueLength
  BY NumberTypes
<1>4. FlushAhead'
  BY <1>2, <1>3 DEF FlushAhead
<1>5. flushMark' <= Delivered'
  BY <1>1, <1>2, NumberTypes
<1>6. QED
  BY <1>1, <1>4, <1>5 DEF FlushInv, InboxNumbered, QueueDelivered

LEMMA VisionFlush ==
  ASSUME TypeInv, FlushInv, VisionData \/ VisionTask
  PROVE  FlushInv' /\ Delivered' = Delivered
<1>1. UNCHANGED <<published, inbox, Delivered>>
  BY DEF VisionData, VisionStop, VisionTask, VisionTaskNext, Peek, Crash,
         Decide, SetForwardStop, SendStop, SetTurnStop, ReportTurnStop, Flush,
         linkVars, Delivered
<1>2. InboxNumbered'
  BY <1>1 DEF FlushInv, InboxNumbered
<1>3. CASE SendStop \/ ReportTurnStop
  BY <1>1, <1>3, StartFlushFlush DEF SendStop, ReportTurnStop
<1>4. CASE Crash
  <2>1. DOMAIN queue' = {} /\ flushMark' = 0
    BY <1>4, NoElement DEF Crash
  <2>2. QED
    BY <1>1, <1>2, <2>1, NumberTypes DEF FlushInv, QueueDelivered, FlushAhead
<1>5. CASE Flush
  <2>1. /\ visionPc = "flush" /\ flushLeft > 0 /\ flushLeft' = flushLeft - 1
        /\ visionPc' = (IF flushLeft = 1 THEN "idle" ELSE "flush")
        /\ flushMark' = flushMark
    BY <1>5 DEF Flush
  <2>2. CASE queue = <<>>
    <3>1. DOMAIN queue' = {}
      BY <1>5, <2>2, NoElement DEF Flush
    <3>2. QED
      BY <1>1, <1>2, <2>1, <3>1 DEF FlushInv, QueueDelivered, FlushAhead
  <2>3. CASE queue # <<>>
    <3>1. queue' = Tail(queue)
      BY <1>5, <2>3 DEF Flush
    <3>2. /\ DOMAIN queue' = 1..(Len(queue) - 1)
          /\ \A i \in 1..(Len(queue) - 1) : queue'[i] = queue[i + 1]
      BY <2>3, <3>1, Shorter DEF TypeInv, TypeOK, ControllerTypeOK
    <3>3. ASSUME NEW i \in DOMAIN queue'
          PROVE  /\ queue'[i].number <= Delivered
                 /\ queue'[i].number \in 1..flushMark =>
                      i \in Nat \ {0} /\ i + 1 <= flushLeft
      <4>1. i + 1 \in DOMAIN queue /\ queue'[i] = queue[i + 1]
            /\ i \in Nat \ {0}
        BY <3>2, NumberTypes
      <4>2. queue[i + 1].number \in 1..flushMark => i + 1 <= flushLeft
        BY <4>1 DEF FlushInv, FlushAhead
      <4>3. queue[i + 1].number <= Delivered
        BY <4>1 DEF FlushInv, QueueDelivered
      <4>4. QED
        BY <4>1, <4>2, <4>3
    <3>4. ASSUME NEW i \in Nat \ {0}, i + 1 <= flushLeft
          PROVE  visionPc' = "flush" /\ i <= flushLeft'
      BY <2>1, <3>4, NumberTypes
    <3>5. FlushAhead'
      BY <2>1, <3>3, <3>4 DEF FlushAhead
    <3>6. QED
      BY <1>1, <1>2, <2>1, <3>3, <3>5 DEF FlushInv, QueueDelivered
  <2>4. QED
    BY <2>2, <2>3
<1>6. ASSUME VisionData \/ Peek \/ Decide \/ SetForwardStop \/ SetTurnStop
      PROVE  FlushInv'
  <2>1. /\ UNCHANGED <<queue, flushMark, flushLeft>>
        /\ visionPc # "flush" /\ visionPc' # "flush"
    BY <1>6 DEF VisionData, VisionStop, Peek, Decide, SetForwardStop,
                SetTurnStop
  <2>2. QED
    BY <1>1, <1>2, <2>1 DEF FlushInv, QueueDelivered, FlushAhead
<1>7. QED
  BY <1>1, <1>3, <1>4, <1>5, <1>6 DEF VisionTask, VisionTaskNext

LEMMA DriveBoardFlush ==
  ASSUME FlushInv, DriveBoard
  PROVE  FlushInv' /\ Delivered' = Delivered
<1>1. UNCHANGED <<published, inbox, queue, flushMark, flushLeft, visionPc>>
  BY DEF DriveBoard, DriveNext, DriveSetup, StartInstruction,
         ContinueInstruction, CompleteInstruction, StopAbruptly,
         ResumeAfterStop, controllerVars, visionTaskVars
<1>2. Delivered' = Delivered
  BY <1>1 DEF Delivered
<1>3. QED
  BY <1>1, <1>2 DEF FlushInv, InboxNumbered, QueueDelivered, FlushAhead

LEMMA FlushInvStep ==
  ASSUME TypeInv, FlushInv, [Next]_vars
  PROVE  FlushInv'
<1>1. CASE Next
  BY <1>1, ServerFlush, StartupFlush, MqttTaskFlush, DriveTaskFlush,
     VisionFlush, DriveBoardFlush DEF Next
<1>2. CASE UNCHANGED vars
  <2>1. UNCHANGED <<published, inbox, queue, flushMark, flushLeft, visionPc>>
    BY <1>2 DEF vars, linkVars, controllerVars, visionTaskVars
  <2>2. Delivered' = Delivered
    BY <2>1 DEF Delivered
  <2>3. QED
    BY <2>1, <2>2 DEF FlushInv, InboxNumbered, QueueDelivered, FlushAhead
<1>3. QED
  BY <1>1, <1>2

LEMMA FlushInvHolds == Spec => []FlushInv
<1>1. TypeInv /\ FlushInv /\ [Next]_vars => FlushInv'
  BY FlushInvStep
<1>2. QED
  BY InitFlushInv, TypeInvHolds, <1>1, PTL DEF Spec

(***************************************************************************)
(* When the vision task has handled a stop, nothing that was in the queue  *)
(* when it began to flush is there (spi.c:164, drive.c:28-38): as many     *)
(* receives as the queue has places are enough, whatever the MQTT task     *)
(* adds and the drive task removes meanwhile.                              *)
(***************************************************************************)
THEOREM FlushLeavesNothingHolds == Spec => []FlushLeavesNothing
<1>1. FlushInv => FlushLeavesNothing
  BY DEF FlushInv, FlushAhead, FlushLeavesNothing
<1>2. QED
  BY FlushInvHolds, <1>1, PTL

-----------------------------------------------------------------------------
(***************************************************************************)
(* Feedback in order.  The instructions reported so far, then the one the  *)
(* drive task holds and has not reported, then those in the queue, then    *)
(* those not delivered yet: their numbers ascend in this order.  Messages  *)
(* with number 0 are no instructions of the server and may stand anywhere. *)
(***************************************************************************)
Before(a, b) == a # 0 /\ b # 0 => a < b

Unreported == drivePc \in {"send", "report", "reportEnd"}

FeedbackDelivered ==
  \A i \in DOMAIN feedback : feedback[i].number <= Delivered

FeedbackBeforeQueue ==
  \A i \in DOMAIN feedback : \A j \in DOMAIN queue :
    Before(feedback[i].number, queue[j].number)

HeldInOrder ==
  Unreported =>
    /\ item.number <= Delivered
    /\ \A i \in DOMAIN feedback : Before(feedback[i].number, item.number)
    /\ \A j \in DOMAIN queue : Before(item.number, queue[j].number)

OrderInv ==
  /\ Ascending(feedback)
  /\ Ascending(queue)
  /\ FeedbackDelivered
  /\ FeedbackBeforeQueue
  /\ HeldInOrder

LEMMA AscendingLonger ==
  ASSUME NEW S, NEW s \in Seq(S), NEW m \in S, Ascending(s),
         \A i \in DOMAIN s : Before(s[i].number, m.number)
  PROVE  Ascending(Append(s, m))
<1> DEFINE t == Append(s, m)
<1> SUFFICES ASSUME NEW i \in DOMAIN t, NEW j \in DOMAIN t, i < j,
                    t[i].number # 0, t[j].number # 0
             PROVE  t[i].number < t[j].number
  BY DEF Ascending
<1>1. i \in DOMAIN s /\ t[i] = s[i]
  BY Longer
<1>2. CASE j = Len(s) + 1
  BY <1>1, <1>2, Longer DEF Before
<1>3. CASE j # Len(s) + 1
  <2>1. j \in DOMAIN s /\ t[j] = s[j]
    BY <1>3, Longer
  <2>2. QED
    BY <1>1, <2>1 DEF Ascending
<1>4. QED
  BY <1>2, <1>3

LEMMA AscendingShorter ==
  ASSUME NEW S, NEW s \in Seq(S), s # <<>>, Ascending(s)
  PROVE  /\ Ascending(Tail(s))
         /\ \A i \in DOMAIN Tail(s) : Before(Head(s).number, Tail(s)[i].number)
<1>1. ASSUME NEW i \in DOMAIN Tail(s)
      PROVE  i \in Nat \ {0} /\ i + 1 \in DOMAIN s /\ Tail(s)[i] = s[i + 1]
  BY Shorter
<1>2. Ascending(Tail(s))
  <2> SUFFICES ASSUME NEW i \in DOMAIN Tail(s), NEW j \in DOMAIN Tail(s), i < j,
                      Tail(s)[i].number # 0, Tail(s)[j].number # 0
               PROVE  Tail(s)[i].number < Tail(s)[j].number
    BY DEF Ascending
  <2>1. i + 1 < j + 1
    BY <1>1
  <2>2. QED
    BY <1>1, <2>1 DEF Ascending
<1>3. ASSUME NEW i \in DOMAIN Tail(s)
      PROVE  Before(Head(s).number, Tail(s)[i].number)
  <2>1. 1 < i + 1
    BY <1>1
  <2>2. QED
    BY <1>1, <2>1, Shorter DEF Ascending, Before
<1>4. QED
  BY <1>2, <1>3

LEMMA FeedbackTypes ==
  ASSUME TypeInv
  PROVE  /\ feedback \in Seq(FeedbackMessage)
         /\ DOMAIN feedback = 1..Len(feedback)
         /\ Len(feedback) \in Nat
         /\ \A i \in DOMAIN feedback : feedback[i].number \in Nat
         /\ item.number \in Nat
<1>1. feedback \in Seq(FeedbackMessage)
  BY DEF TypeInv, TypeOK, LinksTypeOK
<1>2. /\ DOMAIN feedback = 1..Len(feedback)
      /\ Len(feedback) \in Nat
      /\ \A i \in DOMAIN feedback : feedback[i] \in FeedbackMessage
  BY <1>1, LenProperties, ElementOfSeq
<1>3. \A kinds : \A m \in Message(kinds) : m.number \in Nat
  BY MaxInstructionsAssumption DEF Message, Numbers
<1>4. NoMessage.number \in Nat
  BY DEF NoMessage, Local
<1>5. item \in QueueMessage \cup {NoMessage}
  BY DEF TypeInv, TypeOK, ControllerTypeOK
<1>6. QED
  BY <1>1, <1>2, <1>3, <1>4, <1>5 DEF FeedbackMessage, QueueMessage

LEMMA InitOrderInv == Init => OrderInv
<1> SUFFICES ASSUME Init PROVE OrderInv
  OBVIOUS
<1>1. DOMAIN feedback = {} /\ DOMAIN queue = {} /\ ~ Unreported
  BY NoElement DEF Init, LinksInit, ControllerInit, Unreported
<1>2. QED
  BY <1>1 DEF OrderInv, Ascending, FeedbackDelivered, FeedbackBeforeQueue,
              HeldInOrder

\* The steps that move no instruction.
LEMMA SameOrder ==
  ASSUME TypeInv, OrderInv, UNCHANGED <<queue, feedback>>,
         Delivered' \in Nat, Delivered <= Delivered',
         Unreported' => Unreported /\ item' = item
  PROVE  OrderInv'
<1>1. FeedbackDelivered'
  BY NumberTypes, FeedbackTypes DEF OrderInv, FeedbackDelivered
<1>2. HeldInOrder'
  <2> SUFFICES ASSUME Unreported' PROVE HeldInOrder'
    BY DEF HeldInOrder
  <2>1. item.number <= Delivered' /\ item' = item
    BY NumberTypes, FeedbackTypes DEF OrderInv, HeldInOrder
  <2>2. QED
    BY <2>1 DEF OrderInv, HeldInOrder
<1>3. QED
  BY <1>1, <1>2 DEF OrderInv, Ascending, FeedbackBeforeQueue

\* The steps that report something that is no instruction of the server.
LEMMA LocalOrder ==
  ASSUME TypeInv, OrderInv, NEW k, Local(k) \in FeedbackMessage,
         Publish(Local(k)), UNCHANGED <<queue, Delivered>>,
         Unreported' => Unreported /\ item' = item
  PROVE  OrderInv'
<1> DEFINE n == Len(feedback) + 1
<1>1. feedback' = Append(feedback, Local(k)) /\ Local(k).number = 0
  BY DEF Publish, Local
<1>2. /\ DOMAIN feedback' = 1..n
      /\ \A i \in DOMAIN feedback : feedback'[i] = feedback[i]
      /\ feedback'[n].number = 0
  BY <1>1, FeedbackTypes, Longer
<1>3. \A i \in DOMAIN feedback' : i = n \/ i \in DOMAIN feedback
  BY <1>2, FeedbackTypes
<1>4. Ascending(feedback')
  BY <1>1, FeedbackTypes, AscendingLonger DEF OrderInv, Before
<1>5. FeedbackDelivered'
  BY <1>2, <1>3, NumberTypes DEF OrderInv, FeedbackDelivered
<1>6. FeedbackBeforeQueue' /\ HeldInOrder'
  BY <1>2, <1>3 DEF OrderInv, FeedbackBeforeQueue, HeldInOrder, Before
<1>7. Ascending(queue')
  BY DEF OrderInv
<1>8. QED
  BY <1>4, <1>5, <1>6, <1>7 DEF OrderInv

\* The steps that report the instruction the drive task holds.
LEMMA ItemOrder ==
  ASSUME TypeInv, OrderInv, Unreported, item \in FeedbackMessage,
         Publish(item), UNCHANGED <<queue, Delivered>>, ~ Unreported'
  PROVE  OrderInv'
<1> DEFINE n == Len(feedback) + 1
<1>1. feedback' = Append(feedback, item)
  BY DEF Publish
<1>2. /\ DOMAIN feedback' = 1..n
      /\ \A i \in DOMAIN feedback : feedback'[i] = feedback[i]
      /\ feedback'[n] = item
  BY <1>1, FeedbackTypes, Longer
<1>3. \A i \in DOMAIN feedback' : i = n \/ i \in DOMAIN feedback
  BY <1>2, FeedbackTypes
<1>4. Ascending(feedback')
  BY <1>1, FeedbackTypes, AscendingLonger DEF OrderInv, HeldInOrder
<1>5. FeedbackDelivered' /\ FeedbackBeforeQueue'
  BY <1>2, <1>3 DEF OrderInv, FeedbackDelivered, FeedbackBeforeQueue,
                    HeldInOrder
<1>6. HeldInOrder' /\ Ascending(queue')
  BY DEF OrderInv, HeldInOrder
<1>7. QED
  BY <1>4, <1>5, <1>6 DEF OrderInv

LEMMA ServerOrder ==
  ASSUME TypeInv, FlushInv, OrderInv, Server
  PROVE  OrderInv'
<1>1. Delivered' = Delivered
  BY ServerFlush
<1>2. UNCHANGED <<queue, feedback, drivePc, item>>
  BY DEF Server, ServerNext, PublishInstruction, controllerVars, driveTaskVars
<1>3. QED
  BY <1>1, <1>2, NumberTypes, SameOrder DEF Unreported

LEMMA StartupOrder ==
  ASSUME TypeInv, FlushInv, OrderInv, Startup
  PROVE  OrderInv'
<1>1. Delivered' \in Nat /\ Delivered <= Delivered'
  BY StartupFlush
<1>2. UNCHANGED <<queue, feedback, item>> /\ drivePc' = "read"
  BY DEF Startup, Boot
<1>3. QED
  BY <1>1, <1>2, SameOrder DEF Unreported

LEMMA MqttTaskOrder ==
  ASSUME TypeInv, FlushInv, OrderInv, MqttTask
  PROVE  OrderInv'
<1>1. /\ Delivered' = Delivered + 1
      /\ Head(inbox).number = Delivered + 1
      /\ Head(inbox) \in QueueMessage
  BY MqttTaskFlush
<1>2. UNCHANGED <<feedback, drivePc, item>>
  BY DEF MqttTask, MqttNext, EnqueueInstruction, DropInstruction,
         controllerVars, driveTaskVars
<1>3. CASE DropInstruction
  BY <1>1, <1>2, <1>3, NumberTypes, SameOrder
     DEF DropInstruction, controllerVars, Unreported
<1>4. CASE EnqueueInstruction
  <2>1. queue \in Seq(QueueMessage) /\ queue' = Append(queue, Head(inbox))
    BY <1>4 DEF EnqueueInstruction, TypeInv, TypeOK, ControllerTypeOK
  <2>2. /\ DOMAIN queue' = 1..(Len(queue) + 1)
        /\ \A j \in 1..Len(queue) : queue'[j] = queue[j]
        /\ queue'[Len(queue) + 1] = Head(inbox)
    BY <1>1, <2>1, Longer
  <2>3. \A j \in DOMAIN queue' :
          \/ j \in DOMAIN queue /\ queue'[j] = queue[j]
          \/ queue'[j].number = Delivered + 1
    BY <1>1, <2>2, NumberTypes
  \* Whatever was delivered before comes before the new instruction.
  <2>4. \A a \in Nat : a <= Delivered => Before(a, Delivered + 1)
    BY NumberTypes DEF Before
  <2>5. Ascending(queue')
    <3>1. \A j \in DOMAIN queue : Before(queue[j].number, Head(inbox).number)
      BY <1>1, <2>4, NumberTypes DEF FlushInv, QueueDelivered
    <3>2. QED
      BY <1>1, <2>1, <3>1, AscendingLonger DEF OrderInv
  <2>6. FeedbackBeforeQueue'
    BY <1>2, <2>3, <2>4, FeedbackTypes
       DEF OrderInv, FeedbackDelivered, FeedbackBeforeQueue
  <2>7. FeedbackDelivered'
    BY <1>1, <1>2, NumberTypes, FeedbackTypes DEF OrderInv, FeedbackDelivered
  <2>8. HeldInOrder'
    <3> SUFFICES ASSUME Unreported' PROVE HeldInOrder'
      BY DEF HeldInOrder
    <3>1. /\ item.number <= Delivered
          /\ \A i \in DOMAIN feedback : Before(feedback[i].number, item.number)
          /\ \A j \in DOMAIN queue : Before(item.number, queue[j].number)
      BY <1>2 DEF OrderInv, HeldInOrder, Unreported
    <3>2. item.number <= Delivered'
      BY <1>1, <3>1, NumberTypes, FeedbackTypes
    <3>3. \A j \in DOMAIN queue' : Before(item.number, queue'[j].number)
      BY <2>3, <2>4, <3>1, FeedbackTypes
    <3>4. QED
      BY <1>2, <3>1, <3>2, <3>3 DEF HeldInOrder
  <2>9. QED
    BY <1>2, <2>5, <2>6, <2>7, <2>8 DEF OrderInv
<1>5. QED
  BY <1>3, <1>4 DEF MqttTask, MqttNext

LEMMA DequeueOrder ==
  ASSUME TypeInv, FlushInv, OrderInv, Dequeue, ready, queue # <<>>
  PROVE  OrderInv'
<1>1. /\ queue \in Seq(QueueMessage)
      /\ queue' = Tail(queue) /\ item' = Head(queue)
      /\ feedback' = feedback /\ Delivered' = Delivered
  BY DEF Dequeue, linkVars, Delivered, TypeInv, TypeOK, ControllerTypeOK
<1>2. /\ \A j \in DOMAIN queue' : j + 1 \in DOMAIN queue
                               /\ queue'[j] = queue[j + 1]
      /\ 1 \in DOMAIN queue /\ item' = queue[1]
  BY <1>1, Shorter
<1>3. /\ Ascending(queue')
      /\ \A j \in DOMAIN queue' : Before(item'.number, queue'[j].number)
  BY <1>1, AscendingShorter DEF OrderInv
<1>4. FeedbackBeforeQueue'
  BY <1>1, <1>2 DEF OrderInv, FeedbackBeforeQueue
<1>5. HeldInOrder'
  BY <1>1, <1>2, <1>3
     DEF FlushInv, QueueDelivered, OrderInv, FeedbackBeforeQueue, HeldInOrder
<1>6. QED
  BY <1>1, <1>3, <1>4, <1>5 DEF OrderInv, FeedbackDelivered

LEMMA DriveTaskOrder ==
  ASSUME TypeInv, FlushInv, OrderInv, DriveTask
  PROVE  OrderInv'
<1>1. Delivered' = Delivered /\ Delivered' \in Nat /\ Delivered <= Delivered'
  BY DriveTaskFlush, NumberTypes
<1>2. CASE ReportDistance
  BY <1>1, <1>2, LocalMessages, LocalOrder DEF ReportDistance, Unreported
<1>3. CASE ReportEnd
  BY <1>1, <1>3, MessageKinds, ItemOrder
     DEF ReportEnd, Unreported, TypeInv, ItemOK
<1>4. CASE ReportInstruction
  BY <1>1, <1>4, MessageKinds, ItemOrder
     DEF ReportInstruction, Unreported, TypeInv, ItemOK
<1>5. CASE Dequeue
  <2>1. CASE ready /\ queue # <<>>
    BY <1>5, <2>1, DequeueOrder
  <2>2. CASE ~ (ready /\ queue # <<>>)
    BY <1>1, <1>5, <2>2, SameOrder DEF Dequeue, linkVars, Unreported
  <2>3. QED
    BY <2>1, <2>2
<1>6. CASE EnqueueBackward
  <2>1. UNCHANGED <<feedback, item>> /\ ~ Unreported'
    BY <1>6 DEF EnqueueBackward, linkVars, Unreported
  <2>2. CASE queue' = queue
    BY <1>1, <2>1, <2>2, SameOrder
  <2>3. CASE queue' = Append(queue, Local("backward"))
    <3>1. queue \in Seq(QueueMessage) /\ Local("backward").number = 0
      BY DEF TypeInv, TypeOK, ControllerTypeOK, Local
    <3>2. Ascending(queue')
      BY <2>3, <3>1, LocalMessages, AscendingLonger DEF OrderInv, Before
    <3>3. \A j \in DOMAIN queue' :
            \/ j \in DOMAIN queue /\ queue'[j] = queue[j]
            \/ queue'[j].number = 0
      BY <2>3, <3>1, LocalMessages, Longer
    <3>4. FeedbackBeforeQueue'
      BY <2>1, <3>3 DEF OrderInv, FeedbackBeforeQueue, Before
    <3>5. QED
      BY <1>1, <2>1, <3>2, <3>4 DEF OrderInv, FeedbackDelivered, HeldInOrder
  <2>4. QED
    BY <1>6, <2>2, <2>3 DEF EnqueueBackward
<1>7. CASE SendInstruction
  BY <1>1, <1>7, SameOrder DEF SendInstruction, Unreported
<1>8. CASE ReadUart \/ CheckBackward
  BY <1>1, <1>8, SameOrder DEF ReadUart, CheckBackward, linkVars, Unreported
<1>9. CASE ClearCurrent \/ SetCurrent
  BY <1>1, <1>9, SameOrder DEF ClearCurrent, SetCurrent, linkVars, Unreported
<1>10. QED
  BY <1>2, <1>3, <1>4, <1>5, <1>6, <1>7, <1>8, <1>9
     DEF DriveTask, DriveTaskNext

LEMMA VisionOrder ==
  ASSUME TypeInv, FlushInv, OrderInv, VisionData \/ VisionTask
  PROVE  OrderInv'
<1>1. Delivered' = Delivered /\ Delivered' \in Nat /\ Delivered <= Delivered'
  BY VisionFlush, NumberTypes
<1>2. CASE VisionData
  BY <1>1, <1>2, LocalMessages, LocalOrder
     DEF VisionData, VisionStop, driveTaskVars, Unreported
<1>3. CASE ReportTurnStop
  BY <1>1, <1>3, LocalMessages, LocalOrder
     DEF ReportTurnStop, driveTaskVars, Unreported
<1>4. CASE Peek \/ Decide \/ SetForwardStop \/ SendStop \/ SetTurnStop
  BY <1>1, <1>4, SameOrder
     DEF Peek, Decide, SetForwardStop, SendStop, SetTurnStop, driveTaskVars,
         linkVars, Unreported
<1>5. CASE Crash
  BY <1>1, <1>5, SameOrder DEF Crash, linkVars, Unreported
<1>6. CASE Flush
  <2>1. UNCHANGED <<feedback, drivePc, item>>
    BY <1>6 DEF Flush, driveTaskVars, linkVars
  <2>2. CASE queue = <<>>
    BY <1>1, <1>6, <2>1, <2>2, SameOrder DEF Flush, Unreported
  <2>3. CASE queue # <<>>
    <3>1. queue \in Seq(QueueMessage) /\ queue' = Tail(queue)
      BY <1>6, <2>3 DEF Flush, TypeInv, TypeOK, ControllerTypeOK
    <3>2. \A j \in DOMAIN queue' :
            j + 1 \in DOMAIN queue /\ queue'[j] = queue[j + 1]
      BY <2>3, <3>1, Shorter
    <3>3. Ascending(queue')
      BY <2>3, <3>1, AscendingShorter DEF OrderInv
    <3>4. FeedbackBeforeQueue' /\ HeldInOrder'
      BY <1>1, <2>1, <3>2
         DEF OrderInv, FeedbackBeforeQueue, HeldInOrder, Unreported
    <3>5. QED
      BY <1>1, <2>1, <3>3, <3>4 DEF OrderInv, FeedbackDelivered
  <2>4. QED
    BY <2>2, <2>3
<1>7. QED
  BY <1>2, <1>3, <1>4, <1>5, <1>6 DEF VisionTask, VisionTaskNext

LEMMA DriveBoardOrder ==
  ASSUME TypeInv, FlushInv, OrderInv, DriveBoard
  PROVE  OrderInv'
<1>1. Delivered' = Delivered /\ Delivered' \in Nat /\ Delivered <= Delivered'
  BY DriveBoardFlush, NumberTypes
<1>2. UNCHANGED <<queue, feedback, drivePc, item>>
  BY DEF DriveBoard, DriveNext, DriveSetup, StartInstruction,
         ContinueInstruction, CompleteInstruction, StopAbruptly,
         ResumeAfterStop, controllerVars, driveTaskVars
<1>3. QED
  BY <1>1, <1>2, SameOrder DEF Unreported

LEMMA OrderInvStep ==
  ASSUME TypeInv, FlushInv, OrderInv, [Next]_vars
  PROVE  OrderInv'
<1>1. CASE Next
  BY <1>1, ServerOrder, StartupOrder, MqttTaskOrder, DriveTaskOrder,
     VisionOrder, DriveBoardOrder DEF Next
<1>2. CASE UNCHANGED vars
  <2>1. UNCHANGED <<published, inbox, queue, feedback, drivePc, item>>
    BY <1>2 DEF vars, linkVars, controllerVars, driveTaskVars
  <2>2. Delivered' = Delivered
    BY <2>1 DEF Delivered
  <2>3. QED
    BY <2>1, <2>2, NumberTypes, SameOrder DEF Unreported
<1>3. QED
  BY <1>1, <1>2

(***************************************************************************)
(* The server hears of its instructions in the order it published them,    *)
(* and of none twice, whatever is dropped, flushed or lost in a crash on   *)
(* the way (mqtt.c:98, uart.c:83-116, spi.c:165).                          *)
(***************************************************************************)
THEOREM FeedbackInOrderHolds == Spec => []FeedbackInOrder
<1>1. TypeInv /\ FlushInv /\ OrderInv /\ [Next]_vars => OrderInv'
  BY OrderInvStep
<1>2. OrderInv => FeedbackInOrder
  BY DEF OrderInv, FeedbackInOrder
<1>3. QED
  BY InitOrderInv, TypeInvHolds, FlushInvHolds, <1>1, <1>2, PTL DEF Spec

=============================================================================
