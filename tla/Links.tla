-------------------------------- MODULE Links --------------------------------
(***************************************************************************)
(* The channels between the command server, the control board (ESP32) and  *)
(* the drive board (Arduino), and the messages they carry.                 *)
(*                                                                         *)
(* The drive instructions the server publishes are numbered 1, 2, ... in   *)
(* the order of publication.  The number is not in the message: it lets a  *)
(* property follow one instruction through the system.  Messages that do   *)
(* not come from the server have number 0.  Distances and angles are left  *)
(* out, and turnLeft and turnRight are one kind: no decision of the two    *)
(* boards depends on them.                                                 *)
(***************************************************************************)
EXTENDS Naturals, Sequences, FiniteSets

CONSTANT MaxInstructions   \* bound: instructions the server publishes

ASSUME MaxInstructionsAssumption == MaxInstructions \in Nat

VARIABLES
  published,   \* number of instructions the server has published
  inbox,       \* "/drive/instruction": published, not yet handled by control
  toDrive,     \* UART, control to drive: framed instructions "<dataKEY>"
  toControl,   \* UART, drive to control: "R" (ready) or "S" (stopped)
  feedback     \* "/feedback/instruction": everything control has published

linkVars == <<published, inbox, toDrive, toControl, feedback>>

Numbers == 0..MaxInstructions

\* What the server sends: moves, and X, which ends a sequence of moves.
ServerKinds == {"forward", "turn", "X"}

\* What the drive executes.  A backward comes from control itself.
MoveKinds == {"forward", "turn", "backward"}

Message(kinds) == [kind : kinds, number : Numbers]

QueueMessage    == Message(ServerKinds \cup {"backward"})
DriveMessage    == Message(MoveKinds \cup {"stop"})
FeedbackMessage == Message(MoveKinds \cup {"X", "S", "SD", "SDturn"})

\* A message that is not one of the server's instructions.
Local(k) == [kind |-> k, number |-> 0]

NoMessage == Local("none")

LinksTypeOK ==
  /\ published \in Numbers
  /\ inbox \in Seq(Message(ServerKinds))
  /\ toDrive \in Seq(DriveMessage)
  /\ toControl \in Seq({"R", "S"})
  /\ feedback \in Seq(FeedbackMessage)

LinksInit ==
  /\ published = 0
  /\ inbox = <<>>
  /\ toDrive = <<>>
  /\ toControl = <<>>
  /\ feedback = <<>>

-----------------------------------------------------------------------------
(***************************************************************************)
(* The server publishes one more message of an instruction sequence.  Any  *)
(* kind may come next: sequences started by several HTTP requests and by   *)
(* the feedback handler are not serialised by the server.  QoS 2 delivers  *)
(* each message once and in order.                                         *)
(***************************************************************************)
PublishInstruction(k) ==
  /\ published < MaxInstructions
  /\ published' = published + 1
  /\ inbox' = Append(inbox, [kind |-> k, number |-> published + 1])
  /\ UNCHANGED <<toDrive, toControl, feedback>>

ServerNext == \E k \in ServerKinds : PublishInstruction(k)

\* The highest number that control's MQTT client has taken from the topic.
Delivered == published - Len(inbox)

=============================================================================
