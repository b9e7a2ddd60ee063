-------------------------------- MODULE Drive --------------------------------
(***************************************************************************)
(* The firmware of the drive board: one loop that, on each pass, reads at  *)
(* most one framed instruction from the UART and then starts, continues,   *)
(* completes or stops the current instruction.  One action below is one    *)
(* pass of that loop; a pass that changes nothing is a stuttering step.    *)
(***************************************************************************)
EXTENDS Links

VARIABLES
  driveMode,    \* "setup", "loop", or "stopped" in the delay after a stop
  instruction,  \* the instruction being executed, or NoMessage (doNothing)
  started,      \* currentInstructionStarted
  completed     \* currentInstructionCompleted

driveVars == <<driveMode, instruction, started, completed>>

DriveTypeOK ==
  /\ driveMode \in {"setup", "loop", "stopped"}
  /\ instruction \in Message(MoveKinds) \cup {NoMessage}
  /\ started \in BOOLEAN
  /\ completed \in BOOLEAN

DriveInit ==
  /\ driveMode = "setup"
  /\ instruction = NoMessage
  /\ started = FALSE
  /\ completed = FALSE

-----------------------------------------------------------------------------
(***************************************************************************)
(* The instruction a pass of the loop works on: a newly received one       *)
(* replaces the current one, whatever the state of the current one.        *)
(***************************************************************************)
CurrentInstruction ==
  IF toDrive = <<>> THEN instruction ELSE Head(toDrive)

ReceiveInstruction ==
  toDrive' = IF toDrive = <<>> THEN toDrive ELSE Tail(toDrive)

Send(token) == toControl' = Append(toControl, token)

\* setup(): the first "ready" of the drive, sent once.
DriveSetup ==
  /\ driveMode = "setup"
  /\ driveMode' = "loop"
  /\ Send("R")
  /\ UNCHANGED <<instruction, started, completed,
                 published, inbox, toDrive, feedback>>

Moving(m) == m.kind \in MoveKinds

\* Mutant: the drive reports ready as soon as it starts an instruction.
StartInstruction_ReadyEarly ==
  /\ driveMode = "loop"
  /\ Moving(CurrentInstruction)
  /\ ~ started
  /\ ReceiveInstruction
  /\ instruction' = CurrentInstruction
  /\ started' = TRUE
  /\ completed' = FALSE
  /\ Send("R")
  /\ UNCHANGED <<driveMode, published, inbox, feedback>>

StartInstruction ==
  /\ driveMode = "loop"
  /\ Moving(CurrentInstruction)
  /\ ~ started
  /\ ReceiveInstruction
  /\ instruction' = CurrentInstruction
  /\ started' = TRUE
  /\ completed' = FALSE
  /\ UNCHANGED <<driveMode, published, inbox, toControl, feedback>>

\* The move goes on, or the displacement reached says that it is done.
ContinueInstruction(done) ==
  /\ driveMode = "loop"
  /\ Moving(CurrentInstruction)
  /\ started
  /\ ~ completed
  /\ ReceiveInstruction
  /\ instruction' = CurrentInstruction
  /\ completed' = done
  /\ UNCHANGED <<driveMode, started, published, inbox, toControl, feedback>>

\* Mutant: the end of an instruction is not reported.
CompleteInstruction_Silent ==
  /\ driveMode = "loop"
  /\ Moving(CurrentInstruction)
  /\ started
  /\ completed
  /\ ReceiveInstruction
  /\ instruction' = NoMessage
  /\ started' = FALSE
  /\ UNCHANGED <<driveMode, completed, published, inbox, toControl, feedback>>

CompleteInstruction ==
  /\ driveMode = "loop"
  /\ Moving(CurrentInstruction)
  /\ started
  /\ completed
  /\ ReceiveInstruction
  /\ instruction' = NoMessage
  /\ started' = FALSE
  /\ Send("R")
  /\ UNCHANGED <<driveMode, completed, published, inbox, feedback>>

\* Mutant: the stop stays the current instruction.
StopAbruptly_KeepsInstruction ==
  /\ driveMode = "loop"
  /\ CurrentInstruction.kind = "stop"
  /\ ReceiveInstruction
  /\ instruction' = CurrentInstruction
  /\ started' = FALSE
  /\ driveMode' = "stopped"
  /\ Send("S")
  /\ UNCHANGED <<completed, published, inbox, feedback>>

(***************************************************************************)
(* stopAbruptly: forget the instruction, report the distance driven, then  *)
(* wait 2 s (mode "stopped", in which the UART is not read) and report     *)
(* ready, whether or not an instruction was being executed.                *)
(***************************************************************************)
StopAbruptly ==
  /\ driveMode = "loop"
  /\ CurrentInstruction.kind = "stop"
  /\ ReceiveInstruction
  /\ instruction' = NoMessage
  /\ started' = FALSE
  /\ driveMode' = "stopped"
  /\ Send("S")
  /\ UNCHANGED <<completed, published, inbox, feedback>>

ResumeAfterStop ==
  /\ driveMode = "stopped"
  /\ driveMode' = "loop"
  /\ Send("R")
  /\ UNCHANGED <<instruction, started, completed,
                 published, inbox, toDrive, feedback>>

DriveNext ==
  \/ DriveSetup
  \/ StartInstruction
  \/ \E done \in BOOLEAN : ContinueInstruction(done)
  \/ CompleteInstruction
  \/ StopAbruptly
  \/ ResumeAfterStop

\* The drive has an instruction, or owes a "ready" that no one need ask for.
Busy == instruction # NoMessage \/ driveMode # "loop"

\* The wheels turn forward.
MovingForward == started /\ instruction.kind = "forward"

=============================================================================
