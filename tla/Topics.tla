------------------------------- MODULE Topics --------------------------------
(***************************************************************************)
(* The two MQTT topics between the server and the rover.                   *)
(***************************************************************************)
EXTENDS Plans

VARIABLES
  topic,    \* "/drive/instruction": instructions on their way to the rover
  reports   \* "/feedback/instruction": reports on their way to the server

topics == <<topic, reports>>

\* What ends each sequence of instructions.
End == [kind |-> "X", value |-> 0]

\* The colours of balls, and U for any other obstacle.
Colours == {"U", "B", "R", "Y", "T", "V"}

\* Reports: an instruction that is being executed, the end of a sequence,
\* and the two parts of a stop: the obstacle's colour and the distance.
InstructionKinds == {"forward", "turnRight", "turnLeft", "backward", "X"}

Report(kind, value) == [kind |-> kind, value |-> value]

TopicsTypeOK ==
  /\ topic \in Seq([kind : InstructionKinds, value : Nat])
  /\ \A i \in DOMAIN reports :
       reports[i] \in [kind : InstructionKinds, value : Nat]
                        \cup [kind : {"S"}, value : Colours]
                        \cup [kind : {"SD"}, value : {-1} \cup Nat]

TopicsInit == topic = <<>> /\ reports = <<>>

=============================================================================
