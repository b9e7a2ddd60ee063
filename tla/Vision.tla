------------------------------- MODULE Vision --------------------------------
(***************************************************************************)
(* The program of the vision board (D8M_Camera_Test/main.c): it drains the *)
(* FIFO of the image processor, takes the first message of a drain, and    *)
(* sends a stop to the control board once a ball or an obstacle has been   *)
(* seen a number of times and is not what it sent last.                    *)
(*                                                                         *)
(* Whatever it does it prints, to a JTAG UART whose write waits while its  *)
(* buffer is full and the host has read something within ten seconds: a    *)
(* step that prints may take that long.                                    *)
(***************************************************************************)
EXTENDS ImageProc

CONSTANTS
  NoBall,           \* the colour of a view without one
  Obstacle,         \* 'U'
  Garbage,          \* any other character
  BallSightings,    \* a ball is sent when seen more often than this (3)
  ObsSightings      \* an obstacle (5)

Colours == {view.ball : view \in Views} \ {NoBall}
Chars == Colours \cup {Obstacle, Garbage}

ASSUME VisionAssumption ==
  /\ NoBall \notin Chars /\ Obstacle # Garbage /\ Colours \cap {Obstacle, Garbage} = {}
  /\ \A view \in Views : view.ball = NoBall => ~ view.valid
  /\ {BallSightings, ObsSightings} \subseteq Nat

VARIABLES
  pc,               \* "loop", or a place in the drain
  count_messages,   \* words read in this drain; 5 stands for more
  sec_worked,
  ball,             \* color, and whether position and radius are valid
  obs,              \* whether the obstacle's are
  last_seen, last_seen_count,
  obs_last_seen_count,
  last_sent,
  run               \* history: the colour of the balls processed last, how often

visionVars == <<pc, count_messages, sec_worked, ball, obs, last_seen,
                last_seen_count, obs_last_seen_count, last_sent, run>>

drainVars == <<count_messages, sec_worked, ball, obs>>
seenVars == <<last_seen, last_seen_count, obs_last_seen_count, last_sent, run>>

NoBallRead == [color |-> NoBall, valid |-> FALSE]

VisionTypeOK ==
  /\ pc \in {"loop", "status", "sendBall", "sendObstacle", "print"}
  /\ count_messages \in 0..5
  /\ sec_worked \in BOOLEAN
  /\ ball \in [color : Chars \cup {NoBall}, valid : BOOLEAN]
  /\ obs \in BOOLEAN
  /\ {last_seen, last_sent} \subseteq Chars
  /\ last_seen_count \in 0..(BallSightings + 1)
  /\ obs_last_seen_count \in 0..(ObsSightings + 1)
  /\ run.color \in Chars \cup {NoBall} /\ run.n \in 0..(BallSightings + 1)

\* last_seen and last_sent are not initialised.
VisionInit ==
  /\ pc = "loop"
  /\ count_messages = 0 /\ sec_worked = FALSE /\ ball = NoBallRead /\ obs = FALSE
  /\ last_seen \in Chars /\ last_sent \in Chars
  /\ last_seen_count = 0 /\ obs_last_seen_count = 0
  /\ run = [color |-> NoBall, n |-> 0]

Upto(n, max) == IF n < max THEN n ELSE max

-----------------------------------------------------------------------------
StartDrain ==
  /\ pc = "loop"
  /\ pc' = "status"
  /\ UNCHANGED <<imageVars, drainVars, seenVars>>

\* Mutant: the drain ends with the ball of its first message.
EndDrain_AfterBall ==
  /\ pc = "status"
  /\ msg_buf_size = 0 \/ count_messages = 3
  /\ pc' = "loop"
  /\ count_messages' = 0 /\ sec_worked' = FALSE /\ ball' = NoBallRead /\ obs' = FALSE
  /\ UNCHANGED <<imageVars, seenVars>>

EndDrain ==
  /\ pc = "status"
  /\ msg_buf_size = 0
  /\ pc' = "loop"
  /\ count_messages' = 0 /\ sec_worked' = FALSE /\ ball' = NoBallRead /\ obs' = FALSE
  /\ UNCHANGED <<imageVars, seenVars>>

\* A word is read: it leaves the FIFO.
Read(word) ==
  /\ fifo' = Tail(fifo)
  /\ count_messages' = Upto(count_messages + 1, 5)
  /\ UNCHANGED frame_count

Meant(word) == word.part # 0 /\ count_messages \in 1..4

\* The start, and all after the first message.
SkipWord(word) ==
  /\ Read(word)
  /\ ~ Meant(word)
  /\ UNCHANGED <<pc, sec_worked, ball, obs, seenVars>>

\* Without a ball the index is 31: color_names is read behind its end.
ReadBall(word) ==
  /\ Read(word)
  /\ Meant(word) /\ count_messages = 1
  /\ \E color \in Chars :
       /\ word.view.ball # NoBall => color = word.view.ball
       /\ ball' = [color |-> color, valid |-> word.view.valid]
  /\ sec_worked' = TRUE
  /\ UNCHANGED <<pc, obs, seenVars>>

\* Mutant: a ball of another colour leaves the count as it is.
BallCount_AnyColour ==
  IF ball.color = last_sent THEN last_seen_count
  ELSE IF ball.valid THEN Upto(last_seen_count + 1, BallSightings + 1)
  ELSE 0

\* Consecutive sightings; no longer counted once the ball has been sent.
BallCount ==
  IF ball.color # last_seen THEN 0
  ELSE IF ball.color = last_sent THEN last_seen_count
  ELSE IF ball.valid THEN Upto(last_seen_count + 1, BallSightings + 1)
  ELSE 0

CountBall(word) ==
  /\ Read(word)
  /\ Meant(word) /\ count_messages = 2
  /\ sec_worked' = FALSE
  /\ IF ~ sec_worked
     THEN UNCHANGED <<pc, seenVars>>
     ELSE /\ last_seen' = ball.color
          /\ last_seen_count' = BallCount
          /\ run' = [color |-> ball.color,
                     n |-> IF run.color = ball.color THEN Upto(run.n + 1, BallSightings + 1)
                           ELSE 1]
          /\ pc' = IF ball.color # last_sent /\ BallCount > BallSightings THEN "sendBall"
                   ELSE IF word.view.ball # NoBall THEN "print" ELSE "status"
          /\ UNCHANGED <<obs_last_seen_count, last_sent>>
  /\ UNCHANGED <<ball, obs>>

ReadObstacle(word) ==
  /\ Read(word)
  /\ Meant(word) /\ count_messages = 3
  /\ obs' = word.view.obs
  /\ sec_worked' = TRUE
  /\ UNCHANGED <<pc, ball, seenVars>>

\* Mutant: the count starts anew when it has reached the limit.
ObsCount_Wraps ==
  IF obs /\ obs_last_seen_count < ObsSightings THEN obs_last_seen_count + 1 ELSE 0

ObsCount == IF obs THEN Upto(obs_last_seen_count + 1, ObsSightings + 1) ELSE 0

CountObstacle(word) ==
  /\ Read(word)
  /\ Meant(word) /\ count_messages = 4
  /\ sec_worked' = FALSE
  /\ IF ~ sec_worked
     THEN UNCHANGED <<pc, obs_last_seen_count>>
     ELSE /\ obs_last_seen_count' = ObsCount
          /\ pc' = IF last_sent # Obstacle /\ ObsCount > ObsSightings THEN "sendObstacle"
                   ELSE "print"
  /\ UNCHANGED <<ball, obs, last_seen, last_seen_count, last_sent, run>>

-----------------------------------------------------------------------------
\* printf, alt_avalon_spi_command, last_sent.
Printing == pc \in {"sendBall", "sendObstacle", "print"}

SendBall ==
  /\ pc = "sendBall"
  /\ last_sent' = ball.color
  /\ pc' = "print"
  /\ UNCHANGED <<imageVars, drainVars, last_seen, last_seen_count,
                 obs_last_seen_count, run>>

SendObstacle ==
  /\ pc = "sendObstacle"
  /\ last_sent' = Obstacle
  /\ obs_last_seen_count' = 0
  /\ pc' = "print"
  /\ UNCHANGED <<imageVars, drainVars, last_seen, last_seen_count, run>>

\* A position that is valid.
PrintPosition ==
  /\ pc = "print"
  /\ pc' = "status"
  /\ UNCHANGED <<imageVars, drainVars, seenVars>>

ReadWord ==
  /\ pc = "status"
  /\ msg_buf_size # 0
  /\ \E word \in {Head(fifo)} :
       \/ SkipWord(word) \/ ReadBall(word) \/ CountBall(word)
       \/ ReadObstacle(word) \/ CountObstacle(word)

=============================================================================
