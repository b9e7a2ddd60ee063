-------------------------------- MODULE Sight --------------------------------
(***************************************************************************)
(* From what the camera sees to the control board: the image processor and *)
(* the program of the vision board, the start of the control board, and    *)
(* the SPI link, on which a message is lost unless the control board is    *)
(* waiting for one (spi.c:54).                                             *)
(***************************************************************************)
EXTENDS Vision, Wifi

VARIABLE waiting    \* vision_spi_task waits for a message

vars == <<imageVars, visionVars, wifiVars, waiting>>

TypeOK ==
  /\ ImageProcTypeOK /\ VisionTypeOK /\ WifiTypeOK
  /\ waiting \in BOOLEAN /\ (waiting => booted)

Init ==
  /\ ImageProcInit /\ VisionInit /\ WifiInit
  /\ waiting = FALSE

(***************************************************************************)
(* A message comes every 100 ms.  A drain is over long before the next but *)
(* one, except for what it prints.                                         *)
(***************************************************************************)
DrainIsFast ==
  \/ pc = "loop"
  \/ Printing
  \/ count_messages < 5 /\ Len(fifo) < 5

Frame ==
  /\ \E view \in Views : EndOfFrame(view)
  /\ DrainIsFast
  /\ UNCHANGED <<visionVars, wifiVars, waiting>>

\* A control board that waits takes the stop, and publishes and handles it.
Send ==
  /\ SendBall \/ SendObstacle
  /\ waiting' = FALSE
  /\ UNCHANGED wifiVars

Program ==
  /\ StartDrain \/ ReadWord \/ EndDrain \/ PrintPosition
  /\ UNCHANGED <<wifiVars, waiting>>

Connection ==
  /\ Connecting \/ Disconnected \/ GotIP
  /\ UNCHANGED <<imageVars, visionVars, waiting>>

Start == BootEnds /\ waiting' = TRUE /\ UNCHANGED <<imageVars, visionVars>>

\* handle_vision_stop_instruction is over.
StopHandled ==
  /\ booted /\ ~ waiting
  /\ waiting' = TRUE
  /\ UNCHANGED <<imageVars, visionVars, wifiVars>>

Next == Frame \/ Send \/ Program \/ Connection \/ Start \/ StopHandled

Spec == Init /\ [][Next]_vars

(***************************************************************************)
(* The camera delivers frames, the program runs, a printf ends after ten   *)
(* seconds at the latest, the wifi driver ends each attempt with an event, *)
(* and the tasks of the control board are scheduled.  Nothing makes a      *)
(* connection break.                                                       *)
(***************************************************************************)
Fairness ==
  /\ WF_vars(Frame) /\ WF_vars(Send) /\ WF_vars(Program)
  /\ WF_vars(station # "connected" /\ Connection)
  /\ WF_vars(Start) /\ WF_vars(StopHandled)

FairSpec == Spec /\ Fairness

-----------------------------------------------------------------------------
(***************************************************************************)
(* The first message of a drain is read in step: what is taken for the     *)
(* ball or the obstacle is the word that bears it, whatever drains were    *)
(* interrupted before (main.c:265-347 counts words, and looks at none).    *)
(***************************************************************************)
InStep ==
  pc = "status" /\ msg_buf_size # 0 /\ count_messages < 5 =>
    Head(fifo).part = count_messages

(***************************************************************************)
(* No stop for a ball that was not seen: the messages processed last, more *)
(* than three, all had its colour, and the last one a valid ball, although *)
(* the count stands still while the colour is the one sent last            *)
(* (main.c:282-297).                                                       *)
(***************************************************************************)
SentWasSeen ==
  pc = "sendBall" =>
    ball.valid /\ run.color = ball.color /\ run.n > BallSightings

Stands(Shown(_)) == <>[](\A k \in DOMAIN fifo : Shown(fifo[k].view))

(***************************************************************************)
(* What stays in view is sent, again and again if both a ball and an       *)
(* obstacle do, whatever was in view before and however long printf waits  *)
(* for the host; unless that made the image processor fill its FIFO        *)
(* (main.c:282-340).                                                       *)
(***************************************************************************)
StandingReported ==
  /\ \A c \in Colours :
       LET Ball(view) == view.valid /\ view.ball = c
       IN  Stands(Ball) => []<>(last_sent = c \/ Deaf)
  /\ LET Box(view) == view.obs
     IN  Stands(Box) => []<>(last_sent = Obstacle \/ Deaf)

(***************************************************************************)
(* An obstacle that is the first thing in view, after the control board    *)
(* has started, is heard of, if it stays.  What comes into view before is  *)
(* not: the stop is lost, and not sent again (main.c:298, 340).            *)
(***************************************************************************)
FirstObstacleHeard ==
  /\ last_sent # Obstacle
  /\ [](\A k \in DOMAIN fifo :
         ~ fifo[k].view.valid /\ (fifo[k].view.obs => booted))
  /\ <>[](\A k \in DOMAIN fifo : fifo[k].view.obs)
  => <>(Deaf \/ (booted /\ ~ waiting))

\* The wait for the wifi ends, with or without it (wifi.c:71-74).
BootNeverHangs == <>booted

=============================================================================
