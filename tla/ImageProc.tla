------------------------------ MODULE ImageProc ------------------------------
(***************************************************************************)
(* The image processor of the vision board, as far as the program on the   *)
(* board can see it: at the end of every MSG_INTERVAL-th frame it writes a *)
(* message of five words into a FIFO, which the program reads word by word *)
(* (EEE_IMGPROC.v).  Which pixels make a ball is not modelled; a view is   *)
(* what the blob detectors make of a frame.                                *)
(*                                                                         *)
(* The five words are written in five cycles of the clock, in which the    *)
(* program does not get from one read to the next: one step here.          *)
(***************************************************************************)
EXTENDS Integers, Sequences

CONSTANTS
  Views,            \* what a frame may show: the ball, whether its position
                    \* and size are valid, and a valid obstacle
  MESSAGE_BUF_MAX,  \* words in the FIFO
  MSG_INTERVAL,     \* frames per message
  FrameWrap         \* values of the frame counter (256)

ASSUME ImageProcAssumption ==
  /\ \A view \in Views : /\ DOMAIN view = {"ball", "valid", "obs"}
                         /\ {view.valid, view.obs} \subseteq BOOLEAN
  /\ {MESSAGE_BUF_MAX, MSG_INTERVAL, FrameWrap} \subseteq Nat \ {0}
  /\ MSG_INTERVAL <= FrameWrap

VARIABLES
  frame_count,
  fifo              \* words: their place in the message, and the view

imageVars == <<frame_count, fifo>>

Words == [part : 0..4, view : Views]

ImageProcTypeOK ==
  /\ frame_count \in 0..(FrameWrap - 1)
  /\ fifo \in Seq(Words) /\ Len(fifo) <= MESSAGE_BUF_MAX

\* A register without a reset value starts at 0.
ImageProcInit == frame_count = 0 /\ fifo = <<>>

\* The number of words has no bit for a full FIFO.
msg_buf_size == Len(fifo) % MESSAGE_BUF_MAX

Message(view) == [k \in 1..5 |-> [part |-> k - 1, view |-> view]]

\* Mutant: a FIFO that does not check.
Written_Unchecked(words) == fifo \o words

\* What does not fit is lost (overflow_checking).
Written(words) ==
  LET all == fifo \o words
  IN  IF Len(all) <= MESSAGE_BUF_MAX THEN all ELSE SubSeq(all, 1, MESSAGE_BUF_MAX)

EndOfFrame(view) ==
  IF frame_count = 0 /\ msg_buf_size < MESSAGE_BUF_MAX - 3
  THEN fifo' = Written(Message(view)) /\ frame_count' = MSG_INTERVAL - 1
  ELSE fifo' = fifo /\ frame_count' = (frame_count - 1) % FrameWrap

\* The status shows no word although the FIFO is full: the program, which
\* reads nothing then, never sees another message.
Deaf == Len(fifo) = MESSAGE_BUF_MAX

(***************************************************************************)
(* EEE_IMGPROC.v:307 starts the message writer "if there is room in the    *)
(* FIFO": no message is cut.                                               *)
(***************************************************************************)
RoomForMessage == fifo # <<>> => fifo[Len(fifo)].part = 4

=============================================================================
