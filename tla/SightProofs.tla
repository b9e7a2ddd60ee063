----------------------------- MODULE SightProofs ------------------------------
(***************************************************************************)
(* What holds of Sight for every value of its constants: types, the        *)
(* alignment of the words in the FIFO with the count of the program that   *)
(* reads them, and that nothing is sent that was not seen.                 *)
(***************************************************************************)
EXTENDS Sight, SequenceTheorems, TLAPS

(***************************************************************************)
(* The program holds a colour when it is about to use one: main.c writes   *)
(* color_char before sec_worked.                                           *)
(***************************************************************************)
ColourRead ==
  /\ sec_worked /\ count_messages <= 2 => ball.color # NoBall
  /\ ball.valid => ball.color # NoBall

(***************************************************************************)
(* last_seen_count never exceeds the number of messages processed last     *)
(* that had one and the same colour, which is last_seen.                   *)
(***************************************************************************)
CountIsOfRun ==
  /\ last_seen_count <= run.n
  /\ run.n # 0 => run.color = last_seen

(***************************************************************************)
(* TypeOK in two parts, for the Boolean variables and for the others.      *)
(***************************************************************************)
VisionValues ==
  /\ pc \in {"loop", "status", "sendBall", "sendObstacle", "print"}
  /\ count_messages \in 0..5
  /\ ball \in [color : Chars \cup {NoBall}, valid : BOOLEAN]
  /\ last_seen \in Chars /\ last_sent \in Chars
  /\ last_seen_count \in 0..(BallSightings + 1)
  /\ obs_last_seen_count \in 0..(ObsSightings + 1)
  /\ run.color \in Chars \cup {NoBall} /\ run.n \in 0..(BallSightings + 1)

WifiValues ==
  /\ station \in {"asked", "connecting", "connected", "off"}
  /\ wifiRetries \in 0..WIFI_MAXIMUM_RETRY
  /\ bits \subseteq {"WIFI_CONNECTED_BIT", "WIFI_FAIL_BIT"}

Values ==
  /\ ImageProcTypeOK /\ VisionValues /\ WifiValues
  /\ waiting => booted

Booleans == {sec_worked, obs, booted, waiting} \subseteq BOOLEAN

LEMMA TypeOKInParts == TypeOK <=> Values /\ Booleans
BY DEF TypeOK, Values, Booleans, VisionTypeOK, VisionValues, WifiTypeOK, WifiValues

ProgramInv == Values /\ ColourRead /\ CountIsOfRun /\ SentWasSeen

-----------------------------------------------------------------------------
\* The FIFO.

LEMMA EmptyLen == Len(<<>>) = 0
BY EmptySeq

LEMMA BufSize ==
  ASSUME ImageProcTypeOK
  PROVE  /\ Len(fifo) \in 0..MESSAGE_BUF_MAX
         /\ msg_buf_size = IF Deaf THEN 0 ELSE Len(fifo)
<1> DEFINE n == Len(fifo)
<1>1. n \in 0..MESSAGE_BUF_MAX /\ MESSAGE_BUF_MAX \in Nat \ {0}
  BY LenProperties, ImageProcAssumption DEF ImageProcTypeOK
<1>2. n % MESSAGE_BUF_MAX = IF n = MESSAGE_BUF_MAX THEN 0 ELSE n
  <2> HIDE DEF n
  <2> QED
    BY <1>1
<1>3. QED
  BY <1>1, <1>2 DEF msg_buf_size, Deaf

LEMMA MessageWords ==
  ASSUME NEW view \in Views
  PROVE  /\ Message(view) \in Seq(Words)
         /\ Len(Message(view)) = 5
         /\ \A k \in 1..5 : Message(view)[k].part = k - 1
BY DEF Message, Words

(***************************************************************************)
(* What a frame does to the FIFO: nothing, or a whole message more, or one *)
(* that is cut and fills it.                                               *)
(***************************************************************************)
LEMMA FrameWrites ==
  ASSUME ImageProcTypeOK, NEW view \in Views, EndOfFrame(view)
  PROVE  /\ ImageProcTypeOK'
         /\ Deaf => Deaf'
         /\ ~ Deaf' => fifo' = fifo \/ fifo' = fifo \o Message(view)
<1> DEFINE all == fifo \o Message(view)
<1>1. fifo \in Seq(Words) /\ Message(view) \in Seq(Words)
  BY MessageWords DEF ImageProcTypeOK
<1>2. /\ all \in Seq(Words)
      /\ Len(all) = Len(fifo) + 5
  <2> DEFINE m == Message(view)
  <2>1. m \in Seq(Words) /\ Len(m) = 5
    BY MessageWords
  <2> HIDE DEF m
  <2>2. /\ fifo \o m \in Seq(Words)
        /\ Len(fifo \o m) = Len(fifo) + Len(m)
    BY <1>1, <2>1, ConcatProperties
  <2>3. /\ fifo \o m \in Seq(Words)
        /\ Len(fifo \o m) = Len(fifo) + 5
    BY <2>1, <2>2
  <2>4. QED
    BY <2>3 DEF m
<1>3. Len(fifo) \in Nat /\ MESSAGE_BUF_MAX \in Nat /\ Len(fifo) <= MESSAGE_BUF_MAX
  BY <1>1, LenProperties, ImageProcAssumption DEF ImageProcTypeOK
<1>4. frame_count' \in 0..(FrameWrap - 1)
  <2>1. /\ frame_count \in Int /\ MSG_INTERVAL \in Nat \ {0}
        /\ FrameWrap \in Nat \ {0} /\ MSG_INTERVAL <= FrameWrap
    BY ImageProcAssumption DEF ImageProcTypeOK
  <2>2. (frame_count - 1) % FrameWrap \in 0..(FrameWrap - 1)
    BY <2>1
  <2>3. QED
    BY <2>1, <2>2 DEF EndOfFrame
<1>5. CASE fifo' = fifo
  BY <1>4, <1>5 DEF ImageProcTypeOK, Deaf
<1>6. CASE fifo' # fifo
  <2>1. fifo' = Written(Message(view))
    BY <1>6 DEF EndOfFrame
  <2>2. CASE Len(all) <= MESSAGE_BUF_MAX
    <3>1. fifo' = all /\ ~ Deaf
      BY <2>1, <2>2, <1>2, <1>3 DEF Written, Deaf
    <3>2. QED
      BY <3>1, <1>2, <1>4, <2>2 DEF ImageProcTypeOK
  <2>3. CASE ~ (Len(all) <= MESSAGE_BUF_MAX)
    <3>1. fifo' = SubSeq(all, 1, MESSAGE_BUF_MAX)
      BY <2>1, <2>3 DEF Written
    <3>2. 1 \in 1..(Len(all) + 1) /\ MESSAGE_BUF_MAX \in 0..Len(all)
      BY <1>2, <1>3, <2>3
    <3>3. fifo' \in Seq(Words) /\ Len(fifo') = MESSAGE_BUF_MAX
      BY <3>1, <3>2, <1>2, <1>3, SubSeqProperties
    <3>4. QED
      BY <3>3, <1>3, <1>4 DEF ImageProcTypeOK, Deaf
  <2>4. QED
    BY <2>2, <2>3
<1>7. QED
  BY <1>5, <1>6

LEMMA ReadTakesOne ==
  ASSUME ImageProcTypeOK, NEW word, word = Head(fifo), msg_buf_size # 0, Read(word),
         count_messages \in 0..5
  PROVE  /\ ~ Deaf /\ fifo # <<>> /\ word \in Words
         /\ ImageProcTypeOK' /\ ~ Deaf'
         /\ fifo' = Tail(fifo) /\ Len(fifo') = Len(fifo) - 1
         /\ count_messages' = (IF count_messages < 5 THEN count_messages + 1 ELSE 5)
<1>1. ~ Deaf /\ Len(fifo) # 0 /\ Len(fifo) \in 0..MESSAGE_BUF_MAX
  BY BufSize
<1>2. fifo \in Seq(Words) /\ fifo # <<>>
  BY <1>1, EmptySeq DEF ImageProcTypeOK
<1>3. /\ word \in Words /\ fifo' = Tail(fifo)
      /\ Tail(fifo) \in Seq(Words) /\ Len(Tail(fifo)) = Len(fifo) - 1
  BY <1>2, HeadTailProperties DEF Read
<1>4. ImageProcTypeOK' /\ ~ Deaf'
  BY <1>1, <1>3, ImageProcAssumption DEF ImageProcTypeOK, Deaf, Read
<1>5. count_messages' = (IF count_messages < 5 THEN count_messages + 1 ELSE 5)
  BY DEF Read, Upto
<1>6. QED
  BY <1>1, <1>2, <1>3, <1>4, <1>5

-----------------------------------------------------------------------------
\* The program.

(***************************************************************************)
(* Every step that moves the count moves the program and its counters with *)
(* it; the others leave what ProgramInv speaks of alone.                   *)
(***************************************************************************)
LEMMA CountBallInv ==
  ASSUME ProgramInv, NEW word, ImageProcTypeOK', CountBall(word),
         UNCHANGED <<wifiVars, waiting>>
  PROVE  ProgramInv'
<1>1. /\ BallSightings \in Nat /\ ObsSightings \in Nat
      /\ last_seen_count \in 0..(BallSightings + 1)
      /\ run.n \in 0..(BallSightings + 1) /\ count_messages = 2
      /\ ball.valid \in BOOLEAN
  BY VisionAssumption DEF ProgramInv, Values, VisionValues, CountBall
<1>2. count_messages' = 3 /\ sec_worked' = FALSE /\ UNCHANGED <<ball, obs>>
  BY <1>1 DEF CountBall, Read, Upto
<1>3. CASE ~ sec_worked
  <2>1. UNCHANGED <<pc, seenVars>>
    BY <1>3 DEF CountBall
  <2>2. QED
    BY <1>2, <2>1 DEF ProgramInv, Values, VisionValues, WifiValues, ColourRead,
                      CountIsOfRun, SentWasSeen, seenVars, wifiVars
<1>4. CASE sec_worked
  <2>1. ball.color \in Chars /\ ball.color # NoBall
    BY <1>1, <1>4 DEF ProgramInv, ColourRead, Values, VisionValues
  <2>2. /\ last_seen' = ball.color /\ last_seen_count' = BallCount
        /\ run' = [color |-> ball.color,
                   n |-> IF run.color = ball.color THEN Upto(run.n + 1, BallSightings + 1)
                         ELSE 1]
        /\ pc' \in {"sendBall", "print", "status"}
        /\ pc' = "sendBall" => ball.color # last_sent /\ BallCount > BallSightings
        /\ UNCHANGED <<obs_last_seen_count, last_sent>>
    BY <1>4 DEF CountBall
  <2>3. BallCount \in 0..(BallSightings + 1)
    BY <1>1 DEF BallCount, Upto
  <2>4. BallCount <= run'.n /\ run'.n \in 0..(BallSightings + 1)
    <3>1. last_seen_count <= run.n /\ (run.n # 0 => run.color = last_seen)
      BY DEF ProgramInv, CountIsOfRun
    <3>2. run'.n = IF run.color = ball.color THEN Upto(run.n + 1, BallSightings + 1) ELSE 1
      BY <2>2
    <3>3. QED
      BY <1>1, <3>1, <3>2 DEF BallCount, Upto
  <2>5. pc' = "sendBall" => ball.valid
    BY <1>1, <2>2 DEF BallCount
  <2>6. VisionValues'
    BY <1>2, <2>1, <2>2, <2>3, <2>4 DEF VisionValues, ProgramInv, Values
  <2>7. Values'
    BY <2>6 DEF ProgramInv, Values, WifiValues, wifiVars
  <2>8. ColourRead' /\ CountIsOfRun'
    BY <1>2, <2>1, <2>2, <2>4 DEF ColourRead, CountIsOfRun
  <2>9. SentWasSeen'
    BY <1>1, <1>2, <2>2, <2>3, <2>4, <2>5 DEF SentWasSeen
  <2>10. QED
    BY <2>7, <2>8, <2>9 DEF ProgramInv
<1>5. QED
  BY <1>3, <1>4

LEMMA CountObstacleInv ==
  ASSUME ProgramInv, NEW word, ImageProcTypeOK', CountObstacle(word), pc = "status",
         UNCHANGED <<wifiVars, waiting>>
  PROVE  ProgramInv'
<1>1. /\ ObsSightings \in Nat /\ obs_last_seen_count \in 0..(ObsSightings + 1)
      /\ count_messages = 4
  BY VisionAssumption DEF ProgramInv, Values, VisionValues, CountObstacle
<1>2. /\ count_messages' = 5 /\ sec_worked' = FALSE
      /\ obs_last_seen_count' \in {ObsCount, obs_last_seen_count}
      /\ pc' \in {"sendObstacle", "print", "status"}
      /\ UNCHANGED <<ball, obs, last_seen, last_seen_count, last_sent, run>>
  BY <1>1 DEF CountObstacle, Read, Upto
<1>3. ObsCount \in 0..(ObsSightings + 1)
  BY <1>1 DEF ObsCount, Upto
<1>4. VisionValues'
  BY <1>1, <1>2, <1>3 DEF VisionValues, ProgramInv, Values
<1>5. QED
  BY <1>2, <1>4 DEF ProgramInv, Values, WifiValues, wifiVars, ColourRead,
                    CountIsOfRun, SentWasSeen

LEMMA ReadWordInv ==
  ASSUME ProgramInv, ReadWord, UNCHANGED <<wifiVars, waiting>>
  PROVE  ProgramInv'
<1> PICK word \in {Head(fifo)} :
       \/ SkipWord(word) \/ ReadBall(word) \/ CountBall(word)
       \/ ReadObstacle(word) \/ CountObstacle(word)
  BY DEF ReadWord
<1>1. Read(word) /\ pc = "status" /\ msg_buf_size # 0
  BY DEF ReadWord, SkipWord, ReadBall, CountBall, ReadObstacle, CountObstacle
<1>2. ImageProcTypeOK /\ count_messages \in 0..5
  BY DEF ProgramInv, Values, VisionValues
<1>3. /\ ImageProcTypeOK' /\ word \in Words
      /\ count_messages' = (IF count_messages < 5 THEN count_messages + 1 ELSE 5)
  BY <1>1, <1>2, ReadTakesOne
<1>4. CASE SkipWord(word)
  BY <1>1, <1>2, <1>3, <1>4
     DEF SkipWord, ProgramInv, Values, VisionValues, WifiValues, ColourRead,
         CountIsOfRun, SentWasSeen, seenVars, wifiVars
<1>5. CASE ReadBall(word)
  <2>1. /\ count_messages' = 2 /\ sec_worked' = TRUE
        /\ UNCHANGED <<pc, obs, seenVars>>
    BY <1>3, <1>5 DEF ReadBall
  <2>2. word.view.valid \in BOOLEAN
    BY <1>3, ImageProcAssumption DEF Words
  <2>3. PICK color \in Chars : ball' = [color |-> color, valid |-> word.view.valid]
    BY <1>5 DEF ReadBall
  <2>4. ball' \in [color : Chars \cup {NoBall}, valid : BOOLEAN] /\ ball'.color # NoBall
    BY <2>2, <2>3, VisionAssumption
  <2>5. QED
    BY <1>1, <1>3, <2>1, <2>4
       DEF ProgramInv, Values, VisionValues, WifiValues, ColourRead,
           CountIsOfRun, SentWasSeen, seenVars, wifiVars
<1>6. CASE CountBall(word)
  BY <1>3, <1>6, CountBallInv
<1>7. CASE ReadObstacle(word)
  <2>1. /\ count_messages' = 4 /\ sec_worked' = TRUE
        /\ UNCHANGED <<pc, ball, seenVars>>
    BY <1>3, <1>7 DEF ReadObstacle
  <2>2. QED
    BY <1>1, <1>3, <2>1
       DEF ProgramInv, Values, VisionValues, WifiValues, ColourRead,
           CountIsOfRun, SentWasSeen, seenVars, wifiVars
<1>8. CASE CountObstacle(word)
  BY <1>1, <1>3, <1>8, CountObstacleInv
<1>9. QED
  BY <1>4, <1>5, <1>6, <1>7, <1>8

LEMMA SendInv ==
  ASSUME ProgramInv, Send
  PROVE  ProgramInv'
<1>1. CASE SendBall
  <2>1. ball.color \in Chars
    BY <1>1 DEF SendBall, ProgramInv, Values, VisionValues, ColourRead, SentWasSeen
  <2>2. QED
    BY <1>1, <2>1
       DEF Send, SendBall, ProgramInv, Values, ImageProcTypeOK, VisionValues,
           WifiValues, ColourRead, CountIsOfRun, SentWasSeen, imageVars,
           drainVars, wifiVars
<1>2. CASE SendObstacle
  <2>1. Obstacle \in Chars /\ 0 \in 0..(ObsSightings + 1)
    BY VisionAssumption DEF Chars
  <2>2. QED
    BY <1>2, <2>1
       DEF Send, SendObstacle, ProgramInv, Values, ImageProcTypeOK, VisionValues,
           WifiValues, ColourRead, CountIsOfRun, SentWasSeen, imageVars,
           drainVars, wifiVars
<1>3. QED
  BY <1>1, <1>2 DEF Send

LEMMA ProgramStepInv ==
  ASSUME ProgramInv, Program
  PROVE  ProgramInv'
<1>1. CASE StartDrain \/ PrintPosition
  BY <1>1
     DEF Program, StartDrain, PrintPosition, ProgramInv, Values, ImageProcTypeOK,
         VisionValues, WifiValues, ColourRead, CountIsOfRun, SentWasSeen,
         imageVars, drainVars, seenVars, wifiVars
<1>2. CASE EndDrain
  <2>1. NoBallRead \in [color : Chars \cup {NoBall}, valid : BOOLEAN]
        /\ NoBallRead.valid = FALSE
    BY DEF NoBallRead
  <2>2. QED
    BY <1>2, <2>1
       DEF Program, EndDrain, ProgramInv, Values, ImageProcTypeOK,
           VisionValues, WifiValues, ColourRead, CountIsOfRun, SentWasSeen,
           imageVars, seenVars, wifiVars
<1>3. CASE ReadWord
  BY <1>3, ReadWordInv DEF Program
<1>4. QED
  BY <1>1, <1>2, <1>3 DEF Program

LEMMA WifiInv ==
  ASSUME ProgramInv, Connection \/ Start \/ StopHandled
  PROVE  ProgramInv'
<1>1. UNCHANGED <<imageVars, visionVars>>
  BY DEF Connection, Start, StopHandled
<1>2. WifiValues'
  <2>1. WifiValues /\ WIFI_MAXIMUM_RETRY \in Nat
    BY WifiAssumption DEF ProgramInv, Values
  <2>2. CASE Connecting \/ UNCHANGED wifiVars
    BY <2>1, <2>2 DEF Connecting, WifiValues, wifiVars
  <2>3. CASE Disconnected
    <3>1. CASE wifiRetries < WIFI_MAXIMUM_RETRY
      <4>1. station' = "asked" /\ wifiRetries' = wifiRetries + 1 /\ bits' = bits
        BY Zenon, <2>3, <3>1 DEF Disconnected
      <4>2. QED
        BY <2>1, <3>1, <4>1 DEF WifiValues
    <3>2. CASE ~ (wifiRetries < WIFI_MAXIMUM_RETRY)
      BY <2>1, <2>3, <3>2 DEF Disconnected, WifiValues
    <3>3. QED
      BY <3>1, <3>2
  <2>4. CASE GotIP
    BY <2>1, <2>4 DEF GotIP, WifiValues
  <2>5. CASE BootEnds
    BY <2>1, <2>5 DEF BootEnds, WifiValues
  <2>6. QED
    BY <2>2, <2>3, <2>4, <2>5 DEF Connection, Start, StopHandled
<1>3. waiting' => booted'
  BY Zenon
     DEF Connection, Start, StopHandled, Connecting, Disconnected, GotIP,
         BootEnds, ProgramInv, Values, wifiVars
<1>4. QED
  BY <1>1, <1>2, <1>3
     DEF ProgramInv, Values, ImageProcTypeOK, VisionValues, ColourRead,
         CountIsOfRun, SentWasSeen, imageVars, visionVars

LEMMA FrameInv ==
  ASSUME ProgramInv, Frame
  PROVE  ProgramInv'
<1>1. UNCHANGED <<visionVars, wifiVars, waiting>>
  BY DEF Frame
<1>2. ImageProcTypeOK'
  BY FrameWrites DEF Frame, ProgramInv, Values
<1>3. QED
  BY <1>1, <1>2
     DEF ProgramInv, Values, VisionValues, WifiValues, ColourRead,
         CountIsOfRun, SentWasSeen, visionVars, wifiVars

LEMMA InitProgramInv == Init => ProgramInv
<1> SUFFICES ASSUME Init PROVE ProgramInv
  OBVIOUS
<1>1. ImageProcTypeOK
  BY ImageProcAssumption, EmptySeq, EmptyLen
     DEF Init, ImageProcInit, ImageProcTypeOK
<1>2. VisionValues
  BY VisionAssumption DEF Init, VisionInit, VisionValues, NoBallRead
<1>3. WifiValues /\ (waiting => booted)
  BY WifiAssumption DEF Init, WifiInit, WifiValues
<1>4. ColourRead /\ CountIsOfRun /\ SentWasSeen
  BY DEF Init, VisionInit, NoBallRead, ColourRead, CountIsOfRun, SentWasSeen
<1>5. QED
  BY <1>1, <1>2, <1>3, <1>4 DEF ProgramInv, Values

LEMMA ProgramInvHolds == Spec => []ProgramInv
<1>1. ProgramInv /\ [Next]_vars => ProgramInv'
  <2> SUFFICES ASSUME ProgramInv, [Next]_vars PROVE ProgramInv'
    OBVIOUS
  <2>1. CASE Next
    BY <2>1, FrameInv, SendInv, ProgramStepInv, WifiInv DEF Next
  <2>2. CASE UNCHANGED vars
    BY <2>2
       DEF vars, ProgramInv, Values, ImageProcTypeOK, VisionValues, WifiValues,
           ColourRead, CountIsOfRun, SentWasSeen, imageVars, visionVars, wifiVars
  <2>3. QED
    BY <2>1, <2>2
<1>2. QED
  BY InitProgramInv, <1>1, PTL DEF Spec

LEMMA BooleansStep ==
  ASSUME ProgramInv, Booleans, [Next]_vars
  PROVE  Booleans'
<1>1. CASE ReadWord /\ UNCHANGED <<wifiVars, waiting>>
  <2>1. PICK word \in {Head(fifo)} :
           \/ SkipWord(word) \/ ReadBall(word) \/ CountBall(word)
           \/ ReadObstacle(word) \/ CountObstacle(word)
    BY <1>1 DEF ReadWord
  <2>2. Read(word) /\ msg_buf_size # 0
    BY <1>1, <2>1
       DEF ReadWord, SkipWord, ReadBall, CountBall, ReadObstacle, CountObstacle
  <2>3. word \in Words
    BY <2>2, ReadTakesOne DEF ProgramInv, Values, VisionValues
  <2>4. word.view.obs \in BOOLEAN
    BY <2>3, ImageProcAssumption DEF Words
  <2>5. sec_worked' \in {sec_worked, TRUE, FALSE} /\ obs' \in {obs, word.view.obs}
    BY Zenon, <2>1 DEF SkipWord, ReadBall, CountBall, ReadObstacle, CountObstacle
  <2>6. QED
    BY Zenon, <1>1, <2>4, <2>5 DEF Booleans, wifiVars
<1>2. CASE /\ StartDrain \/ EndDrain \/ PrintPosition
           /\ UNCHANGED <<wifiVars, waiting>>
  BY Zenon, <1>2 DEF Booleans, StartDrain, EndDrain, PrintPosition, drainVars, wifiVars
<1>3. CASE Frame \/ UNCHANGED vars
  BY Zenon, <1>3 DEF Booleans, Frame, vars, visionVars, wifiVars
<1>4. CASE Send
  BY Zenon, <1>4 DEF Booleans, Send, SendBall, SendObstacle, drainVars, wifiVars
<1>5. CASE Connection \/ Start \/ StopHandled
  BY Zenon, <1>5
     DEF Booleans, Connection, Start, StopHandled, Connecting, Disconnected,
         GotIP, BootEnds, visionVars, wifiVars
<1>6. QED
  BY <1>1, <1>2, <1>3, <1>4, <1>5 DEF Next, Program

(***************************************************************************)
(* Every variable keeps its type: the FIFO never holds more words than     *)
(* there is memory for, and the control board waits for no stop before its *)
(* tasks run.                                                              *)
(***************************************************************************)
THEOREM SightTypeCorrect == Spec => []TypeOK
<1>1. Init => Booleans
  BY Zenon DEF Init, VisionInit, WifiInit, Booleans
<1>2. ProgramInv /\ Booleans /\ [Next]_vars => Booleans'
  BY BooleansStep
<1>3. ProgramInv /\ Booleans => TypeOK
  BY TypeOKInParts DEF ProgramInv
<1>4. QED
  BY ProgramInvHolds, <1>1, <1>2, <1>3, PTL DEF Spec

(***************************************************************************)
(* Whatever the camera shows and however long printing takes, a ball that  *)
(* is sent was the colour of the messages processed last, of more than     *)
(* BallSightings of them, and valid in the last (main.c:282-297).          *)
(***************************************************************************)
THEOREM SentWasSeenHolds == Spec => []SentWasSeen
<1>1. ProgramInv => SentWasSeen
  BY DEF ProgramInv
<1>2. QED
  BY ProgramInvHolds, <1>1, PTL

-----------------------------------------------------------------------------
(***************************************************************************)
(* The words in the FIFO follow one another as in a message, the last one  *)
(* ends a message, and the first one is the one that the program expects.  *)
(* Once a message has been cut none of this need be true: then the FIFO is *)
(* full, and the program reads no more.                                    *)
(***************************************************************************)
Follows(p) == IF p = 4 THEN 0 ELSE p + 1

Whole(s) ==
  /\ \A k \in 1..(Len(s) - 1) : s[k + 1].part = Follows(s[k].part)
  /\ Len(s) # 0 => s[Len(s)].part = 4

Expected(s, n) == n < 5 => IF Len(s) = 0 THEN n = 0 ELSE s[1].part = n

Aligned == ~ Deaf => Whole(fifo) /\ Expected(fifo, count_messages)

LEMMA WholeAppended ==
  ASSUME NEW s \in Seq(Words), NEW n \in 0..5, NEW view \in Views,
         Whole(s), Expected(s, n)
  PROVE  Whole(s \o Message(view)) /\ Expected(s \o Message(view), n)
<1> DEFINE m == Message(view)
           t == s \o m
           len == Len(s)
<1>1. /\ m \in Seq(Words) /\ Len(m) = 5 /\ \A k \in 1..5 : m[k].part = k - 1
  BY MessageWords
<1>2. /\ t \in Seq(Words) /\ Len(t) = len + 5 /\ len \in Nat
      /\ \A k \in 1..len : t[k] = s[k]
      /\ \A k \in len + 1 .. len + 5 : t[k] = m[k - len]
  <2> HIDE DEF m
  <2>1. /\ t \in Seq(Words) /\ Len(t) = len + Len(m)
        /\ \A k \in 1..(len + Len(m)) : t[k] = IF k <= len THEN s[k] ELSE m[k - len]
    <3>1. m \in Seq(Words)
      BY <1>1
    <3>2. QED
      BY <3>1, ConcatProperties
  <2>2. len \in Nat /\ Len(m) = 5 /\ Len(t) = len + 5
    BY <1>1, <2>1, LenProperties
  <2>3. QED
    <3> HIDE DEF t, len
    <3> QED
      BY <2>1, <2>2
<1>3. \A k \in len + 1 .. len + 5 : t[k].part = k - len - 1
  <2> HIDE DEF m, t, len
  <2> QED
    BY <1>1, <1>2
<1>4. /\ \A k \in 1..(len - 1) : s[k + 1].part = Follows(s[k].part)
      /\ len # 0 => s[len].part = 4
      /\ n < 5 => IF len = 0 THEN n = 0 ELSE s[1].part = n
  BY DEF Whole, Expected
<1>5. ASSUME NEW k \in 1..(len + 4)
      PROVE  t[k + 1].part = Follows(t[k].part)
  <2> HIDE DEF m, t, len
  <2>1. CASE k < len
    BY <1>2, <1>4, <2>1
  <2>2. CASE k = len
    BY <1>2, <1>3, <1>4, <2>2 DEF Follows
  <2>3. CASE k > len
    BY <1>2, <1>3, <2>3 DEF Follows
  <2>4. QED
    BY <1>2, <2>1, <2>2, <2>3
<1>6. t[len + 5].part = 4
  <2> HIDE DEF m, t, len
  <2> QED
    BY <1>2, <1>3
<1>7. n < 5 => t[1].part = n
  <2> HIDE DEF m, t, len
  <2> QED
    BY <1>2, <1>3, <1>4
<1>8. Whole(t)
  BY <1>2, <1>5, <1>6 DEF Whole
<1>9. Expected(t, n)
  BY <1>2, <1>7 DEF Expected
<1>10. QED
  BY <1>8, <1>9

LEMMA WholeRead ==
  ASSUME NEW s \in Seq(Words), s # <<>>, NEW n \in 0..5, Whole(s), Expected(s, n)
  PROVE  Whole(Tail(s)) /\ Expected(Tail(s), IF n < 5 THEN n + 1 ELSE 5)
<1> DEFINE t == Tail(s)
           len == Len(s)
<1>1. /\ t \in Seq(Words) /\ Len(t) = len - 1 /\ len \in Nat /\ len # 0
      /\ \A k \in 1..(len - 1) : t[k] = s[k + 1]
  BY HeadTailProperties, LenProperties, EmptySeq
<1>2. /\ \A k \in 1..(len - 1) : s[k + 1].part = Follows(s[k].part)
      /\ s[len].part = 4
      /\ n < 5 => s[1].part = n
  BY <1>1 DEF Whole, Expected
<1>3. \A k \in 1..(len - 2) : t[k + 1].part = Follows(t[k].part)
  <2> HIDE DEF t, len
  <2> QED
    BY <1>1, <1>2
<1>4. len - 1 # 0 => t[len - 1].part = 4
  <2> HIDE DEF t, len
  <2> QED
    BY <1>1, <1>2
<1>5. n < 4 => len - 1 # 0 /\ t[1].part = n + 1
  <2> HIDE DEF t, len
  <2> QED
    BY <1>1, <1>2 DEF Follows
<1>6. Whole(t)
  BY <1>1, <1>3, <1>4 DEF Whole
<1>7. Expected(t, IF n < 5 THEN n + 1 ELSE 5)
  BY <1>1, <1>5 DEF Expected
<1>8. QED
  BY <1>6, <1>7

LEMMA AlignedStep ==
  ASSUME ProgramInv, Aligned, [Next]_vars
  PROVE  Aligned'
<1>1. ImageProcTypeOK /\ fifo \in Seq(Words) /\ count_messages \in 0..5
  BY DEF ProgramInv, Values, ImageProcTypeOK, VisionValues
<1>2. CASE Frame
  <2>1. PICK view \in Views : EndOfFrame(view)
    BY <1>2 DEF Frame
  <2>2. /\ Deaf => Deaf'
        /\ ~ Deaf' => fifo' = fifo \/ fifo' = fifo \o Message(view)
        /\ count_messages' = count_messages
    BY <1>1, <1>2, <2>1, FrameWrites DEF Frame, visionVars
  <2>3. ~ Deaf => Whole(fifo) /\ Expected(fifo, count_messages)
    BY DEF Aligned
  <2>4. ~ Deaf => /\ Whole(fifo \o Message(view))
                  /\ Expected(fifo \o Message(view), count_messages)
    BY <1>1, <2>3, WholeAppended
  <2>5. QED
    BY <2>2, <2>3, <2>4 DEF Aligned
<1>3. CASE ReadWord
  <2>1. PICK word \in {Head(fifo)} :
           \/ SkipWord(word) \/ ReadBall(word) \/ CountBall(word)
           \/ ReadObstacle(word) \/ CountObstacle(word)
    BY <1>3 DEF ReadWord
  <2>2. Read(word) /\ msg_buf_size # 0
    BY <1>3, <2>1
       DEF ReadWord, SkipWord, ReadBall, CountBall, ReadObstacle, CountObstacle
  <2>3. /\ ~ Deaf /\ fifo # <<>> /\ fifo' = Tail(fifo)
        /\ count_messages' = (IF count_messages < 5 THEN count_messages + 1 ELSE 5)
    BY <1>1, <2>2, ReadTakesOne
  <2>4. /\ Whole(Tail(fifo))
        /\ Expected(Tail(fifo), IF count_messages < 5 THEN count_messages + 1 ELSE 5)
    BY <1>1, <2>3, WholeRead DEF Aligned
  <2>5. QED
    BY <2>3, <2>4 DEF Aligned
<1>4. CASE EndDrain
  <2>1. fifo' = fifo /\ count_messages' = 0 /\ (Deaf \/ Len(fifo) = 0)
    BY <1>1, <1>4, BufSize DEF EndDrain, imageVars
  <2>2. QED
    BY <2>1 DEF Aligned, Deaf, Whole, Expected
<1>5. ASSUME UNCHANGED <<fifo, count_messages>> PROVE Aligned'
  BY <1>5 DEF Aligned, Deaf
<1>6. QED
  <2>1. ASSUME \/ StartDrain \/ PrintPosition \/ Send \/ Connection \/ Start
               \/ StopHandled \/ UNCHANGED vars
        PROVE  UNCHANGED <<fifo, count_messages>>
    BY <2>1 DEF StartDrain, PrintPosition, Send, SendBall, SendObstacle, Connection,
                Start, StopHandled, vars, imageVars, visionVars, drainVars
  <2>2. QED
    BY <1>2, <1>3, <1>4, <1>5, <2>1 DEF Next, Program

(***************************************************************************)
(* The program counts words and looks at none, and may be held within a    *)
(* message for as long as printing takes; the word it takes for the ball   *)
(* or the obstacle is nevertheless the word that bears it, for a FIFO of   *)
(* any size (main.c:265-347, EEE_IMGPROC.v:307-310).                       *)
(***************************************************************************)
THEOREM InStepHolds == Spec => []InStep
<1>1. Init => Aligned
  BY EmptyLen DEF Init, ImageProcInit, VisionInit, Aligned, Whole, Expected
<1>2. ProgramInv /\ Aligned /\ [Next]_vars => Aligned'
  BY AlignedStep
<1>3. ProgramInv /\ Aligned => InStep
  <2> SUFFICES ASSUME ProgramInv, Aligned, msg_buf_size # 0, count_messages < 5
               PROVE  Head(fifo).part = count_messages
    BY DEF InStep
  <2>1. /\ ImageProcTypeOK /\ fifo \in Seq(Words)
    BY DEF ProgramInv, Values, ImageProcTypeOK
  <2>2. ~ Deaf /\ Len(fifo) # 0
    BY <2>1, BufSize
  <2>3. Head(fifo) = fifo[1]
    BY <2>1, <2>2, HeadTailProperties, EmptyLen
  <2>4. QED
    BY <2>2, <2>3 DEF Aligned, Expected
<1>4. QED
  BY ProgramInvHolds, <1>1, <1>2, <1>3, PTL DEF Spec

=============================================================================
