--------------------------- MODULE RoverCountProofs ---------------------------
(***************************************************************************)
(* What is counted in Rover, with any number of stops: the permissions to  *)
(* send, and the distances that the server is told.                        *)
(***************************************************************************)
EXTENDS RoverProofs, FiniteSetTheorems

-----------------------------------------------------------------------------
(***************************************************************************)
(* How often a sequence has an element of a set.                           *)
(***************************************************************************)
Places(s, S) == {i \in DOMAIN s : s[i] \in S}

Occurrences(s, S) == Cardinality(Places(s, S))

LEMMA PlacesFinite ==
  ASSUME NEW T, NEW s \in Seq(T), NEW S
  PROVE  /\ IsFiniteSet(Places(s, S)) /\ Places(s, S) \subseteq 1..Len(s)
         /\ Occurrences(s, S) \in Nat
<1>1. DOMAIN s = 1..Len(s) /\ Len(s) \in Nat
  BY LenProperties
<1>2. IsFiniteSet(1..Len(s))
  BY <1>1, FS_Interval
<1>3. Places(s, S) \in SUBSET (1..Len(s))
  BY <1>1 DEF Places
<1>4. IsFiniteSet(Places(s, S))
  BY <1>2, <1>3, FS_Subset
<1>5. QED
  BY <1>3, <1>4, FS_CardinalityType DEF Occurrences

LEMMA NoOccurrence ==
  ASSUME NEW S
  PROVE  Occurrences(<<>>, S) = 0
<1>1. Places(<<>>, S) = {}
  BY NoElement DEF Places
<1>2. QED
  BY <1>1, FS_EmptySet DEF Occurrences

LEMMA SomeOccurrence ==
  ASSUME NEW T, NEW s \in Seq(T), NEW S, NEW i \in DOMAIN s, s[i] \in S
  PROVE  Occurrences(s, S) >= 1
<1>1. Places(s, S) # {}
  BY DEF Places
<1>2. Occurrences(s, S) # 0
  BY <1>1, PlacesFinite, FS_EmptySet DEF Occurrences
<1>3. QED
  BY <1>2, PlacesFinite

LEMMA OneMore ==
  ASSUME NEW T, NEW s \in Seq(T), NEW S, NEW m \in T
  PROVE  Occurrences(Append(s, m), S) = Occurrences(s, S) + One(m \in S)
<1> DEFINE n == Len(s) + 1
<1>1. /\ DOMAIN s = 1..Len(s) /\ DOMAIN Append(s, m) = 1..n /\ Len(s) \in Nat
      /\ \A i \in 1..Len(s) : Append(s, m)[i] = s[i]
      /\ Append(s, m)[n] = m
  BY Longer
<1>2. n \notin Places(s, S)
  BY <1>1 DEF Places
<1>3. CASE m \in S
  <2>1. Places(Append(s, m), S) = Places(s, S) \cup {n}
    BY <1>1, <1>3 DEF Places
  <2>2. Cardinality(Places(s, S) \cup {n}) = Cardinality(Places(s, S)) + 1
    BY <1>2, PlacesFinite, FS_AddElement
  <2>3. QED
    BY <1>3, <2>1, <2>2 DEF Occurrences, One
<1>4. CASE m \notin S
  <2>1. Places(Append(s, m), S) = Places(s, S)
    BY <1>1, <1>4 DEF Places
  <2>2. QED
    BY <1>4, <2>1, PlacesFinite DEF Occurrences, One
<1>5. QED
  BY <1>3, <1>4

LEMMA OneLess ==
  ASSUME NEW T, NEW s \in Seq(T), s # <<>>, NEW S
  PROVE  Occurrences(Tail(s), S) + One(Head(s) \in S) <= Occurrences(s, S)
<1>1. /\ DOMAIN s = 1..Len(s) /\ DOMAIN Tail(s) = 1..(Len(s) - 1) /\ Len(s) \in Nat
      /\ \A i \in 1..(Len(s) - 1) : Tail(s)[i] = s[i + 1]
      /\ Tail(s) \in Seq(T) /\ Head(s) = s[1] /\ 1 \in DOMAIN s
  BY Shorter
<1> DEFINE Rest == Places(s, S) \ {1}
           f == [i \in Places(Tail(s), S) |-> i + 1]
<1>2. /\ IsFiniteSet(Rest)
      /\ Cardinality(Rest) = IF 1 \in Places(s, S) THEN Occurrences(s, S) - 1
                             ELSE Occurrences(s, S)
  BY PlacesFinite, FS_RemoveElement DEF Occurrences
<1>3. f \in Injection(Places(Tail(s), S), Rest)
  <2>1. \A i \in Places(Tail(s), S) : i \in Int /\ i + 1 \in Rest
    BY <1>1 DEF Places
  <2>2. QED
    BY <2>1 DEF Injection, IsInjective
<1>4. Occurrences(Tail(s), S) <= Cardinality(Rest)
  BY <1>2, <1>3, FS_Injection DEF Occurrences
<1>5. 1 \in Places(s, S) <=> Head(s) \in S
  BY <1>1 DEF Places
<1>6. Occurrences(Tail(s), S) \in Nat /\ Occurrences(s, S) \in Nat
  BY <1>1, PlacesFinite
<1>7. QED
  BY <1>2, <1>4, <1>5, <1>6 DEF One

-----------------------------------------------------------------------------
(***************************************************************************)
(* Permissions.  A stop that vision has reported and that may still be     *)
(* sent to the drive counts as the permission it is going to add; and an   *)
(* "S" that is the last to have arrived is of a drive that still owes an   *)
(* "R".                                                                    *)
(***************************************************************************)
StopToCome == visionPc \in {"peek", "decide", "setForwardStop", "sendStop"}

Idle == driveMode # "loop" => instruction = NoMessage

LastIsAnswered ==
  Len(toControl) # 0 /\ toControl[Len(toControl)] # "R" => driveMode = "stopped"

Budget == Permissions + One(StopToCome) <= 1 + stops

CountInv == SenderIsReady /\ Idle /\ LastIsAnswered /\ Budget

\* The tasks and the drive keep a permission when they have one.
Kept == Up /\ Up' /\ Permissions >= 1 => Permissions' >= 1

LEMMA ReadyCount ==
  ReadyTokens = Occurrences(toControl, {"R"})
BY DEF ReadyTokens, Occurrences, Places

LEMMA PermissionNumbers ==
  ASSUME TypeInv
  PROVE  /\ ReadyTokens \in Nat /\ Len(toDrive) \in Nat /\ stops \in Nat
         /\ One(ready) \in {0, 1} /\ One(Busy) \in {0, 1} /\ One(StopToCome) \in {0, 1}
         /\ ready => One(ready) = 1
         /\ ~ ready => One(ready) = 0
         /\ Busy => One(Busy) = 1
         /\ ~ Busy => One(Busy) = 0
         /\ StopToCome => One(StopToCome) = 1
         /\ ~ StopToCome => One(StopToCome) = 0
<1>1. toControl \in Seq({"R", "S"}) /\ stops \in Nat
  BY ControllerAssumption DEF TypeInv, TypeOK, LinksTypeOK, ControllerTypeOK
<1>2. ReadyTokens \in Nat
  BY <1>1, ReadyCount, PlacesFinite
<1>3. QED
  BY <1>1, <1>2, Lengths, OneValues

LEMMA PermissionTypes ==
  ASSUME TypeInv, CountInv
  PROVE  /\ ReadyTokens \in Nat /\ Len(toDrive) \in Nat /\ stops \in Nat
         /\ One(ready) \in {0, 1} /\ One(Busy) \in {0, 1} /\ One(StopToCome) \in {0, 1}
         /\ One(ready) + ReadyTokens + Len(toDrive) + One(Busy) + One(StopToCome) <= 1 + stops
BY PermissionNumbers DEF CountInv, Budget, Permissions

LEMMA SendCount ==
  ASSUME TypeInv, NEW token \in {"R", "S"}, Send(token)
  PROVE  /\ ReadyTokens' = ReadyTokens + One(token = "R")
         /\ Len(toControl') # 0 /\ toControl'[Len(toControl')] = token
<1>1. toControl \in Seq({"R", "S"}) /\ toControl' = Append(toControl, token)
  BY DEF Send, TypeInv, TypeOK, LinksTypeOK
<1>2. Occurrences(Append(toControl, token), {"R"})
        = Occurrences(toControl, {"R"}) + One(token \in {"R"})
  BY <1>1, OneMore
<1>3. One(token \in {"R"}) = One(token = "R")
  BY DEF One
<1>4. ReadyTokens' = Occurrences(toControl', {"R"})
  BY DEF ReadyTokens, Occurrences, Places
<1>5. ReadyTokens' = ReadyTokens + One(token = "R")
  BY <1>1, <1>2, <1>3, <1>4, ReadyCount
<1>6. /\ Len(Append(toControl, token)) = Len(toControl) + 1 /\ Len(toControl) \in Nat
      /\ Append(toControl, token)[Len(toControl) + 1] = token
  BY <1>1, Longer
<1>7. Len(toControl') # 0 /\ toControl'[Len(toControl')] = token
  BY <1>1, <1>6
<1>8. QED
  BY <1>5, <1>7

LEMMA ReceiveCount ==
  ASSUME TypeInv, ReceiveInstruction
  PROVE  /\ toDrive # <<>> => Len(toDrive') = Len(toDrive) - 1
         /\ toDrive = <<>> => toDrive' = toDrive
<1>1. toDrive \in Seq(DriveMessage)
  BY DEF TypeInv, TypeOK, LinksTypeOK
<1>2. QED
  BY <1>1, Shorter DEF ReceiveInstruction

\* What is executed comes from the UART, or the drive had it.
LEMMA FromUart ==
  ASSUME TypeInv
  PROVE  /\ CurrentInstruction.kind = "stop" => toDrive # <<>>
         /\ Moving(CurrentInstruction) => CurrentInstruction # NoMessage
         /\ Moving(CurrentInstruction) /\ toDrive = <<>> => Busy
<1>1. instruction \in Message(MoveKinds) \cup {NoMessage}
  BY DEF TypeInv, TypeOK, DriveTypeOK
<1>2. instruction.kind # "stop" /\ ~ Moving(NoMessage)
  BY <1>1 DEF Message, MoveKinds, NoMessage, Local, Moving
<1>3. QED
  BY <1>2 DEF CurrentInstruction, Busy

LEMMA SameCount ==
  ASSUME CountInv, UNCHANGED <<toDrive, toControl, driveVars, stops>>,
         One(ready') <= One(ready), One(StopToCome') <= One(StopToCome),
         SenderIsReady', TypeInv, TypeInv'
  PROVE  /\ CountInv'
         /\ One(ready') = One(ready) => Kept
<1>1. /\ UNCHANGED <<ReadyTokens, Len(toDrive)>> /\ Busy' = Busy
      /\ Idle' /\ LastIsAnswered'
  BY DEF CountInv, ReadyTokens, Busy, Idle, LastIsAnswered, driveVars
<1>2. One(Busy') = One(Busy)
  BY <1>1
<1>3. /\ ReadyTokens \in Nat /\ Len(toDrive) \in Nat /\ stops \in Nat
      /\ One(ready) \in {0, 1} /\ One(Busy) \in {0, 1} /\ One(StopToCome) \in {0, 1}
      /\ One(ready') \in {0, 1} /\ One(StopToCome') \in {0, 1}
  BY PermissionNumbers, OneValues
<1>4. Budget'
  BY <1>1, <1>2, <1>3 DEF CountInv, Budget, Permissions
<1>5. One(ready') = One(ready) => Kept
  BY <1>1, <1>2, <1>3 DEF Kept, Permissions
<1>6. QED
  BY <1>1, <1>4, <1>5 DEF CountInv

LEMMA InitCountInv == Init => CountInv
<1> SUFFICES ASSUME Init PROVE CountInv
  OBVIOUS
<1>1. toControl = <<>> /\ Len(toControl) = 0 /\ Len(toDrive) = 0
  BY EmptyLen DEF Init, LinksInit
<1>2. ~ ready /\ visionPc = "idle" /\ drivePc = "down" /\ stops = 0
  BY DEF Init, ControllerInit
<1>3. driveMode = "setup" /\ instruction = NoMessage
  BY DEF Init, DriveInit
<1>4. ReadyTokens = 0
  BY <1>1, ReadyCount, NoOccurrence
<1>5. One(ready) = 0 /\ One(StopToCome) = 0 /\ One(Busy) = 1
  BY <1>2, <1>3 DEF One, StopToCome, Busy
<1>6. Budget
  BY <1>1, <1>2, <1>4, <1>5 DEF Budget, Permissions
<1>7. QED
  BY <1>1, <1>2, <1>3, <1>6 DEF CountInv, SenderIsReady, Idle, LastIsAnswered

LEMMA StartupCount ==
  ASSUME TypeInv, TypeInv', CountInv, Startup
  PROVE  CountInv' /\ Kept
<1>1. /\ toControl' = <<>> /\ Len(toControl') = 0 /\ ~ Up /\ drivePc' = "read"
      /\ UNCHANGED <<toDrive, ready, visionPc, stops, driveMode, instruction>>
  BY EmptyLen DEF Startup, Boot, visionTaskVars, driveVars
<1>2. ReadyTokens' = 0
  <2>1. ReadyTokens' = Occurrences(toControl', {"R"})
    BY DEF ReadyTokens, Occurrences, Places
  <2>2. QED
    BY <1>1, <2>1, NoOccurrence
<1>3. UNCHANGED <<One(ready), One(Busy), One(StopToCome), Len(toDrive), stops>>
  BY <1>1 DEF Busy, StopToCome
<1>4. Budget'
  BY <1>2, <1>3, PermissionNumbers DEF CountInv, Budget, Permissions
<1>5. QED
  BY <1>1, <1>4
     DEF CountInv, SenderIsReady, Idle, LastIsAnswered, Kept

LEMMA ReadCount ==
  ASSUME TypeInv, TypeInv', CountInv, ReadUart, UNCHANGED driveVars
  PROVE  CountInv' /\ Kept
<1>1. /\ toControl' = <<>> /\ Len(toControl') = 0
      /\ drivePc' \in {"dequeue", "checkBackward"}
      /\ UNCHANGED <<toDrive, visionPc, stops, driveMode, instruction>>
  BY EmptyLen DEF ReadUart, visionTaskVars, driveVars
<1>2. ReadyTokens' = 0
  <2>1. ReadyTokens' = Occurrences(toControl', {"R"})
    BY DEF ReadyTokens, Occurrences, Places
  <2>2. QED
    BY <1>1, <2>1, NoOccurrence
<1>3. UNCHANGED <<One(Busy), One(StopToCome), Len(toDrive)>> /\ One(ready') \in {0, 1}
  BY <1>1, OneValues DEF Busy, StopToCome
<1>4. CASE toControl = <<>>
  <2>1. ReadyTokens = 0 /\ ready' = ready
    BY <1>4, ReadyCount, NoOccurrence DEF ReadUart
  <2>2. Budget' /\ Kept
    BY <1>1, <1>2, <1>3, <2>1 DEF CountInv, Budget, Kept, Permissions
  <2>3. QED
    BY <1>1, <2>2 DEF CountInv, SenderIsReady, Idle, LastIsAnswered
<1>5. CASE toControl # <<>>
  <2>1. /\ toControl \in Seq({"R", "S"}) /\ Len(toControl) \in Nat \ {0}
        /\ Len(toControl) \in DOMAIN toControl
    BY <1>5, EmptySeq, LenProperties DEF TypeInv, TypeOK, LinksTypeOK
  <2>2. CASE Token = "R"
    <3>1. ready' /\ One(ready') = 1
      BY <1>5, <2>2, OneValues DEF ReadUart
    <3>2. ReadyTokens >= 1
      BY <2>1, <2>2, SomeOccurrence, ReadyCount DEF Token
    <3>3. /\ stops' = stops /\ Len(toDrive') = Len(toDrive) /\ One(ready') = 1
          /\ One(Busy') = One(Busy) /\ One(StopToCome') = One(StopToCome)
      BY <1>1, <1>3, <3>1
    <3>4. Budget' /\ Permissions' >= 1
      BY <1>2, <3>2, <3>3, PermissionTypes DEF Budget, Permissions
    <3>5. QED
      BY <1>1, <3>4 DEF CountInv, Kept, SenderIsReady, Idle, LastIsAnswered
  <2>3. CASE Token # "R"
    <3>1. ready' = ready /\ driveMode = "stopped"
      BY <1>5, <2>1, <2>3 DEF ReadUart, CountInv, LastIsAnswered, Token
    <3>2. One(ready') = One(ready) /\ One(Busy') = 1
      BY <1>1, <3>1 DEF Busy, One
    <3>3. Budget' /\ Permissions' >= 1
      BY <1>1, <1>2, <1>3, <3>2, PermissionNumbers
         DEF CountInv, Budget, Permissions
    <3>4. QED
      BY <1>1, <3>3 DEF CountInv, Kept, SenderIsReady, Idle, LastIsAnswered
  <2>4. QED
    BY <2>2, <2>3
<1>6. QED
  BY <1>4, <1>5

LEMMA SendInstructionCount ==
  ASSUME TypeInv, TypeInv', CountInv, SendInstruction, UNCHANGED driveVars
  PROVE  CountInv' /\ Kept
<1>1. /\ drivePc' = "report" /\ ready /\ ~ ready'
      /\ UNCHANGED <<toControl, visionPc, stops, driveMode, instruction>>
  BY DEF SendInstruction, CountInv, SenderIsReady, visionTaskVars, driveVars
<1>2. Len(toDrive') = Len(toDrive) + 1
  <2>1. item \in DriveMessage
    BY MessageKinds DEF SendInstruction, TypeInv, ItemOK
  <2>2. QED
    BY <2>1, Longer DEF SendInstruction, TypeInv, TypeOK, LinksTypeOK
<1>3. /\ ReadyTokens' = ReadyTokens /\ One(Busy') = One(Busy) /\ stops' = stops
      /\ One(StopToCome') = One(StopToCome) /\ One(ready) = 1 /\ One(ready') = 0
  BY <1>1 DEF ReadyTokens, Busy, StopToCome, One
<1>4. Budget' /\ Permissions' = Permissions
  BY <1>2, <1>3, PermissionTypes DEF Budget, Permissions
<1>5. QED
  BY <1>1, <1>4 DEF CountInv, Kept, SenderIsReady, Idle, LastIsAnswered

LEMMA DriveTaskCount ==
  ASSUME TypeInv, TypeInv', CountInv, DriveTask
  PROVE  CountInv' /\ Kept
<1>1. UNCHANGED driveVars
  BY DEF DriveTask
<1>2. CASE ReadUart
  BY <1>1, <1>2, ReadCount
<1>3. CASE SendInstruction
  BY <1>1, <1>3, SendInstructionCount
<1>4. ASSUME \/ Dequeue \/ CheckBackward \/ EnqueueBackward \/ ReportDistance
             \/ ReportEnd \/ ClearCurrent \/ ReportInstruction \/ SetCurrent
      PROVE  CountInv' /\ Kept
  <2>1. UNCHANGED <<toDrive, toControl, stops, ready, visionPc>> /\ SenderIsReady'
    BY <1>4
       DEF Dequeue, CheckBackward, EnqueueBackward, ReportDistance, ReportEnd,
           ClearCurrent, ReportInstruction, SetCurrent, CountInv,
           SenderIsReady, visionTaskVars, linkVars
  <2>2. One(ready') = One(ready) /\ One(StopToCome') = One(StopToCome)
    BY <2>1 DEF StopToCome
  <2>3. One(ready) \in {0, 1} /\ One(StopToCome) \in {0, 1}
    BY OneValues
  <2>4. QED
    BY <1>1, <2>1, <2>2, <2>3, SameCount
<1>5. QED
  BY <1>2, <1>3, <1>4 DEF DriveTask, DriveTaskNext

LEMMA VisionCount ==
  ASSUME TypeInv, TypeInv', CountInv, VisionData \/ VisionTask
  PROVE  CountInv' /\ Kept
<1>1. UNCHANGED driveVars /\ Busy' = Busy
  BY DEF VisionData, VisionTask, driveVars, Busy
<1>2. One(Busy') = One(Busy)
  BY <1>1
<1>3. CASE VisionData
  <2>1. /\ UNCHANGED <<toControl, toDrive, ready, drivePc>>
        /\ stops' = stops + 1 /\ ~ StopToCome /\ StopToCome'
    BY <1>3 DEF VisionData, VisionStop, driveTaskVars, StopToCome
  <2>2. /\ ReadyTokens' = ReadyTokens /\ Len(toDrive') = Len(toDrive)
        /\ One(ready') = One(ready) /\ stops' = stops + 1
        /\ One(StopToCome) = 0 /\ One(StopToCome') = 1
    BY <2>1 DEF ReadyTokens, One
  <2>3. Budget' /\ Permissions' = Permissions
    BY <1>2, <2>2, PermissionTypes DEF Budget, Permissions
  <2>4. QED
    BY <1>1, <2>1, <2>3
       DEF CountInv, Kept, SenderIsReady, Idle, LastIsAnswered, driveVars
<1>4. CASE SendStop
  <2>1. /\ UNCHANGED <<toControl, ready, drivePc, stops>>
        /\ StopToCome /\ ~ StopToCome'
    BY <1>4 DEF SendStop, StartFlush, driveTaskVars, StopToCome
  <2>2. Len(toDrive') = Len(toDrive) + 1
    BY <1>4, LocalMessages, Longer DEF SendStop, TypeInv, TypeOK, LinksTypeOK
  <2>3. /\ ReadyTokens' = ReadyTokens /\ One(ready') = One(ready) /\ stops' = stops
        /\ One(StopToCome) = 1 /\ One(StopToCome') = 0
    BY <2>1 DEF ReadyTokens, One
  <2>4. Budget' /\ Permissions' = Permissions + 1
    BY <1>2, <2>2, <2>3, PermissionTypes DEF Budget, Permissions
  <2>5. Permissions \in Nat
    BY PermissionNumbers DEF Permissions
  <2>6. QED
    BY <1>1, <2>1, <2>4, <2>5
       DEF CountInv, Kept, SenderIsReady, Idle, LastIsAnswered, driveVars
<1>5. CASE Crash
  <2>1. /\ UNCHANGED <<toDrive, toControl, stops>> /\ drivePc' = "down" /\ ~ ready'
        /\ ~ StopToCome'
    BY <1>5 DEF Crash, linkVars, StopToCome
  <2>2. /\ One(ready') = 0 /\ One(StopToCome') = 0
        /\ One(ready) \in {0, 1} /\ One(StopToCome) \in {0, 1}
    BY <2>1, OneValues
  <2>3. /\ One(ready') <= One(ready) /\ One(StopToCome') <= One(StopToCome)
        /\ SenderIsReady' /\ Kept
    BY <2>1, <2>2 DEF SenderIsReady, Kept, Up
  <2>4. QED
    BY <1>1, <2>1, <2>3, SameCount
<1>6. ASSUME \/ Peek \/ Decide \/ SetForwardStop \/ SetTurnStop
             \/ ReportTurnStop \/ Flush
      PROVE  CountInv' /\ Kept
  <2>1. /\ UNCHANGED <<toDrive, toControl, stops, ready, drivePc>>
        /\ StopToCome' => StopToCome
    BY <1>6 DEF Peek, Decide, SetForwardStop, SetTurnStop, ReportTurnStop,
                StartFlush, Flush, StopToCome, driveTaskVars, linkVars
  <2>2. One(ready') = One(ready) /\ One(ready) \in {0, 1}
    BY <2>1, OneValues
  <2>3. One(StopToCome') <= One(StopToCome)
    BY <2>1 DEF One
  <2>4. SenderIsReady'
    BY <2>1 DEF CountInv, SenderIsReady
  <2>5. QED
    BY <1>1, <2>1, <2>2, <2>3, <2>4, SameCount
<1>7. QED
  BY <1>3, <1>4, <1>5, <1>6 DEF VisionTask, VisionTaskNext

LEMMA DriveBoardCount ==
  ASSUME TypeInv, TypeInv', CountInv, DriveBoard
  PROVE  CountInv' /\ Kept
<1>0. ReadyTokens' \in Nat
  <2>1. ReadyTokens' = Occurrences(toControl', {"R"})
    BY DEF ReadyTokens, Occurrences, Places
  <2>2. toControl' \in Seq({"R", "S"})
    BY DEF TypeInv, TypeOK, LinksTypeOK
  <2>3. QED
    BY <2>1, <2>2, PlacesFinite
<1>1. /\ UNCHANGED <<ready, drivePc, visionPc, stops>>
      /\ SenderIsReady' /\ One(StopToCome') = One(StopToCome) /\ One(ready') = One(ready)
  BY DEF DriveBoard, controllerVars, driveTaskVars, visionTaskVars, CountInv,
         SenderIsReady, StopToCome
<1>2. /\ ReadyTokens \in Nat /\ Len(toDrive) \in Nat /\ stops \in Nat
      /\ Len(toDrive') \in Nat
      /\ One(ready) \in {0, 1} /\ One(StopToCome) \in {0, 1}
      /\ One(Busy) \in {0, 1} /\ One(Busy') \in {0, 1}
  <2>1. Len(toDrive') \in Nat
    BY LenProperties DEF TypeInv, TypeOK, LinksTypeOK
  <2>2. QED
    BY <2>1, PermissionNumbers, OneValues
<1>3. /\ Busy => One(Busy) = 1
      /\ Busy' => One(Busy') = 1
      /\ ~ Busy' => One(Busy') = 0
  BY OneValues
<1>4. ASSUME ReadyTokens' + Len(toDrive') + One(Busy')
               <= ReadyTokens + Len(toDrive) + One(Busy),
             ReadyTokens' + Len(toDrive') + One(Busy') >= 1
      PROVE  Budget' /\ Permissions' >= 1
  <2>1. /\ stops' = stops /\ One(ready') = One(ready)
        /\ One(StopToCome') = One(StopToCome)
    BY <1>1
  <2>2. /\ Permissions' = One(ready) + ReadyTokens' + Len(toDrive') + One(Busy')
        /\ Budget' <=> Permissions' + One(StopToCome) <= 1 + stops
    BY <2>1 DEF Permissions, Budget
  <2>3. QED
    <3>1. /\ One(ready) + ReadyTokens' + Len(toDrive') + One(Busy')
               + One(StopToCome) <= 1 + stops
          /\ One(ready) + ReadyTokens' + Len(toDrive') + One(Busy') >= 1
      <4> DEFINE r == One(ready)         v == One(StopToCome)
                 t == ReadyTokens        tt == ReadyTokens'
                 d == Len(toDrive)       dd == Len(toDrive')
                 b == One(Busy)          bb == One(Busy')
      <4>1. /\ r \in Nat /\ v \in Nat /\ t \in Nat /\ d \in Nat /\ b \in Nat
            /\ tt \in Nat /\ dd \in Nat /\ bb \in Nat /\ stops \in Nat
        BY <1>0, <1>2
      <4>2. r + t + d + b + v <= 1 + stops
        BY PermissionTypes
      <4>3. tt + dd + bb <= t + d + b /\ tt + dd + bb >= 1
        BY <1>4
      <4> HIDE DEF r, v, t, d, b, tt, dd, bb
      <4>4. r + tt + dd + bb + v <= 1 + stops /\ r + tt + dd + bb >= 1
        BY <4>1, <4>2, <4>3
      <4>5. QED
        BY <4>4 DEF r, v, tt, dd, bb
    <3>2. QED
      BY <2>2, <3>1
<1>5. ASSUME Send("R")
      PROVE  ReadyTokens' = ReadyTokens + 1 /\ LastIsAnswered'
  BY <1>5, SendCount DEF LastIsAnswered, One
<1>6. CASE DriveSetup \/ ResumeAfterStop
  <2>1. /\ Busy /\ ~ Busy' /\ Idle' /\ toDrive' = toDrive
        /\ ReadyTokens' = ReadyTokens + 1 /\ LastIsAnswered'
    BY <1>5, <1>6 DEF DriveSetup, ResumeAfterStop, CountInv, Idle, Busy
  <2>2. Budget' /\ Permissions' >= 1
    <3>1. /\ Len(toDrive') = Len(toDrive) /\ ReadyTokens' = ReadyTokens + 1
          /\ One(Busy) = 1 /\ One(Busy') = 0
      BY <1>3, <2>1
    <3>2. QED
      BY <1>0, <1>2, <1>4, <3>1
  <2>3. QED
    BY <1>1, <2>1, <2>2 DEF CountInv, Kept
<1>7. CASE StartInstruction \/ \E done \in BOOLEAN : ContinueInstruction(done)
  <2>1. /\ ReceiveInstruction /\ Moving(CurrentInstruction)
        /\ instruction' = CurrentInstruction
        /\ driveMode' = "loop" /\ driveMode = "loop" /\ toControl' = toControl
    BY <1>7 DEF StartInstruction, ContinueInstruction
  <2>2. /\ Busy' /\ Idle' /\ LastIsAnswered' /\ ReadyTokens' = ReadyTokens
    BY <2>1, FromUart DEF CountInv, Busy, Idle, LastIsAnswered, ReadyTokens
  <2>3. Len(toDrive') + 1 <= Len(toDrive) + One(Busy)
    <3>1. CASE toDrive = <<>>
      BY <3>1, <1>2, <1>3, <2>1, FromUart, ReceiveCount
    <3>2. CASE toDrive # <<>>
      BY <3>2, <1>2, <2>1, ReceiveCount
    <3>3. QED
      BY <3>1, <3>2
  <2>4. Budget' /\ Permissions' >= 1
    <3>1. One(Busy') = 1 /\ ReadyTokens' = ReadyTokens
      BY <1>3, <2>2
    <3>2. QED
      BY <1>0, <1>2, <1>4, <2>3, <3>1
  <2>5. QED
    BY <1>1, <2>2, <2>4 DEF CountInv, Kept
<1>8. CASE CompleteInstruction
  <2>1. /\ ReceiveInstruction /\ Moving(CurrentInstruction) /\ Send("R")
        /\ instruction' = NoMessage /\ driveMode' = "loop"
    BY <1>8 DEF CompleteInstruction
  <2>2. /\ ~ Busy' /\ Idle' /\ LastIsAnswered' /\ ReadyTokens' = ReadyTokens + 1
    BY <1>5, <2>1 DEF Busy, Idle
  <2>3. Len(toDrive') + 1 <= Len(toDrive) + One(Busy)
    <3>1. CASE toDrive = <<>>
      BY <3>1, <1>2, <1>3, <2>1, FromUart, ReceiveCount
    <3>2. CASE toDrive # <<>>
      BY <3>2, <1>2, <2>1, ReceiveCount
    <3>3. QED
      BY <3>1, <3>2
  <2>4. Budget' /\ Permissions' >= 1
    <3>1. One(Busy') = 0 /\ ReadyTokens' = ReadyTokens + 1
      BY <1>3, <2>2
    <3>2. QED
      BY <1>0, <1>2, <1>4, <2>3, <3>1
  <2>5. QED
    BY <1>1, <2>2, <2>4 DEF CountInv, Kept
<1>9. CASE StopAbruptly
  <2>1. /\ ReceiveInstruction /\ CurrentInstruction.kind = "stop" /\ Send("S")
        /\ instruction' = NoMessage /\ driveMode' = "stopped"
    BY <1>9 DEF StopAbruptly
  <2>2. /\ Busy' /\ Idle' /\ LastIsAnswered' /\ ReadyTokens' = ReadyTokens
    BY <1>2, <2>1, SendCount DEF Busy, Idle, LastIsAnswered, One
  <2>3. Len(toDrive') + 1 = Len(toDrive)
    BY <1>2, <2>1, FromUart, ReceiveCount
  <2>4. Budget' /\ Permissions' >= 1
    <3>1. One(Busy') = 1 /\ ReadyTokens' = ReadyTokens
      BY <1>3, <2>2
    <3>2. QED
      BY <1>0, <1>2, <1>4, <2>3, <3>1
  <2>5. QED
    BY <1>1, <2>2, <2>4 DEF CountInv, Kept
<1>10. QED
  BY <1>6, <1>7, <1>8, <1>9 DEF DriveBoard, DriveNext

LEMMA CountInvStep ==
  ASSUME TypeInv, TypeInv', CountInv, Next
  PROVE  CountInv' /\ Kept
<1>1. CASE Server \/ MqttTask
  <2>1. /\ UNCHANGED <<toDrive, toControl, driveVars, stops, ready, drivePc, visionPc>>
    BY <1>1 DEF Server, ServerNext, PublishInstruction, MqttTask, MqttNext,
                EnqueueInstruction, DropInstruction, controllerVars,
                driveTaskVars, visionTaskVars
  <2>2. /\ One(ready') = One(ready) /\ One(StopToCome') = One(StopToCome)
        /\ One(ready) \in {0, 1} /\ One(StopToCome) \in {0, 1} /\ SenderIsReady'
    BY <2>1, OneValues DEF StopToCome, CountInv, SenderIsReady
  <2>3. QED
    BY <2>1, <2>2, SameCount
<1>2. QED
  BY <1>1, StartupCount, DriveTaskCount, VisionCount, DriveBoardCount DEF Next

LEMMA CountInvHolds == Spec => []CountInv
<1>1. TypeInv /\ TypeInv' /\ CountInv /\ [Next]_vars => CountInv'
  <2>1. TypeInv /\ TypeInv' /\ CountInv /\ Next => CountInv'
    BY CountInvStep
  <2>2. CountInv /\ UNCHANGED vars => CountInv'
    BY DEF vars, linkVars, controllerVars, driveTaskVars, visionTaskVars,
           driveVars, CountInv, SenderIsReady, Idle, LastIsAnswered, Budget,
           Permissions, ReadyTokens, StopToCome, Busy
  <2>3. QED
    BY <2>1, <2>2
<1>2. QED
  BY InitCountInv, TypeInvHolds, <1>1, PTL DEF Spec

(***************************************************************************)
(* With any number of stops and crashes, there is never more than one      *)
(* permission to send and one for each stop (drive.ino:98).                *)
(***************************************************************************)
THEOREM PermissionsBoundedHolds == Spec => []PermissionsBounded
<1>1. TypeInv /\ CountInv => PermissionsBounded
  <2> SUFFICES ASSUME TypeInv, CountInv PROVE PermissionsBounded
    OBVIOUS
  <2>1. Permissions \in Nat /\ One(StopToCome) \in {0, 1} /\ stops \in Nat
    BY PermissionNumbers DEF Permissions
  <2>2. QED
    BY <2>1 DEF CountInv, Budget, PermissionsBounded
<1>2. QED
  BY TypeInvHolds, CountInvHolds, <1>1, PTL

(***************************************************************************)
(* Whatever arrives in one read of the UART, and of it control takes only  *)
(* the last character (uart.c:66), a rover that has a permission to go on  *)
(* has one after the step too, unless the board crashes.                   *)
(***************************************************************************)
THEOREM PermissionKeptHolds == Spec => PermissionKept
<1>1. TypeInv /\ TypeInv' /\ CountInv /\ [Next]_vars
        => [Up /\ Up' /\ Permissions >= 1 => Permissions' >= 1]_vars
  BY CountInvStep DEF Kept
<1>2. QED
  BY TypeInvHolds, CountInvHolds, <1>1, PTL DEF Spec, PermissionKept

-----------------------------------------------------------------------------
(***************************************************************************)
(* Distances.  Each stop the server is told of is, until its distance is   *)
(* told, in one place at most: with the vision task, on its way to the     *)
(* drive, on its way back, or with the drive task.                         *)
(***************************************************************************)
Of(kinds) == {m \in FeedbackMessage : m.kind \in kinds}

StopMessages == {m \in DriveMessage : m.kind = "stop"}

DistancesTold == Occurrences(feedback, Of({"SD", "SDturn"}))
StopsTold     == Occurrences(feedback, Of({"S"}))

AtVision  == One(StopToCome \/ visionPc \in {"setTurnStop", "reportTurnStop"})
OnTheWay  == Occurrences(toDrive, StopMessages)
Answered  == Occurrences(toControl, {"S"})
AtDriveTask == One(drivePc \in {"checkBackward", "enqueueBackward", "reportDistance"})

StopsPending == AtVision + OnTheWay + Answered + AtDriveTask

DistanceInv == DistancesTold + StopsPending <= StopsTold

Numbered ==
  /\ DistancesTold \in Nat /\ StopsTold \in Nat
  /\ AtVision \in Nat /\ OnTheWay \in Nat /\ Answered \in Nat /\ AtDriveTask \in Nat

LEMMA AllNumbered == TypeInv => Numbered
<1> SUFFICES ASSUME TypeInv PROVE Numbered
  OBVIOUS
<1>1. /\ feedback \in Seq(FeedbackMessage) /\ toDrive \in Seq(DriveMessage)
      /\ toControl \in Seq({"R", "S"})
  BY DEF TypeInv, TypeOK, LinksTypeOK
<1>2. /\ DistancesTold \in Nat /\ StopsTold \in Nat /\ OnTheWay \in Nat /\ Answered \in Nat
  BY <1>1, PlacesFinite DEF DistancesTold, StopsTold, OnTheWay, Answered
<1>3. AtVision \in Nat /\ AtDriveTask \in Nat
  BY DEF AtVision, AtDriveTask, One
<1>4. QED
  BY <1>2, <1>3 DEF Numbered

\* What publishing a message does to the counts.
LEMMA Told ==
  ASSUME TypeInv, NEW m \in FeedbackMessage, Publish(m)
  PROVE  /\ DistancesTold' = DistancesTold + One(m.kind \in {"SD", "SDturn"})
         /\ StopsTold' = StopsTold + One(m.kind = "S")
<1>1. feedback \in Seq(FeedbackMessage) /\ feedback' = Append(feedback, m)
  BY DEF Publish, TypeInv, TypeOK, LinksTypeOK
<1>2. /\ Occurrences(feedback', Of({"SD", "SDturn"}))
           = Occurrences(feedback, Of({"SD", "SDturn"})) + One(m \in Of({"SD", "SDturn"}))
      /\ Occurrences(feedback', Of({"S"}))
           = Occurrences(feedback, Of({"S"})) + One(m \in Of({"S"}))
  BY <1>1, OneMore
<1>3. /\ One(m \in Of({"SD", "SDturn"})) = One(m.kind \in {"SD", "SDturn"})
      /\ One(m \in Of({"S"})) = One(m.kind = "S")
  BY DEF One, Of
<1>4. /\ DistancesTold' = Occurrences(feedback', Of({"SD", "SDturn"}))
      /\ StopsTold' = Occurrences(feedback', Of({"S"}))
  BY DEF DistancesTold, StopsTold, Of, FeedbackMessage, Message, Numbers
<1>5. QED
  BY <1>2, <1>3, <1>4 DEF DistancesTold, StopsTold

LEMMA Sent ==
  ASSUME TypeInv, NEW m \in DriveMessage, toDrive' = Append(toDrive, m)
  PROVE  OnTheWay' = OnTheWay + One(m.kind = "stop")
<1>1. toDrive \in Seq(DriveMessage)
  BY DEF TypeInv, TypeOK, LinksTypeOK
<1>2. Occurrences(toDrive', StopMessages)
        = Occurrences(toDrive, StopMessages) + One(m \in StopMessages)
  BY <1>1, OneMore
<1>3. One(m \in StopMessages) = One(m.kind = "stop")
  BY DEF One, StopMessages
<1>4. OnTheWay' = Occurrences(toDrive', StopMessages)
  BY DEF OnTheWay, StopMessages, DriveMessage, Message, Numbers
<1>5. QED
  BY <1>2, <1>3, <1>4 DEF OnTheWay

LEMMA Received ==
  ASSUME TypeInv, ReceiveInstruction
  PROVE  /\ OnTheWay' <= OnTheWay
         /\ CurrentInstruction.kind = "stop" => OnTheWay' + 1 <= OnTheWay
<1>1. toDrive \in Seq(DriveMessage)
  BY DEF TypeInv, TypeOK, LinksTypeOK
<1>2. OnTheWay' = Occurrences(toDrive', StopMessages)
  BY DEF OnTheWay, StopMessages, DriveMessage, Message, Numbers
<1>3. OnTheWay \in Nat
  BY AllNumbered DEF Numbered
<1>4. CASE toDrive = <<>>
  BY <1>2, <1>3, <1>4, FromUart DEF ReceiveInstruction, OnTheWay
<1>5. CASE toDrive # <<>>
  <2>1. /\ Occurrences(Tail(toDrive), StopMessages) + One(Head(toDrive) \in StopMessages)
             <= OnTheWay
        /\ Head(toDrive) \in DriveMessage
        /\ Occurrences(Tail(toDrive), StopMessages) \in Nat
    BY <1>1, <1>5, OneLess, Shorter, PlacesFinite DEF OnTheWay
  <2>2. toDrive' = Tail(toDrive) /\ CurrentInstruction = Head(toDrive)
    BY <1>5 DEF ReceiveInstruction, CurrentInstruction
  <2>3. CurrentInstruction.kind = "stop" => One(Head(toDrive) \in StopMessages) = 1
    BY <2>1, <2>2 DEF One, StopMessages
  <2>4. One(Head(toDrive) \in StopMessages) \in {0, 1}
    BY OneValues
  <2>5. QED
    BY <1>2, <1>3, <2>1, <2>2, <2>3, <2>4
<1>6. QED
  BY <1>4, <1>5

LEMMA AnswerSent ==
  ASSUME TypeInv, NEW token \in {"R", "S"}, Send(token)
  PROVE  Answered' = Answered + One(token = "S")
<1>1. toControl \in Seq({"R", "S"}) /\ toControl' = Append(toControl, token)
  BY DEF Send, TypeInv, TypeOK, LinksTypeOK
<1>2. Occurrences(toControl', {"S"})
        = Occurrences(toControl, {"S"}) + One(token \in {"S"})
  BY <1>1, OneMore
<1>3. One(token \in {"S"}) = One(token = "S")
  BY DEF One
<1>4. QED
  BY <1>2, <1>3 DEF Answered

LEMMA DriveTaskDistance ==
  ASSUME TypeInv, Numbered, Numbered', DistanceInv, DriveTask
  PROVE  DistanceInv'
<1>0. /\ DistancesTold \in Nat /\ StopsTold \in Nat
      /\ AtVision \in Nat /\ OnTheWay \in Nat /\ Answered \in Nat /\ AtDriveTask \in Nat
      /\ AtVision' \in Nat /\ OnTheWay' \in Nat /\ Answered' \in Nat /\ AtDriveTask' \in Nat
  BY DEF Numbered
<1>1. AtVision' = AtVision
  BY DEF DriveTask, DriveTaskNext, ReadUart, CheckBackward, EnqueueBackward,
         ReportDistance, Dequeue, ReportEnd, ClearCurrent, SendInstruction,
         ReportInstruction, SetCurrent, visionTaskVars, AtVision, StopToCome
<1>2. DistancesTold + (AtVision + OnTheWay + Answered + AtDriveTask) <= StopsTold
  BY DEF DistanceInv, StopsPending
<1>3. ASSUME \/ Dequeue \/ CheckBackward \/ EnqueueBackward
             \/ ClearCurrent \/ SetCurrent
      PROVE  DistanceInv'
  <2>1. UNCHANGED linkVars /\ AtDriveTask' = AtDriveTask
    BY <1>3 DEF Dequeue, CheckBackward, EnqueueBackward, ClearCurrent,
                SetCurrent, AtDriveTask, One, linkVars
  <2>2. QED
    BY <1>1, <2>1 DEF DistanceInv, StopsPending, DistancesTold, StopsTold,
                      OnTheWay, Answered, linkVars
<1>4. CASE ReadUart
  <2>1. /\ UNCHANGED <<feedback, toDrive>> /\ toControl' = <<>>
        /\ drivePc = "read" /\ drivePc' \in {"dequeue", "checkBackward"}
        /\ drivePc' = "checkBackward" => toControl # <<>> /\ Token # "R"
    BY <1>4 DEF ReadUart
  <2>2. /\ DistancesTold' = DistancesTold /\ StopsTold' = StopsTold
        /\ OnTheWay' = OnTheWay /\ Answered' = 0 /\ AtDriveTask = 0
    BY <2>1, NoOccurrence DEF DistancesTold, StopsTold, OnTheWay, Answered, AtDriveTask, One
  <2>3. AtDriveTask' <= Answered
    <3>1. CASE drivePc' = "checkBackward"
      <4>1. /\ toControl \in Seq({"R", "S"}) /\ Len(toControl) \in DOMAIN toControl
        BY <2>1, <3>1, EmptySeq, LenProperties DEF TypeInv, TypeOK, LinksTypeOK
      <4>2. Token \in {"S"}
        BY <2>1, <3>1, <4>1 DEF Token
      <4>3. Answered >= 1
        BY <4>1, <4>2, SomeOccurrence DEF Answered, Token
      <4>4. AtDriveTask' = 1
        BY <3>1 DEF AtDriveTask, One
      <4>5. QED
        BY <4>3, <4>4
    <3>2. CASE drivePc' # "checkBackward"
      <4>1. AtDriveTask' = 0
        BY <2>1, <3>2 DEF AtDriveTask, One
      <4>2. QED
        BY <4>1 DEF Numbered
    <3>3. QED
      BY <3>1, <3>2
  <2>4. QED
    <3> DEFINE d == DistancesTold  s == StopsTold
               v == AtVision       vv == AtVision'
               w == OnTheWay       ww == OnTheWay'
               a == Answered       aa == Answered'
               u == AtDriveTask    uu == AtDriveTask'
    <3>1. /\ d \in Nat /\ s \in Nat /\ v \in Nat /\ w \in Nat /\ a \in Nat /\ u \in Nat
          /\ vv \in Nat /\ ww \in Nat /\ aa \in Nat /\ uu \in Nat
          /\ d + (v + w + a + u) <= s
          /\ vv = v /\ ww = w /\ aa = 0 /\ u = 0 /\ uu <= a
      BY <1>0, <1>1, <1>2, <2>2, <2>3
    <3>2. DistanceInv' <=> d + (vv + ww + aa + uu) <= s
      BY <1>0, <1>1, <1>2, <2>2, <2>3 DEF DistanceInv, StopsPending
    <3> HIDE DEF d, s, v, vv, w, ww, a, aa, u, uu
    <3>3. d + (vv + ww + aa + uu) <= s
      BY <3>1
    <3>4. QED
      BY <3>2, <3>3
<1>5. CASE ReportDistance
  <2>1. /\ UNCHANGED <<toDrive, toControl>> /\ Publish(Local("SD"))
        /\ drivePc = "reportDistance" /\ drivePc' = "dequeue"
    BY <1>5 DEF ReportDistance
  <2>2. Local("SD").kind = "SD"
    BY DEF Local
  <2>3. DistancesTold' = DistancesTold + 1 /\ StopsTold' = StopsTold
    BY <2>1, <2>2, LocalMessages, Told DEF Numbered, One
  <2>4. /\ OnTheWay' = OnTheWay /\ Answered' = Answered
        /\ AtDriveTask = 1 /\ AtDriveTask' = 0
    BY <2>1 DEF OnTheWay, Answered, AtDriveTask, One
  <2>5. QED
    BY <1>1, <1>2, <2>3, <2>4 DEF Numbered, DistanceInv, StopsPending
<1>6. CASE ReportEnd \/ ReportInstruction
  <2>1. /\ UNCHANGED <<toDrive, toControl>> /\ Publish(item)
        /\ item \in FeedbackMessage /\ item.kind \notin {"S", "SD", "SDturn"}
        /\ AtDriveTask' = AtDriveTask
    BY <1>6, MessageKinds
       DEF ReportEnd, ReportInstruction, TypeInv, ItemOK, Message, MoveKinds,
           AtDriveTask, One
  <2>2. DistancesTold' = DistancesTold /\ StopsTold' = StopsTold
    BY <2>1, Told DEF Numbered, One
  <2>3. OnTheWay' = OnTheWay /\ Answered' = Answered
    BY <2>1 DEF OnTheWay, Answered
  <2>4. QED
    BY <1>1, <2>1, <2>2, <2>3 DEF DistanceInv, StopsPending
<1>7. CASE SendInstruction
  <2>1. /\ UNCHANGED <<feedback, toControl>> /\ toDrive' = Append(toDrive, item)
        /\ item \in DriveMessage /\ item.kind # "stop" /\ AtDriveTask' = AtDriveTask
    BY <1>7, MessageKinds
       DEF SendInstruction, TypeInv, ItemOK, Message, MoveKinds, AtDriveTask, One
  <2>2. OnTheWay' = OnTheWay
    BY <2>1, Sent DEF Numbered, One
  <2>3. DistancesTold' = DistancesTold /\ StopsTold' = StopsTold /\ Answered' = Answered
    BY <2>1 DEF DistancesTold, StopsTold, Answered
  <2>4. QED
    BY <1>1, <2>1, <2>2, <2>3 DEF DistanceInv, StopsPending
<1>8. QED
  BY <1>3, <1>4, <1>5, <1>6, <1>7 DEF DriveTask, DriveTaskNext

LEMMA VisionDistance ==
  ASSUME TypeInv, Numbered, Numbered', DistanceInv, VisionData \/ VisionTask
  PROVE  DistanceInv'
<1>0. /\ DistancesTold \in Nat /\ StopsTold \in Nat
      /\ AtVision \in Nat /\ OnTheWay \in Nat /\ Answered \in Nat /\ AtDriveTask \in Nat
      /\ AtVision' \in Nat /\ OnTheWay' \in Nat /\ Answered' \in Nat /\ AtDriveTask' \in Nat
  BY DEF Numbered
<1>1. DistancesTold + (AtVision + OnTheWay + Answered + AtDriveTask) <= StopsTold
  BY DEF DistanceInv, StopsPending
<1>2. CASE VisionData
  <2>1. /\ UNCHANGED <<toDrive, toControl, drivePc>> /\ Publish(Local("S"))
        /\ visionPc = "idle" /\ visionPc' = "peek"
    BY <1>2 DEF VisionData, VisionStop, driveTaskVars
  <2>2. Local("S").kind = "S"
    BY DEF Local
  <2>3. DistancesTold' = DistancesTold /\ StopsTold' = StopsTold + 1
    BY <2>1, <2>2, LocalMessages, Told DEF Numbered, One
  <2>4. /\ OnTheWay' = OnTheWay /\ Answered' = Answered /\ AtDriveTask' = AtDriveTask
        /\ AtVision = 0 /\ AtVision' = 1
    BY <2>1 DEF OnTheWay, Answered, AtDriveTask, AtVision, StopToCome, One
  <2>5. QED
    BY <1>1, <2>3, <2>4 DEF Numbered, DistanceInv, StopsPending
<1>3. CASE SendStop
  <2>1. /\ UNCHANGED <<feedback, toControl, drivePc>>
        /\ toDrive' = Append(toDrive, Local("stop"))
        /\ visionPc = "sendStop" /\ visionPc' = "flush"
    BY <1>3 DEF SendStop, StartFlush, driveTaskVars
  <2>2. Local("stop").kind = "stop"
    BY DEF Local
  <2>3. OnTheWay' = OnTheWay + 1
    BY <2>1, <2>2, LocalMessages, Sent DEF One
  <2>4. /\ DistancesTold' = DistancesTold /\ StopsTold' = StopsTold
        /\ Answered' = Answered /\ AtDriveTask' = AtDriveTask
        /\ AtVision = 1 /\ AtVision' = 0
    BY <2>1 DEF DistancesTold, StopsTold, Answered, AtDriveTask, AtVision, StopToCome, One
  <2>5. QED
    BY <1>1, <2>3, <2>4 DEF Numbered, DistanceInv, StopsPending
<1>4. CASE ReportTurnStop
  <2>1. /\ UNCHANGED <<toDrive, toControl, drivePc>> /\ Publish(Local("SDturn"))
        /\ visionPc = "reportTurnStop" /\ visionPc' = "flush"
    BY <1>4 DEF ReportTurnStop, StartFlush, driveTaskVars
  <2>2. Local("SDturn").kind = "SDturn"
    BY DEF Local
  <2>3. DistancesTold' = DistancesTold + 1 /\ StopsTold' = StopsTold
    BY <2>1, <2>2, LocalMessages, Told DEF Numbered, One
  <2>4. /\ OnTheWay' = OnTheWay /\ Answered' = Answered /\ AtDriveTask' = AtDriveTask
        /\ AtVision = 1 /\ AtVision' = 0
    BY <2>1 DEF OnTheWay, Answered, AtDriveTask, AtVision, StopToCome, One
  <2>5. QED
    BY <1>1, <2>3, <2>4 DEF Numbered, DistanceInv, StopsPending
<1>5. ASSUME Peek \/ Crash \/ Decide \/ SetForwardStop \/ SetTurnStop \/ Flush
      PROVE  DistanceInv'
  <2>1. /\ UNCHANGED <<feedback, toDrive, toControl>>
        /\ drivePc' = drivePc \/ drivePc' = "down"
        /\ visionPc' \in {"idle", "flush"} \/ AtVision = 1
    BY <1>5 DEF Peek, Crash, Decide, SetForwardStop, SetTurnStop, Flush,
                driveTaskVars, linkVars, AtVision, StopToCome, One
  <2>2. /\ DistancesTold' = DistancesTold /\ StopsTold' = StopsTold
        /\ OnTheWay' = OnTheWay /\ Answered' = Answered
    BY <2>1 DEF DistancesTold, StopsTold, OnTheWay, Answered
  <2>3. AtDriveTask' <= AtDriveTask
    BY <2>1 DEF AtDriveTask, One
  <2>4. AtVision' <= AtVision
    <3>1. AtVision' \in {0, 1} /\ (visionPc' \in {"idle", "flush"} => AtVision' = 0)
      BY DEF AtVision, StopToCome, One
    <3>2. QED
      BY <2>1, <3>1 DEF Numbered
  <2>5. QED
    <3> DEFINE d == DistancesTold  s == StopsTold
               v == AtVision       vv == AtVision'
               w == OnTheWay       ww == OnTheWay'
               a == Answered       aa == Answered'
               u == AtDriveTask    uu == AtDriveTask'
    <3>1. /\ d \in Nat /\ s \in Nat /\ v \in Nat /\ w \in Nat /\ a \in Nat /\ u \in Nat
          /\ vv \in Nat /\ ww \in Nat /\ aa \in Nat /\ uu \in Nat
          /\ d + (v + w + a + u) <= s
          /\ vv <= v /\ ww = w /\ aa = a /\ uu <= u
      BY <1>0, <1>1, <2>2, <2>3, <2>4
    <3>2. DistanceInv' <=> d + (vv + ww + aa + uu) <= s
      BY <1>0, <1>1, <2>2, <2>3, <2>4 DEF DistanceInv, StopsPending
    <3> HIDE DEF d, s, v, vv, w, ww, a, aa, u, uu
    <3>3. d + (vv + ww + aa + uu) <= s
      BY <3>1
    <3>4. QED
      BY <3>2, <3>3
<1>6. QED
  BY <1>2, <1>3, <1>4, <1>5 DEF VisionTask, VisionTaskNext

LEMMA DriveBoardDistance ==
  ASSUME TypeInv, Numbered, Numbered', DistanceInv, DriveBoard
  PROVE  DistanceInv'
<1>0. /\ DistancesTold \in Nat /\ StopsTold \in Nat
      /\ AtVision \in Nat /\ OnTheWay \in Nat /\ Answered \in Nat /\ AtDriveTask \in Nat
      /\ AtVision' \in Nat /\ OnTheWay' \in Nat /\ Answered' \in Nat /\ AtDriveTask' \in Nat
  BY DEF Numbered
<1>1. DistancesTold + (AtVision + OnTheWay + Answered + AtDriveTask) <= StopsTold
  BY DEF DistanceInv, StopsPending
<1>2. UNCHANGED <<feedback, visionPc, drivePc>>
  BY DEF DriveBoard, DriveNext, DriveSetup, StartInstruction, ContinueInstruction,
         CompleteInstruction, StopAbruptly, ResumeAfterStop, controllerVars,
         driveTaskVars, visionTaskVars
<1>3. /\ DistancesTold' = DistancesTold /\ StopsTold' = StopsTold
      /\ AtVision' = AtVision /\ AtDriveTask' = AtDriveTask
  BY <1>2 DEF DistancesTold, StopsTold, AtVision, AtDriveTask, StopToCome
<1>4. OnTheWay' + Answered' <= OnTheWay + Answered
  <2>1. CASE DriveSetup \/ ResumeAfterStop
    <3>1. toDrive' = toDrive /\ Send("R")
      BY <2>1 DEF DriveSetup, ResumeAfterStop
    <3>2. OnTheWay' = OnTheWay /\ Answered' = Answered
      BY <3>1, AnswerSent DEF Numbered, OnTheWay, One
    <3>3. QED
      BY <3>2 DEF Numbered
  <2>2. CASE \/ StartInstruction \/ CompleteInstruction
             \/ \E done \in BOOLEAN : ContinueInstruction(done)
    <3>1. ReceiveInstruction /\ (toControl' = toControl \/ Send("R"))
      BY <2>2 DEF StartInstruction, ContinueInstruction, CompleteInstruction
    <3>2. Answered' = Answered
      BY <3>1, AnswerSent DEF Numbered, Answered, One
    <3>3. OnTheWay' <= OnTheWay
      BY <3>1, Received
    <3>4. QED
      <4> DEFINE w == OnTheWay    ww == OnTheWay'
                 a == Answered    aa == Answered'
      <4>1. /\ w \in Nat /\ ww \in Nat /\ a \in Nat /\ aa \in Nat
            /\ aa = a /\ ww <= w
        BY <1>0, <3>2, <3>3
      <4> HIDE DEF w, ww, a, aa
      <4>2. ww + aa <= w + a
        BY <4>1
      <4>3. QED
        BY <4>2 DEF w, ww, a, aa
  <2>3. CASE StopAbruptly
    <3>1. ReceiveInstruction /\ CurrentInstruction.kind = "stop" /\ Send("S")
      BY <2>3 DEF StopAbruptly
    <3>2. Answered' = Answered + 1
      BY <3>1, AnswerSent DEF One
    <3>3. OnTheWay' + 1 <= OnTheWay
      BY <3>1, Received
    <3>4. QED
      <4> DEFINE w == OnTheWay    ww == OnTheWay'
                 a == Answered    aa == Answered'
      <4>1. /\ w \in Nat /\ ww \in Nat /\ a \in Nat /\ aa \in Nat
            /\ aa = a + 1 /\ ww + 1 <= w
        BY <1>0, <3>2, <3>3
      <4> HIDE DEF w, ww, a, aa
      <4>2. ww + aa <= w + a
        BY <4>1
      <4>3. QED
        BY <4>2 DEF w, ww, a, aa
  <2>4. QED
    BY <2>1, <2>2, <2>3 DEF DriveBoard, DriveNext
<1>5. QED
  <2> DEFINE d == DistancesTold  s == StopsTold
             v == AtVision       vv == AtVision'
             w == OnTheWay       ww == OnTheWay'
             a == Answered       aa == Answered'
             u == AtDriveTask    uu == AtDriveTask'
  <2>1. /\ d \in Nat /\ s \in Nat /\ v \in Nat /\ w \in Nat /\ a \in Nat /\ u \in Nat
        /\ vv \in Nat /\ ww \in Nat /\ aa \in Nat /\ uu \in Nat
        /\ d + (v + w + a + u) <= s
        /\ vv = v /\ uu = u /\ ww + aa <= w + a
    BY <1>0, <1>1, <1>3, <1>4
  <2>2. DistanceInv' <=> d + (vv + ww + aa + uu) <= s
    BY <1>0, <1>1, <1>3, <1>4 DEF DistanceInv, StopsPending
  <2> HIDE DEF d, s, v, vv, w, ww, a, aa, u, uu
  <2>3. d + (vv + ww + aa + uu) <= s
    BY <2>1
  <2>4. QED
    BY <2>2, <2>3

LEMMA DistanceInvStep ==
  ASSUME TypeInv, TypeInv', DistanceInv, [Next]_vars
  PROVE  DistanceInv'
<1>1. Numbered
  BY AllNumbered
<1>2. Numbered'
  <2>1. (TypeInv => Numbered)'
    BY AllNumbered, PTL
  <2>2. QED
    BY <2>1
<1>3. CASE Startup
  <2>1. /\ UNCHANGED <<feedback, toDrive, visionPc>> /\ toControl' = <<>>
        /\ drivePc' = "read"
    BY <1>3 DEF Startup, Boot, visionTaskVars
  <2>2. /\ DistancesTold' = DistancesTold /\ StopsTold' = StopsTold
        /\ AtVision' = AtVision /\ OnTheWay' = OnTheWay
        /\ Answered' = 0 /\ AtDriveTask' = 0
    BY <2>1, NoOccurrence
       DEF DistancesTold, StopsTold, AtVision, StopToCome, OnTheWay, Answered,
           AtDriveTask, One
  <2>3. QED
    BY <1>1, <2>2 DEF Numbered, DistanceInv, StopsPending
<1>4. CASE Server \/ MqttTask \/ UNCHANGED vars
  <2>1. UNCHANGED <<feedback, toDrive, toControl, visionPc, drivePc>>
    BY <1>4 DEF Server, ServerNext, PublishInstruction, MqttTask, MqttNext,
                EnqueueInstruction, DropInstruction, vars, linkVars,
                controllerVars, driveTaskVars, visionTaskVars
  <2>2. QED
    BY <2>1 DEF DistanceInv, StopsPending, DistancesTold, StopsTold, AtVision,
                StopToCome, OnTheWay, Answered, AtDriveTask
<1>5. QED
  BY <1>1, <1>2, <1>3, <1>4, DriveTaskDistance, VisionDistance,
     DriveBoardDistance DEF Next

LEMMA DistanceInvHolds == Spec => []DistanceInv
<1>1. Init => DistanceInv
  <2> SUFFICES ASSUME Init PROVE DistanceInv
    OBVIOUS
  <2>1. /\ feedback = <<>> /\ toDrive = <<>> /\ toControl = <<>>
        /\ visionPc = "idle" /\ drivePc = "down"
    BY DEF Init, LinksInit, ControllerInit
  <2>2. /\ DistancesTold = 0 /\ StopsTold = 0 /\ OnTheWay = 0 /\ Answered = 0
        /\ AtVision = 0 /\ AtDriveTask = 0
    BY <2>1, NoOccurrence
       DEF DistancesTold, StopsTold, OnTheWay, Answered, AtVision, StopToCome,
           AtDriveTask, One
  <2>3. QED
    BY <2>2 DEF DistanceInv, StopsPending
<1>2. TypeInv /\ TypeInv' /\ DistanceInv /\ [Next]_vars => DistanceInv'
  BY DistanceInvStep
<1>3. QED
  BY TypeInvHolds, <1>1, <1>2, PTL DEF Spec

\* The counts over the whole feedback are those of the property.
LEMMA CountOfAll ==
  ASSUME TypeInv
  PROVE  /\ Count({"SD", "SDturn"}, Len(feedback)) = DistancesTold
         /\ Count({"S"}, Len(feedback)) = StopsTold
<1>1. /\ feedback \in Seq(FeedbackMessage) /\ DOMAIN feedback = 1..Len(feedback)
      /\ \A i \in 1..Len(feedback) : feedback[i] \in FeedbackMessage
  BY LenProperties DEF TypeInv, TypeOK, LinksTypeOK
<1>2. ASSUME NEW kinds
      PROVE  {i \in 1..Len(feedback) : feedback[i].kind \in kinds}
               = Places(feedback, Of(kinds))
  BY <1>1 DEF Places, Of
<1>3. QED
  BY <1>2 DEF Count, DistancesTold, StopsTold, Occurrences

LEMMA FeedbackGrows ==
  ASSUME TypeInv, [Next]_vars
  PROVE  feedback' = feedback \/ \E m \in FeedbackMessage : feedback' = Append(feedback, m)
<1>1. /\ drivePc = "reportEnd" => item \in FeedbackMessage
      /\ drivePc = "report" => item \in FeedbackMessage
  BY MessageKinds DEF TypeInv, ItemOK
<1>2. CASE DriveTask
  BY <1>1, <1>2, LocalMessages
     DEF DriveTask, DriveTaskNext, ReadUart, CheckBackward, EnqueueBackward,
         ReportDistance, Dequeue, ReportEnd, ClearCurrent, SendInstruction,
         ReportInstruction, SetCurrent, Publish, linkVars
<1>3. CASE VisionData \/ VisionTask
  BY <1>3, LocalMessages
     DEF VisionData, VisionStop, VisionTask, VisionTaskNext, Peek, Crash, Decide,
         SetForwardStop, SendStop, SetTurnStop, ReportTurnStop, Flush, Publish,
         linkVars
<1>4. CASE Server \/ Startup \/ MqttTask \/ DriveBoard \/ UNCHANGED vars
  BY <1>4
     DEF Server, ServerNext, PublishInstruction, Startup, Boot, MqttTask, MqttNext,
         EnqueueInstruction, DropInstruction, DriveBoard, DriveNext, DriveSetup,
         StartInstruction, ContinueInstruction, CompleteInstruction, StopAbruptly,
         ResumeAfterStop, vars, linkVars
<1>5. QED
  BY <1>2, <1>3, <1>4 DEF Next

LEMMA PrefixKeeps ==
  ASSUME TypeInv, TypeInv', [Next]_vars, NEW n \in DOMAIN feedback, NEW kinds
  PROVE  n \in DOMAIN feedback' /\ Count(kinds, n)' = Count(kinds, n)
<1>1. feedback' = feedback \/ \E m \in FeedbackMessage : feedback' = Append(feedback, m)
  BY FeedbackGrows
<1>2. /\ feedback \in Seq(FeedbackMessage) /\ DOMAIN feedback = 1..Len(feedback)
      /\ Len(feedback) \in Nat
  BY LenProperties DEF TypeInv, TypeOK, LinksTypeOK
<1>3. n \in DOMAIN feedback' /\ \A i \in 1..n : feedback'[i] = feedback[i]
  <2>1. CASE feedback' = feedback
    BY <2>1
  <2>2. CASE \E m \in FeedbackMessage : feedback' = Append(feedback, m)
    BY <1>2, <2>2, Longer
  <2>3. QED
    BY <1>1, <2>1, <2>2
<1>4. {i \in 1..n : feedback'[i].kind \in kinds} = {i \in 1..n : feedback[i].kind \in kinds}
  BY <1>3
<1>5. QED
  BY <1>3, <1>4 DEF Count

LEMMA DistanceFollowsStopStep ==
  ASSUME TypeInv, TypeInv', DistanceInv', DistanceFollowsStop, [Next]_vars
  PROVE  DistanceFollowsStop'
<1> SUFFICES ASSUME NEW n \in DOMAIN feedback'
             PROVE  Count({"SD", "SDturn"}, n)' <= Count({"S"}, n)'
  BY DEF DistanceFollowsStop
<1>1. CASE n \in DOMAIN feedback
  <2>1. Count({"SD", "SDturn"}, n) <= Count({"S"}, n)
    BY <1>1 DEF DistanceFollowsStop
  <2>2. QED
    BY <1>1, <2>1, PrefixKeeps
<1>2. CASE n \notin DOMAIN feedback
  <2>1. n = Len(feedback')
    <3>1. PICK m \in FeedbackMessage : feedback' = Append(feedback, m)
      BY <1>2, FeedbackGrows
    <3>2. feedback \in Seq(FeedbackMessage)
      BY DEF TypeInv, TypeOK, LinksTypeOK
    <3>3. QED
      BY <1>2, <3>1, <3>2, Longer
  <2>2. (TypeInv => /\ Count({"SD", "SDturn"}, Len(feedback)) = DistancesTold
                    /\ Count({"S"}, Len(feedback)) = StopsTold)'
    BY CountOfAll, PTL
  <2>3. (TypeInv => Numbered)'
    BY AllNumbered, PTL
  <2>4. DistancesTold' <= StopsTold'
    BY <2>3 DEF DistanceInv, StopsPending, Numbered
  <2>5. QED
    BY <2>1, <2>2, <2>4
<1>3. QED
  BY <1>1, <1>2

(***************************************************************************)
(* With any number of stops and crashes, at every moment and in every      *)
(* earlier one, the server has been told of at least as many stops as      *)
(* distances, although control decides on a stop, sends it, hears of it    *)
(* and reports it in steps between which everything else goes on           *)
(* (spi.c:138-175, uart.c:60-80).                                          *)
(***************************************************************************)
THEOREM DistanceFollowsStopHolds == Spec => []DistanceFollowsStop
<1>1. Init => DistanceFollowsStop
  BY NoElement DEF Init, LinksInit, DistanceFollowsStop
<1>2. TypeInv /\ TypeInv' /\ DistanceInv' /\ DistanceFollowsStop /\ [Next]_vars
        => DistanceFollowsStop'
  BY DistanceFollowsStopStep
<1>3. QED
  BY TypeInvHolds, DistanceInvHolds, <1>1, <1>2, PTL DEF Spec

-----------------------------------------------------------------------------
(***************************************************************************)
(* The first stop is obeyed, outside the window in which the drive task    *)
(* has sent an instruction and not yet recorded it.                        *)
(***************************************************************************)

(***************************************************************************)
(* Until the vision task has decided on the first stop, nothing of a stop  *)
(* has reached the drive, and what the drive has or is about to get is     *)
(* what currentDriveInstruction says, or what the drive task is about to   *)
(* write there.                                                            *)
(***************************************************************************)
Undecided == stops = 0 \/ (stops = 1 /\ visionPc \in {"peek", "decide"})

Known == IF Recording THEN item.kind ELSE current

NothingStopped ==
  /\ driveMode # "stopped"
  /\ \A i \in DOMAIN toDrive : toDrive[i].kind # "stop"
  /\ \A i \in DOMAIN toControl : toControl[i] = "R"

EndIsReady == drivePc = "clearCurrent" => ready

DriveIsKnown ==
  /\ toDrive # <<>> => Head(toDrive).kind = Known
  /\ Moving(instruction) => instruction.kind = Known

FirstStopInv ==
  /\ stops = 0 => visionPc = "idle"
  /\ Undecided => NothingStopped /\ EndIsReady /\ DriveIsKnown

LEMMA OneAtMost ==
  ASSUME TypeInv, CountInv, Undecided
  PROVE  One(ready) + ReadyTokens + Len(toDrive) + One(Busy) <= 1
<1>1. CASE stops = 0
  BY <1>1, PermissionTypes
<1>2. CASE stops = 1 /\ visionPc \in {"peek", "decide"}
  <2>1. stops = 1 /\ One(StopToCome) = 1
    BY <1>2 DEF StopToCome, One
  <2>2. QED
    BY <2>1, PermissionTypes
<1>3. QED
  BY <1>1, <1>2 DEF Undecided

\* Who is ready has sent nothing that is not done.
LEMMA ReadyHasNone ==
  ASSUME TypeInv, CountInv, Undecided, ready
  PROVE  toDrive = <<>> /\ ~ Moving(instruction)
<1>1. One(ready) = 1
  BY OneValues
<1>2. Len(toDrive) = 0 /\ One(Busy) = 0
  <2> DEFINE r == One(ready)
             t == ReadyTokens
             n == Len(toDrive)
             b == One(Busy)
  <2>1. r = 1 /\ t \in Nat /\ n \in Nat /\ b \in {0, 1}
    <3>1. r = 1
      BY <1>1
    <3>2. t \in Nat /\ n \in Nat /\ b \in {0, 1}
      BY PermissionTypes
    <3>3. QED
      BY <3>1, <3>2
  <2>2. r + t + n + b <= 1
    BY OneAtMost
  <2> HIDE DEF r, t, n, b
  <2>3. n = 0 /\ b = 0
    BY <2>1, <2>2
  <2>4. QED
    BY <2>3 DEF n, b
<1>3. toDrive = <<>>
  BY <1>2, EmptySeq DEF TypeInv, TypeOK, LinksTypeOK
<1>4. ~ Busy
  BY <1>2, OneValues
<1>5. QED
  BY <1>3, <1>4, LocalMessages DEF Busy, Moving, NoMessage, Local, MoveKinds

\* The drive takes what there is, and nothing is left.
LEMMA TakesAll ==
  ASSUME TypeInv, CountInv, Undecided, ReceiveInstruction
  PROVE  toDrive' = <<>>
<1>1. Len(toDrive) <= 1 /\ toDrive \in Seq(DriveMessage)
  BY OneAtMost, PermissionTypes DEF TypeInv, TypeOK, LinksTypeOK
<1>2. CASE toDrive = <<>>
  BY <1>2 DEF ReceiveInstruction
<1>3. CASE toDrive # <<>>
  <2>1. /\ Tail(toDrive) \in Seq(DriveMessage) /\ Len(Tail(toDrive)) = Len(toDrive) - 1
        /\ Len(toDrive) \in Nat \ {0}
    BY <1>1, <1>3, Shorter, EmptySeq
  <2>2. Len(Tail(toDrive)) = 0
    BY <1>1, <2>1
  <2>3. QED
    BY <1>3, <2>1, <2>2, EmptySeq DEF ReceiveInstruction
<1>4. QED
  BY <1>2, <1>3

LEMMA DriveTaskFirstStop ==
  ASSUME TypeInv, CountInv, FirstStopInv, Undecided, DriveTask
  PROVE  (NothingStopped /\ EndIsReady /\ DriveIsKnown)'
<1>1. NothingStopped /\ EndIsReady /\ DriveIsKnown /\ UNCHANGED driveVars
  BY DEF FirstStopInv, DriveTask
<1>2. CASE ReadUart
  <2>1. /\ toControl' = <<>> /\ DOMAIN toControl' = {}
        /\ UNCHANGED <<toDrive, current, item>>
        /\ drivePc = "read" /\ drivePc' \in {"dequeue", "checkBackward"}
    BY <1>2, NoElement DEF ReadUart
  <2>2. QED
    BY <1>1, <2>1
       DEF NothingStopped, EndIsReady, DriveIsKnown, Known, Recording, driveVars
<1>3. CASE SendInstruction
  <2>1. ready /\ toDrive = <<>> /\ ~ Moving(instruction)
    BY <1>3, ReadyHasNone DEF SendInstruction, CountInv, SenderIsReady
  <2>2. item \in DriveMessage /\ item.kind # "stop"
    BY <1>3, MessageKinds DEF SendInstruction, TypeInv, ItemOK, Message, MoveKinds
  <2>3. toDrive' = <<item>>
    BY <1>3, <2>1 DEF SendInstruction
  <2>4. Head(toDrive') = item /\ \A i \in DOMAIN toDrive' : toDrive'[i] = item
    BY <2>3
  <2>5. drivePc' = "report" /\ UNCHANGED <<item, toControl, instruction, driveMode>>
    BY <1>1, <1>3 DEF SendInstruction, driveVars
  <2>6. QED
    BY <1>1, <2>1, <2>2, <2>4, <2>5
       DEF NothingStopped, EndIsReady, DriveIsKnown, Known, Recording
<1>4. CASE ClearCurrent
  <2>1. /\ UNCHANGED <<toDrive, toControl, instruction, driveMode>>
        /\ drivePc = "clearCurrent" /\ drivePc' = "read"
    BY <1>1, <1>4 DEF ClearCurrent, linkVars, driveVars
  <2>2. toDrive = <<>> /\ ~ Moving(instruction)
    BY <1>1, <2>1, ReadyHasNone DEF EndIsReady
  <2>3. QED
    BY <1>1, <2>1, <2>2 DEF NothingStopped, EndIsReady, DriveIsKnown
<1>5. CASE SetCurrent
  <2>1. /\ UNCHANGED <<toDrive, toControl, instruction, driveMode>>
        /\ drivePc = "setCurrent" /\ drivePc' = "read" /\ current' = item.kind
    BY <1>1, <1>5 DEF SetCurrent, linkVars, driveVars
  <2>2. Known' = Known
    BY <2>1 DEF Known, Recording
  <2>3. QED
    BY <1>1, <2>1, <2>2 DEF NothingStopped, EndIsReady, DriveIsKnown
<1>6. ASSUME \/ CheckBackward \/ EnqueueBackward \/ ReportDistance \/ Dequeue
             \/ ReportEnd \/ ReportInstruction
      PROVE  (NothingStopped /\ EndIsReady /\ DriveIsKnown)'
  <2>1. UNCHANGED <<toDrive, toControl, instruction, driveMode, current, ready>>
    BY <1>1, <1>6
       DEF CheckBackward, EnqueueBackward, ReportDistance, Dequeue, ReportEnd,
           ReportInstruction, linkVars, driveVars
  <2>2. Known' = Known
    BY <1>6 DEF CheckBackward, EnqueueBackward, ReportDistance, Dequeue,
                ReportEnd, ReportInstruction, Known, Recording
  <2>3. EndIsReady'
    BY <1>6, <2>1
       DEF CheckBackward, EnqueueBackward, ReportDistance, Dequeue, ReportEnd,
           ReportInstruction, EndIsReady, CountInv, SenderIsReady
  <2>4. QED
    BY <1>1, <2>1, <2>2, <2>3 DEF NothingStopped, DriveIsKnown
<1>7. QED
  BY <1>2, <1>3, <1>4, <1>5, <1>6 DEF DriveTask, DriveTaskNext

LEMMA DriveBoardFirstStop ==
  ASSUME TypeInv, CountInv, FirstStopInv, Undecided, DriveBoard
  PROVE  (NothingStopped /\ EndIsReady /\ DriveIsKnown)'
<1>1. /\ NothingStopped /\ EndIsReady /\ DriveIsKnown
      /\ UNCHANGED <<drivePc, ready, current, item>>
  BY DEF FirstStopInv, DriveBoard, controllerVars, driveTaskVars
<1>2. EndIsReady' /\ Known' = Known
  BY <1>1 DEF EndIsReady, Known, Recording
<1>3. /\ CurrentInstruction.kind # "stop"
      /\ Moving(CurrentInstruction) => CurrentInstruction.kind = Known
  <2>1. /\ instruction.kind # "stop"
        /\ toDrive # <<>> => 1 \in DOMAIN toDrive /\ Head(toDrive) = toDrive[1]
    BY LocalMessages, Shorter
       DEF TypeInv, TypeOK, LinksTypeOK, DriveTypeOK, Message, MoveKinds,
           NoMessage, Local
  <2>2. QED
    BY <1>1, <2>1 DEF CurrentInstruction, NothingStopped, DriveIsKnown
<1>4. ASSUME Send("R")
      PROVE  \A i \in DOMAIN toControl' : toControl'[i] = "R"
  <2>1. toControl \in Seq({"R", "S"}) /\ toControl' = Append(toControl, "R")
    BY <1>4 DEF Send, TypeInv, TypeOK, LinksTypeOK
  <2>2. QED
    BY <1>1, <2>1, Longer DEF NothingStopped
<1>5. CASE DriveSetup
  BY <1>1, <1>2, <1>4, <1>5 DEF DriveSetup, NothingStopped, DriveIsKnown
<1>6. CASE StartInstruction \/ \E done \in BOOLEAN : ContinueInstruction(done)
  <2>1. /\ ReceiveInstruction /\ Moving(CurrentInstruction)
        /\ instruction' = CurrentInstruction
        /\ driveMode' = driveMode /\ toControl' = toControl
    BY <1>6 DEF StartInstruction, ContinueInstruction
  <2>2. toDrive' = <<>> /\ DOMAIN toDrive' = {}
    BY <2>1, TakesAll, NoElement
  <2>3. QED
    BY <1>1, <1>2, <1>3, <2>1, <2>2 DEF NothingStopped, DriveIsKnown
<1>7. CASE CompleteInstruction
  <2>1. /\ ReceiveInstruction /\ Send("R") /\ driveMode' = driveMode
        /\ instruction' = NoMessage
    BY <1>7 DEF CompleteInstruction
  <2>2. toDrive' = <<>> /\ DOMAIN toDrive' = {} /\ ~ Moving(NoMessage)
    BY <2>1, TakesAll, NoElement DEF Moving, NoMessage, Local, MoveKinds
  <2>3. QED
    BY <1>1, <1>2, <1>4, <2>1, <2>2 DEF NothingStopped, DriveIsKnown
<1>8. CASE StopAbruptly \/ ResumeAfterStop
  BY <1>1, <1>3, <1>8 DEF StopAbruptly, ResumeAfterStop, NothingStopped
<1>9. QED
  BY <1>5, <1>6, <1>7, <1>8 DEF DriveBoard, DriveNext

LEMMA VisionFirstStop ==
  ASSUME TypeInv, FirstStopInv, VisionData \/ VisionTask, Undecided'
  PROVE  (NothingStopped /\ EndIsReady /\ DriveIsKnown)'
<1>1. stops \in Nat
  BY ControllerAssumption DEF TypeInv, TypeOK, ControllerTypeOK
<1>2. VisionData \/ Peek
  BY <1>1
     DEF VisionData, VisionStop, VisionTask, VisionTaskNext, Peek, Crash, Decide,
         SetForwardStop, SendStop, SetTurnStop, ReportTurnStop, StartFlush,
         Flush, Undecided, FirstStopInv
<1>3. /\ Undecided
      /\ UNCHANGED <<toDrive, toControl, driveMode, instruction, drivePc, ready,
                     item, current>>
  BY <1>1, <1>2
     DEF VisionData, VisionTask, VisionStop, Peek, Undecided, FirstStopInv,
         driveTaskVars, linkVars, driveVars
<1>4. QED
  BY <1>3 DEF FirstStopInv, NothingStopped, EndIsReady, DriveIsKnown, Known,
              Recording

LEMMA FirstStopInvStep ==
  ASSUME TypeInv, CountInv, FirstStopInv, [Next]_vars
  PROVE  FirstStopInv'
<1>1. (stops = 0 => visionPc = "idle")'
  <2>1. stops \in Nat
    BY ControllerAssumption DEF TypeInv, TypeOK, ControllerTypeOK
  <2>2. CASE VisionData \/ VisionTask
    BY <2>1, <2>2
       DEF VisionData, VisionStop, VisionTask, VisionTaskNext, Peek, Crash,
           Decide, SetForwardStop, SendStop, SetTurnStop, ReportTurnStop,
           StartFlush, Flush, FirstStopInv
  <2>3. CASE ~ (VisionData \/ VisionTask)
    <3>1. UNCHANGED visionTaskVars
      BY <2>3 DEF Next, Server, ServerNext, PublishInstruction, Startup, Boot,
                  MqttTask, MqttNext, EnqueueInstruction, DropInstruction,
                  DriveTask, DriveTaskNext, ReadUart, CheckBackward,
                  EnqueueBackward, ReportDistance, Dequeue, ReportEnd,
                  ClearCurrent, SendInstruction, ReportInstruction, SetCurrent,
                  DriveBoard, vars, controllerVars
    <3>2. QED
      BY <3>1 DEF FirstStopInv, visionTaskVars
  <2>4. QED
    BY <2>2, <2>3
<1>2. ASSUME Undecided' PROVE (NothingStopped /\ EndIsReady /\ DriveIsKnown)'
  <2>1. CASE VisionData \/ VisionTask
    BY <1>2, <2>1, VisionFirstStop
  <2>2. ASSUME UNCHANGED <<stops, visionPc>> PROVE Undecided
    BY <1>2, <2>2 DEF Undecided
  <2>3. CASE DriveTask
    <3>1. UNCHANGED <<stops, visionPc>>
      BY <2>3 DEF DriveTask, DriveTaskNext, ReadUart, CheckBackward,
                  EnqueueBackward, ReportDistance, Dequeue, ReportEnd,
                  ClearCurrent, SendInstruction, ReportInstruction, SetCurrent,
                  visionTaskVars
    <3>2. QED
      BY <2>2, <2>3, <3>1, DriveTaskFirstStop
  <2>4. CASE DriveBoard
    BY <2>2, <2>4, DriveBoardFirstStop DEF DriveBoard, controllerVars, visionTaskVars
  <2>5. CASE Startup
    <3>1. /\ UNCHANGED <<stops, visionPc, toDrive, driveMode, instruction, item, current>>
          /\ toControl' = <<>> /\ DOMAIN toControl' = {}
          /\ drivePc = "down" /\ drivePc' = "read"
      BY <2>5, NoElement DEF Startup, Boot, Up, visionTaskVars, driveVars
    <3>2. NothingStopped /\ DriveIsKnown
      BY <2>2, <3>1 DEF FirstStopInv
    <3>3. QED
      BY <3>1, <3>2 DEF NothingStopped, EndIsReady, DriveIsKnown, Known, Recording
  <2>6. CASE Server \/ MqttTask \/ UNCHANGED vars
    <3>1. UNCHANGED <<stops, visionPc, toDrive, toControl, driveMode, instruction,
                      drivePc, ready, item, current>>
      BY <2>6 DEF Server, ServerNext, PublishInstruction, MqttTask, MqttNext,
                  EnqueueInstruction, DropInstruction, vars, linkVars,
                  controllerVars, driveTaskVars, visionTaskVars, driveVars
    <3>2. NothingStopped /\ EndIsReady /\ DriveIsKnown
      BY <2>2, <3>1 DEF FirstStopInv
    <3>3. QED
      BY <3>1, <3>2 DEF NothingStopped, EndIsReady, DriveIsKnown, Known, Recording
  <2>7. QED
    BY <2>1, <2>3, <2>4, <2>5, <2>6 DEF Next
<1>3. QED
  BY <1>1, <1>2 DEF FirstStopInv

LEMMA FirstStopInvHolds == Spec => []FirstStopInv
<1>1. Init => FirstStopInv
  <2> SUFFICES ASSUME Init PROVE FirstStopInv
    OBVIOUS
  <2>1. /\ toDrive = <<>> /\ toControl = <<>> /\ DOMAIN toDrive = {}
        /\ DOMAIN toControl = {} /\ visionPc = "idle" /\ drivePc = "down"
        /\ driveMode = "setup" /\ instruction = NoMessage
    BY NoElement DEF Init, LinksInit, ControllerInit, DriveInit
  <2>2. ~ Moving(NoMessage)
    BY DEF Moving, NoMessage, Local, MoveKinds
  <2>3. QED
    BY <2>1, <2>2 DEF FirstStopInv, NothingStopped, EndIsReady, DriveIsKnown
<1>2. TypeInv /\ CountInv /\ FirstStopInv /\ [Next]_vars => FirstStopInv'
  BY FirstStopInvStep
<1>3. QED
  BY TypeInvHolds, CountInvHolds, <1>1, <1>2, PTL DEF Spec

(***************************************************************************)
(* Whatever the tasks and the boards do meanwhile, and however slow each   *)
(* of them is, the vision task decides to stop a rover that moves forward  *)
(* when the first stop comes, unless the drive task is just between        *)
(* sending an instruction and recording it (spi.c:149-151,                 *)
(* uart.c:108-116).                                                        *)
(***************************************************************************)
THEOREM FirstStopObeyedHolds == Spec => FirstStopObeyed
<1>1. TypeInv /\ FirstStopInv /\ [Next]_vars =>
        [visionPc = "decide" /\ visionPc' # "decide"
           /\ stops = 1 /\ MovingForward /\ ~ Recording => DecidesToStop]_vars
  <2> SUFFICES ASSUME TypeInv, FirstStopInv, Next,
                      visionPc = "decide", visionPc' # "decide", stops = 1,
                      MovingForward, ~ Recording
               PROVE  DecidesToStop
    BY DEF vars, controllerVars, visionTaskVars
  <2>1. Decide
    BY DEF Next, Server, ServerNext, PublishInstruction, Startup, Boot, MqttTask,
           MqttNext, EnqueueInstruction, DropInstruction, DriveTask,
           DriveTaskNext, ReadUart, CheckBackward, EnqueueBackward,
           ReportDistance, Dequeue, ReportEnd, ClearCurrent, SendInstruction,
           ReportInstruction, SetCurrent, DriveBoard, VisionData, VisionStop,
           VisionTask, VisionTaskNext, Peek, Crash, SetForwardStop, SendStop,
           SetTurnStop, ReportTurnStop, Flush, controllerVars, visionTaskVars
  <2>2. DriveIsKnown /\ Moving(instruction) /\ instruction.kind = "forward"
    BY DEF FirstStopInv, Undecided, MovingForward, Moving, MoveKinds
  <2>3. current = "forward"
    BY <2>2 DEF DriveIsKnown, Known
  <2>4. QED
    BY <2>1, <2>3 DEF Decide, DecidesToStop
<1>2. QED
  BY TypeInvHolds, FirstStopInvHolds, <1>1, PTL DEF Spec, FirstStopObeyed

=============================================================================
