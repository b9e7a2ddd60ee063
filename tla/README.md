# SpaceX++ rover: a verification development

SpaceX++ is a small Mars rover: a Go server with a web page, a control board
(ESP32), a drive board (Arduino), a vision board (DE10-Lite FPGA) and an energy
board. This directory holds TLA+ modules that model the program, configurations
that check them with TLC on small instances, and proofs checked by TLAPS for
every value of the constants. Paths below are relative to `src/`.

## The system

| component | state | operations | interacts with |
|---|---|---|---|
| control: drive pipeline (`control/spaceXpp_rover_controller/src/{mqtt,drive,uart,spi,main}.c`) | `driveInstructionQueue` (50 items), `currentDriveInstruction`, `driveIsReady` | MQTT task fills the queue; drive task empties it towards the drive and reports; vision task handles a stop and flushes | server (MQTT), drive (UART), vision (SPI) |
| drive: execution (`drive/drive.ino`, `uart.cpp`) | current instruction, started, completed | receive, start, continue, complete, stop abruptly | control (UART), motion control |
| drive: motion control (`move_*.cpp`, `speed.cpp`, `smps.cpp`, `optical_flow.cpp`) | PID terms, sensor sums | numeric control | hardware |
| server: publication and feedback (`command/server/mqttGeneral.go`) | `stopData` | publish a sequence; handle each report of the rover | control (MQTT), map |
| server: map (`map_general.go`, `drive.go`, `HTTPPost.go`, `HTTPGet.go`) | `Map`, `Rover`, stashed instruction, previous destination, `stopAutonomous`, `ballCount` | update the position and tiles, stop and replan, explore, reset | web page (HTTP), database |
| server: path and instructions (`map_paths.go`, `min_heap.go`, `drive.go`) | none between calls | A*, heap, path to instructions | map |
| server: exploration (`autonomy.go`) | none | choose the next destination | map |
| server: map store (`SQLdb.go`, `SQLGeneral.go`, `map_db.go`) | tables of maps, tiles, rovers, instructions; `dbMap` | save, load, log instructions | HTTP handlers |
| server: plumbing (`HTTPServer.go`, `HTTPRoutes.go`, `HTTPMiddleware.go`, `credentials.go`, `cmd/`) | credentials | route, authenticate, start | all |
| control: wifi (`wifi.c`) | retry counter, event group | connect, retry, give up | boot |
| energy (`energy/comm`, `energy_uart_task`, `mqttGeneral.go:216`) | last readings | forward readings | server |
| vision (`vision/.../D8M_Camera_Test/main.c`, `SXPP_*.sv`, `STREAM_REG.v`) | last colour seen, last sent, counters | detect, debounce, send a stop | control (SPI) |
| web page (`command/Webpage/JS`) | none | poll and draw, post requests | server |

What makes each of them correct, and what is hard:

* *Drive pipeline.* Three tasks on two cores share the queue and
  `currentDriveInstruction` with no lock; the drive says "R" (ready) and "S"
  (stopped) and control reads only the last character of what has arrived. The
  drive must be given one instruction at a time, the server must hear of the
  instructions in their order and only of such as are (about to be) executed, a
  stop must reach a moving rover, nothing of an old sequence may be driven after
  a flush, and the rover must not wait for ever.
* *Map.* The server applies reports one late (the stash), gets a stop in two
  parts, and is called from HTTP goroutines and the MQTT callback without a
  lock. Its rover must be where the real one is; obstacles must stay on the map.
* *Path and instructions.* The path must be a shortest one that crosses no
  obstacle, and the instructions made from it must lead along it.
* *Store.* A save is four transactions; the log of instructions goes under an id
  that does not exist yet. A loaded map must be the one that was saved.
* *Vision, wifi, energy.* Small state machines whose counters decide whether
  something is reported at all.

`PROJECT.json` lists every component and, line by line, the hazards of the code.

## Plan

The order in which the parts were modelled, the most important first; all of it
is done:

1. **Rover**: `Links`, `Controller`, `Drive`, composed by `Rover`; the proofs in
   `RoverProofs` and `RoverCountProofs`.
2. **Plans and PathSearch**: the search against a reference definition of
   shortest paths, the instructions against `driveTocoords`; the proofs in
   `PlanProofs` and `SearchProofs`.
3. **MapServer and Field**, composed by **Mission**; the proofs in
   `MissionProofs` and `JourneyProofs`.
4. **MapStore**, which implements the abstract **Archive**; the proofs in
   `MapStoreProofs`.
5. **ImageProc, Vision and Wifi**, composed by **Sight**; the proofs in
   `SightProofs`.

What could follow: `Field` as an abstraction that `Rover` implements while no
stop interferes (today what `Field` assumes of the boards is argued in this
file and covered in part by `FeedbackInOrder`, `FlushLeavesNothing` and
`FirstStopObeyed`), and the composition of `Rover` with `MapServer` for
schedules in which the boards do not keep their pace.

## The modules: the boards

`Links` holds the channels. Server to control is the MQTT topic (`inbox`); control
to drive (`toDrive`) and drive to control (`toControl`) are the two directions of
the UART; `feedback` is the history of what control has published. Messages of
the server are numbered in the order of publication; the number is there for the
properties only. A turn left and a turn right are one kind, and values are left
out: no decision of the two boards depends on them. The server may publish any
message next, because sequences that two HTTP requests and the feedback handler
start are not serialised (`HTTPPost.go:38,68,92`, `map_general.go:97`).

`Controller` has one action per access to what the tasks share. `drivePc` and
`visionPc` are the program counters of `drive_uart_task` and of
`handle_vision_stop_instruction`; the MQTT task does a single access. `current`
is `currentDriveInstruction` (`"none"` for the empty string), `item` is
`queue_data`. Three points deserve a note:

* `ReadUart` takes the *last* message of what has arrived (`uart.c:66`), and
  forgets the others.
* `Peek` on an empty queue leaves `queueData` uninitialised (`spi.c:145`). The
  model lets it read as "forward", as some other word, or as the empty string;
  for the latter `strtok` returns NULL and the `strcmp` of line 155 panics
  (`Crash`), which restarts the board.
* `Boot` empties `toControl` and `inbox`: the UART driver was not installed, and
  the MQTT session is new. If the drive was already waiting, its only "R" is
  lost, and the rover does not move until a stop makes the drive answer again.
  The properties say "while a permission is left" for this reason.

`Drive` has one action per outcome of a pass of `loop()`. A new instruction
replaces the current one whatever its state (`uart.cpp:67`, `drive.ino:61`), with
`currentInstructionStarted` left as it is. `stopped` is the 2 s delay after a
stop, in which nothing is read.

`Rover` composes them and adds what the tasks' delays imply, as an option:
with `Timely` the vision task, which has the highest priority, runs its handler
without being overtaken, a pass of the drive task (2 s) is longer than the drive
needs to read its UART, and control reads an "S" before the "R" that follows 2 s
later. With `Timely = FALSE` nothing is assumed. Properties that hold are checked
without the assumption, the two that do not hold with it, so that neither result
rests on an unlikely schedule.

UART messages are atomic in the model: a read never returns half of "12.00S". MQTT
is taken as the code asks for it (QoS 2): each message once, in order, unless the
control board is down. The queue's operations are atomic, as FreeRTOS makes them.

## The modules: the server

`Plans` has the operators both sides of the topics share: tiles, where an
instruction brings a rover (`After` is `driveTocoords`), shortest paths, and the
instructions made of a path. A tile is its index in `Map.Tiles`, so that a rover
off the map wraps to another row, or out of the slice, as in the code. Distances
count tiles: the code multiplies by `tileWidth` when it plans and divides by it
when it moves the rover.

`PathSearch` is `getShortedPathFromStartToDestination`, one `Visit` per turn of
its loop, with the binary heap and its table of positions. Node ids are the row
and the column written one after the other in base 10; on 12 by 12 tiles "110"
is both (1,10) and (11,0). `Base` makes the same happen on a small map: `Size`
is `Base + 2`, as 12 is 10 + 2. `MCPlans` chooses a map, a destination, a
rotation and a mode, searches, plans and carries the plan out. Loops are
recursive functions over the number of their turns, bounded by what the loop
can take at most: a node moves at most as often as the heap has places, and a
path back has at most as many steps as there are tiles. That the bounds are
enough is part of what is proved.

`Topics` holds the two MQTT topics, `MapServer` the state of the server:
`tiles` and `rover` are `Map` and `Rover`; `stash` is
`stashedDriveInstruction`, which is put on the map when the next report comes;
`stopData` is the colour in the first part of a stop; `exploring` is the
negation of `stopAutonomous`. The MQTT client calls the feedback handler for
one report at a time, and each call is one action. `targetCoords` runs in a
goroutine of its own and is cut where it reads the rover's place and the map
(`TargetCoords`), its rotation (`MakeInstructions`), and publishes
(`PublishNext`). One such request is in progress at a time. Which of the
shortest paths is taken is left open. `Panics` gathers the places where an
index may be out of range: the goroutine of the MQTT client is not protected,
so `Panic` ends the server. (A panic in an HTTP handler is caught by
`net/http`; the request fails.) Texts for the web page and the log of
instructions are left out.

`Field` is the rover as the server's design takes it to be, with the obstacles
around it: a queue, the instruction being executed, tiles driven of it. It is
coarser than `Rover`, whose races inside the boards it leaves out: a report
goes out in the same step as the instruction, and a stop is handled in one
step. What it assumes of the surroundings, none of which is code, is this. A
box (`map_general.go:197`: "only be in box in front") is seen when the rover is
about to drive into it, or turns to it. Motors and wheels do what they are
told. Vision sends an obstacle when its colour is not the one sent last
(`main.c:268`). At the end of a turn with an empty queue, whether the handler
sees a "forward" in its uninitialised buffer is open.

`Mission` composes server and rover and adds an operator, who asks for targets,
explores, drives by hand, and resets the map after putting the rover back at the
start. Three constants limit schedules. `Prompt`: a sequence has arrived before
the rover starts on it (publishing takes milliseconds, the drive task looks once
a second). `Patient`: the operator waits until the rover is idle. Both are
`FALSE` in `mission_hasty`. `Careful`: the operator resets the map only when
nothing goes on and the last instruction is on the map (the page says "Rover has
reached its destination" then, `mqttGeneral.go:183`). The code does not enforce
it: `resetMap` may be posted at any time, and neither looks at what is on its way
nor clears the stash (`HTTPPost.go:117`). Every run assumes `Careful`, and so does
every theorem about `Mission` but its type. With `Careful = FALSE` in
`mission_hasty` TLC finds `DeadReckoning` violated: reports of what was done before
the reset, or the stash of a sequence whose X was dropped, are applied to the
rover of the new map. Nothing in the code or its docs says what a reset is to do
with them, so this is a hazard in the list and no finding.

## The modules: the map history

`MapStore` is the SQLite database of the server with the handlers that use it.
A map with its rover is a version number, raised by each change of `Map` or
`Rover`; the 144 tiles are written in one transaction, so that one number
stands for them. The tables: `maps` (the id of a map is its place), `tileRows`
(the maps inserted under an id: nothing in the schema forbids a second),
`roverRows` (the id is the primary key there, a second insert fails), `logRows`
(the table of instructions; a row has the id of the map and the version it was
reported on, which tells the rows apart and gives their order).

One action is one transaction, which may fail (`Transact`), and most handlers
go on after an error, as the code does: a save whose name was not found stores
its tiles under -1. `Save`, `GetSavedID`, `InsertMap` and `SaveRover` are the
handler `save`; `ReportBegin` and `ReportInsert` are `storeInstruction`, which
reads the latest id and adds 1 to it; `ResetMap` (the memory), `GetResetID` and
`ResetInstructions` are the handler `resetMap`; `RequestMap`, `RetriveMap`, `RetriveRover` and
`RetriveInstruction` are `requestMap`, and `LoadMap` is `loadMap`. Handlers
interleave freely; one of each kind runs at a time. `Restart` loses the memory
and every handler under way, and leaves the tables; the reset at the start of
the server is not carried out, as the code makes the handler and does not call
it (`HTTPServer.go:32`).

`Archive` is what a history of maps promises: a map appears once, as a whole,
and never changes. `WrittenOnce` says that `MapStore` implements it, under the
mapping `archived`: the maps of which tiles and rover can be loaded. One
assumption is made of the page: a name is used for one save (the names of a
save are typed by the operator; with a name used twice `GetSavedID` finds the
first map of that name, and TLC finds `WrittenOnce` violated, at the line
`SQLdb.go:148`). The page loads a map three seconds after it has requested it,
whether the request has ended or not (`historyMain.js`), and the operator may
request another in between: `LoadMap` may come at any step of a request, and
`RequestMap` before the `LoadMap` of the request before. The log that is loaded
then may be that of both maps, as `retriveInstruction` appends to what is there
(`SQLdb.go:248`).

## The modules: vision and wifi

`ImageProc` is the message writer of `EEE_IMGPROC.v` and its FIFO, with the frame
counter and the word count that has no bit for a full FIFO. What the blob
detectors make of a frame is a *view*: the ball, whether its position and size
are valid, and whether an obstacle is. The five words of a message are written
in five cycles of the clock, in which the program does not get from one read to
the next: one step.

`Vision` is the loop of `main.c`: a drain of the FIFO word by word, where the
first message is interpreted by counting words, the counters of consecutive
sightings, and `last_sent`. Words after the first message of a drain are
skipped, as the count has passed 4. `last_seen` and `last_sent` are not
initialised and start as any character. The index of "no ball" lies outside
`color_names`, and what is read there is any character. Every step that prints
is a step of its own (`Printing`), for a write to the JTAG UART waits up to ten
seconds for a host that does not read (`altera_avalon_jtag_uart_write.c`).

`Wifi` is `wifi_init_sta` and its event handler: the count of retries, the event
group, and the wait. After the start the handlers are unregistered and every
variable of it is dead.

`Sight` composes them with the SPI link: a stop is lost unless
`vision_spi_task` waits for it. `DrainIsFast` is the one assumption on speeds:
a message comes every 100 ms, a drain without printing takes far less, so that
at most one message arrives during it; while the program prints, any number
may. Keys and console commands of `main.c` change the settings of the camera
only and are left out.

## The runs

| run | instance | properties |
|---|---|---|
| `rover_stops` | 3 instructions, queue of 2, 1 stop, 1 crash | `TypeOK`, `OnePermission`, `ReportsFollowExecution`, `FeedbackInOrder`, `FlushLeavesNothing`, `FirstStopObeyed` |
| `rover_live` | 2 instructions, queue of 1, 2 stops, 1 crash, fairness | `PermissionsBounded`, `DistanceFollowsStop`, `PermissionKept`, `QueueDrains`, `EndIsReported` |
| `rover_stop_lost` | 2 instructions, 1 stop, `Timely` | `StopObeyed`: violated |
| `rover_overrun` | 3 instructions, 1 stop, `Timely` | `NoInstructionOverrun`: violated |
| `plans_all` | 6 by 6 tiles, up to 2 obstacles, 2 starts, all destinations, rotations, modes | `FindsShortestPath`, `HeapConsistent`, `ReachesDestination`, `LooksAround`, `VisitedIsFinal`, `AvoidsObstacles` |
| `mission_target` | 5 by 5 tiles, up to 2 obstacles, 1 request, `Prompt`, `Patient`, fairness | `TypeOK`, `DeadReckoning`, `MapIsTrue`, `NoCollision`, `TargetReached`, `MissionEnds` |
| `mission_hasty` | 4 by 4 tiles, no obstacles, 2 acts of the operator, queue of 3, `Careful` | `DeadReckoning` |
| `mission_stop` | 5 by 5 tiles, an obstacle two tiles ahead, simple mode | `DeadReckoning`: violated |
| `mission_explore` | 6 by 6 tiles, no obstacles, exploration | `ExploresFullMap`: violated |
| `map_store` | 2 names, or 1 map there before, 3 acts, 3 changes, 1 fault | `TypeOK`, `LogOfOwnRun`, `ResetLeavesOne`, `ShownIsSaved`, `WrittenOnce`, `SavedLogsKept` |
| `sight` | 2 colours, 4 views, a FIFO of 11 words, 1 retry, fairness | `TypeOK`, `InStep`, `SentWasSeen`, `StandingReported`, `FirstObstacleHeard`, `BootNeverHangs` |
| `sight_overflow` | as `sight` | `RoomForMessage`: violated |

Deadlock is checked in the runs of `Rover` and `Sight`. In the others the system
may stop: a plan is carried out, or the operator has nothing more to ask, or the
bounds of the map history are used up.

A *permission* is an "R" and what becomes of it: on the UART, in `driveIsReady`,
on its way back as an instruction, or with the drive that executes it. Until the
first stop there is at most one (`OnePermission`), which is why control only
sends, and only reports the end of a sequence, when the drive has completed
everything before (`ReportsFollowExecution`). Each stop adds at most one
(`PermissionsBounded`), and, although messages are thrown away, the last one is
never lost while the board is up (`PermissionKept`). `FeedbackInOrder` and
`DistanceFollowsStop` are what the server's bookkeeping relies on.
`FlushLeavesNothing` is about the flush, which is not atomic: the other tasks
keep adding and removing. `FirstStopObeyed` says that the first stop reaches a
rover that moves forward, except in the window described next. `QueueDrains` and
`EndIsReported` say that the rover does not get stuck.

The two properties of `Rover` that are violated are what comments in the code say:

* `spi.c:149` says that a stop is needed, and sent, "if moving forward". Between
  `uart.c:109`, which sends the instruction, and `uart.c:116`, which records it,
  the decision is taken on the instruction before: the trace ends with the drive
  moving forward and no stop sent. Publishing (`uart.c:113`) lies in this window.
* `uart.c:82` says that control will "only send next instruction if drive is
  ready". The drive answers every stop with an "R", also a stop that finds it idle
  because its instruction was just completed. Control then has two permissions
  for one drive, and the trace ends with an instruction replaced by another while
  it is being executed.

Of the server: `DeadReckoning` says that whenever all reports are handled and
the rover is between two instructions, the server's rover, once the stash is
applied, is where the real one is. It holds for an operator who does not wait
with anything but a reset, and with messages dropped by a full queue. `MapIsTrue`, `NoCollision`,
`TargetReached` and `MissionEnds` together say that a rover sent to a tile gets
there, around obstacles it learns of on the way, or stops where no way is left.
Two properties that the code or the web page states do not hold:

* `mission_stop`. The drive reports the distance of a stop as the text of a
  float (`drive.ino:94`), and `strconv.Atoi` makes 0 of it
  (`mqttGeneral.go:150`), while `uart.c:74` says that the report is "required
  for server to stop on correct tile". A rover stopped after a tile or more of
  its forward is lost. With `Atoi` returning the number, all invariants of
  `mission_target` hold in this run's instance, with an obstacle on any tile.
* `mission_explore`. `autonomousDrive` hands row and column to `mapAndDrive` in
  the wrong order (`map_general.go:104-108`). On the mirrored map exploration
  goes on until the mirrored destination is the rover's own tile; then the
  search finds no path, and nobody looks at the error. With the order kept,
  `ExploresFullMap` holds in this run's instance.

What `mission_target` assumes is needed. With one change to its `.cfg` (and, for
the first three, `Modes = {0}`) TLC finds each of these:

* `Prompt = FALSE`: `NoCollision` is violated. A stop while turning ends the
  sequence only if the next instruction is a forward (`spi.c:155`), which may not
  have arrived in the queue yet; the turn is taken for harmless, and the forward
  leads into the obstacle, which vision does not send again.
* `Prompt = FALSE`: `TargetReached` is violated. What arrives after the flush
  (`spi.c:165`) is driven, the server's new plan follows it from another place
  than it was made for, and the rover ends away from its target.
* two obstacles of one colour: `NoCollision` is violated. Vision sends a colour
  only if it differs from the last one sent (`main.c:334`), and nothing stops the
  rover before the second.
* `Patient = FALSE` and two acts: `TargetReached` is violated. `mapAndDrive` plans
  from what was last reported (`map_general.go:77`), while a turn asked for by hand
  is on its way.
* full discovery (`Modes = {1}`): `NoCollision` is violated, with one obstacle. An
  obstacle seen while rotating is put on the map but does not end the sequence,
  because a turn comes next; when the rover then turns to it with a forward next,
  vision has sent this colour already.

Of the map history: besides `WrittenOnce`, `LogOfOwnRun` says that the log of a
saved map holds what was reported between the save before it and its own, although
`storeInstruction` reads the id in one transaction and uses it in another;
`ResetLeavesOne` that a reset leaves at most the instruction that was on its way;
`ShownIsSaved` that the page gets what is stored of the map it asked for, and no
instruction of the map shown before, unless a transaction of the request fails,
a reset falls into it, or the page has not loaded the map before;
`SavedLogsKept` that a reset takes nothing from the log of a map saved before
it, however it overlaps with saves: only a map saved while the reset is on its
way may lose its log. What they do not catch: such a map may be a blank one, and
after a restart the log of the run before goes on and is saved with the next map
(`HTTPServer.go:32`). The code does both, and nothing says that it should not.

Of vision: `InStep` says that counting words, which is all the program does,
keeps step with the messages, whatever drains were cut short by a printf;
`SentWasSeen` that a ball is sent only after more than three messages in a row
with its colour, the last one valid, although the count stands still for the
colour sent last and a byte from behind the table is taken for a colour;
`StandingReported` that what stays in view is sent, again and again if there
are two such things; `FirstObstacleHeard` that an obstacle that is the first
thing seen after the start of the control board reaches its handler;
`BootNeverHangs` that the wait for the wifi ends. `StandingReported` and `FirstObstacleHeard` are
stated unless the FIFO has become full, which `sight_overflow` is about:

* `EEE_IMGPROC.v:307` says that the message writer is started "if there is room
  in the FIFO". The test on line 310 leaves room for four words, and a message
  has five. As long as the number of words is a multiple of five nothing
  happens; once a printf has held the program within a message, the last
  message let in is cut. The FIFO is full then, its word count has eight bits
  and shows 0, and the program never reads again.

*Bounds.* The queue has 50 places; two are enough to be empty, partly filled
and full, and for a flush to race with both an addition and a removal. Three
instructions are more than the queue holds: one can be dropped, one can leave
the queue during a flush and one be added after it. One stop reaches every
branch of the handler; with two, the second meets every phase of the first. One
crash gives a second boot. `MaxStops` and `MaxCrashes` bound counters that are
unbounded in the code. `rover_live` has a queue of one place and two
instructions, so that it is empty and full, and one instruction is dropped;
what it checks of permissions does not depend on the queue, and is proved for
any.

On a map of 6 by 6 with `Base` 4 the inner tiles are 16, so that a detour of
several tiles is needed for some pairs of obstacles, and all the coincidences
of ids occur. In `mission_target` the field has nine inner tiles and the rover
starts in the middle: there every leg of a plan is one tile long, also after a
replan, so that a stop comes at distance 0, the one distance the server reads
correctly. Within that limit every placement of two obstacles and every target
is tried; the limit is the finding of `mission_stop`. Two requests would lead
to legs of two tiles. `mission_hasty` has a queue that is shorter than a plan,
a manual drive that leads off the map, and exploration next to it. `MaxActs`
bounds what the operator does; distances, targets and obstacles are small sets.

In `map_store` two saves, or a save and a request, or two requests with a reset
between them or at the same time, meet three changes of the map and one fault at any point: a failed
transaction or a restart. `Names` bounds the maps, `MaxVersion` the changes,
`MaxActs` the calls of the operator.

`sight` has a FIFO of 11 words in place of 256: both leave 1 modulo 5, on which
depends what the test for room does, and two whole messages and a part fit in.
Sightings are counted to 1 instead of 3 and 5: the counts may be below, at and
above their limits. `MSG_INTERVAL` is 1 and the frame counter has two values,
as the interval only divides the frames: here a message is written at every
frame, unless the FIFO has no room. One retry is enough to be counted, reset
and used up.

*Fairness.* For `Mission`, weak fairness of the feedback handler, of the
handler of a request, and of the rover's tasks: goroutines are scheduled, and
QoS 2 messages arrive; the operator is not fair. For `Rover`, of each task and
of the drive's loop: FreeRTOS runs every task that is ready, the tasks of
higher priority block on their input or delay, and the Arduino loop runs for
ever. `ContinueInstruction(TRUE)` is fair because a move ends when the
displacement is reached (`move_hl.cpp`); that the motors do move the rover is
assumed. The server and vision are not fair there. For `Sight`, of the frames
(the camera delivers them), of the program and its sends (a printf ends after
ten seconds at the latest, `altera_avalon_jtag_uart_write.c:189`), of the
events the wifi driver owes for each attempt to connect (not of a connection
that breaks), of `app_main`, and of the handler of a stop. `MapStore` has no
liveness property: nothing there is promised but what is stored.

Each property comes with a mutant: the change to one definition, of the kind a
slip in the code would be, that makes TLC find the property violated. The mutants
are the operators named `<Definition>_<Change>`.

## The proofs

`RoverProofs` proves `TypeCorrect`, `Spec => []TypeOK`. The invariant is
`TypeInv`: `TypeOK`, with what the drive task holds at each program counter (it
sends only moves, and reports only an X as the end), and that no more messages
wait than were published. It also proves, on top of it,
`OnePermissionHolds` and `ReportsFollowExecutionHolds`. `OnePermission` is not
inductive: `PermissionInv` adds that a control about to send holds the
permission, that no stop is on its way or being answered, and that a drive in
`setup()` has no instruction.

`RoverProofs` also proves `FlushLeavesNothingHolds` and `FeedbackInOrderHolds`.
For the first, `FlushInv` counts: the messages waiting on the topic bear the last
numbers published, in order; what is in the queue was taken from the topic before;
and while the flush has `flushLeft` receives to go, an instruction it must not
leave is among the first `flushLeft` of the queue (an addition goes behind
them, a removal by the drive task only brings them forward). For the second,
`OrderInv` says that everything in flight is in line: reports published are
before what the drive task holds and has not reported, and both before the
queue, which is ascending itself.

`RoverCountProofs` proves what is not bound to the first stop. `Budget` counts:
the permissions (in `driveIsReady`, on the way from the drive and back to it,
and with the busy drive) and the stop that is still to come to the drive are at
most one more than the stops. For `PermissionKept` the last message of
`toControl` matters, because it is the one the next read takes: when it is not
an "R", the drive is in the delay after a stop, and its "R" is still to come
(`LastIsAnswered`). `DistanceInv` is that the distances told, with those that
are still owed (by the vision task, by a stop on its way to the drive, by an
"S" on its way back, by the drive task), are no more than the stops told. Both
need lemmas on how appending to a sequence changes the number of places that
hold a message (`Occurrences`).

It also proves `FirstStopObeyedHolds`. Until the vision task has
decided on the first stop, what the drive has, or is about to get, is what
`currentDriveInstruction` says or, between sending and recording, what the
drive task is about to write there (`Known`). That no other instruction can be
there follows from the count: one permission in all (`OneAtMost`).

`MapStoreProofs` proves `StoreImplementsArchive`, `Spec => WrittenOnce`. The
invariant `Inv`: the types of the tables (`TablesOK`), an id for every name
that is still free (`RoomForNames`), a name occurs once (`NamesOnce`), nothing
is stored under an id that is not given yet (`IdsAheadUnwritten`), and what a
save that is under way will write has not been written (`SaveOK`), because it
found either the id of the row it inserted itself, or -1. Under it each step
leaves `archived` as it is, but for `SaveRover`, which adds the map that is
complete with it.

It also proves the other properties of the map history. `LogInv`: each
row, and the report on its way, is of the run whose log it is in, for the ids
and the versions of the saves only grow. `ResetInv`: of what was reported
before the last reset there is a row or a report on its way, not both; and when
a save comes between the two transactions of a reset, the new log has nothing
old. `KeptInv`: a map that has got the id of which the reset is about to delete
was saved after the reset began. `ShowInv`: a request has got, up to its step, what is wanted of it; that
what is stored does not change meanwhile is `StoreImplementsArchive`'s step.

`SightProofs` proves `TypeOK`, `InStep` and `SentWasSeen`. For `InStep` the
invariant is that, unless the FIFO is full, it holds whole messages behind the
rest of one, and that the words read in this drain and the first of the rest
agree. For `SentWasSeen` it relates the program's counts to `run`, what was
processed last.

`SearchProofs` proves all six properties of `plans_all`, for every `Size` of
the map, any number of obstacles and any start. It starts from the data
structures. A loop that is a recursive function ends where its step changes
nothing, if a measure falls until then (`Terminates`). Swapping two nodes keeps
the table of positions right (`IsHeap`) because the ids on the heap are
distinct, and sifting restores the order of a heap that is out of order at one
place only (`OrderedButUp`, `OrderedButDown`); so insertion, update and removal
each keep it (`HeapIsConsistent`). The invariant of the search, `SearchInv`,
has three parts:

* `Problem`: the edge of the map is an obstacle (so no two nodes of the heap
  share an id, and no neighbour is across the end of a row);
* `Sound`: a tile that was reached has its predecessor among the visited ones,
  one step nearer to the start (`Traced`); its score is its distance so far
  plus the heuristic; no visited tile has a higher score than one on the heap;
* `Settled`: a free neighbour of a visited tile is at most one step further
  than it.

From these, when the search ends, the path read back along `cameFrom` is free
and has as many steps as the score says (`Traced`), and no free path is
shorter: on any free path to the destination there is a first tile that has not
been visited, which is on the heap or the destination itself, and the heuristic
never falls by more than one per step (`SearchIsRight`). The same consistency
gives `VisitedScoresAreFinal`. For the plans, `PlanProofs` shows of
`Instructions`, an iteration over the path, that it leads from tile to tile of
the path (`Leads`: there is a sequence of rovers from the first to the last, one
`After` the other, on tiles of the path); `PlanInv` in `SearchProofs` is that
this is so of the instructions that are left, with the look around at the end
in the discovery modes. Induction is on natural numbers, written out by means
of the least element of a set (`NatLeast`, `NatSetInduction`): the induction
theorems of the library take operators as parameters.

`MissionProofs` proves `MissionIsTyped`, `PlaceIsKnown`, `MapStaysTrue` and
`OpenFieldIsKnown`, for any size of the map, any field, any modes, targets and
distances, any number of requests, and without `Prompt` or `Patient`; all but
the first assume `Careful`.

*Where the rover is.* `DeadReckoning` speaks of moments at which all reports
are handled. The invariant `Reckoned` speaks of all moments. The server's
belief (`Belief`) is its rover, its stash, its map and its half of a stop; a
report changes it as the handler does (`Hears`). The reports on their way lead,
one by one, to the belief the server is about to have (`Told`), and that one
agrees with the rover (`Agrees`): the rover is where this belief expects it, or
is on the way there with the instruction that is the belief's stash. So a step
of the rover lengthens the trail at its end, and a step of the handler takes the
first report off. The hypothesis of `PlaceIsKnown` is `[]StopsAtOnce`: a stop
comes before the rover has driven a tile of its forward. It is not implied by
the code, and cannot be left out: `mission_stop` is its failure and nothing
else. The other hypothesis is `Careful`: a reset comes only when all is over.
Everything else that may happen (dropped messages, panics, new requests while
the rover drives, stops while turning) needs no hypothesis.

*What is on the map.* `Mapped` is the same trail through beliefs that are true
of the field (`TrueBeliefs`), with what the last of them knows of the sightings
(`Sees`): the obstacle sent last is on its map (`Known`), the tiles that its
stash will mark as driven are free (`Clear`), and an obstacle that the rover has
turned to is on the map (`Facing`), so that the tile in front is not taken for
free. `MapStaysTrue` has five hypotheses, the negation of each of which is
something that the code lets happen:

* the obstacles of a field have distinct colours (`DistinctColours`): vision
  does not send the same colour twice in a row, so that a second obstacle of
  the colour sent last is neither reported nor stopped for;
* `[]StopsAtOnce`: otherwise the rover is lost, and an obstacle is put on the
  tile in front of the wrong place;
* `[]NoCollision`: the handler marks a tile it takes the rover to have driven
  to as free;
* `Careful`: otherwise a report of what was driven before the reset is put on
  the new map, at the rover's new place;
* `[][KeepsMap]_vars`: the map is not reset once vision has sent an obstacle
  (vision does not know of the reset, and does not repeat the colour).

`OpenFieldIsKnown` shows that on a field without obstacles, the instance of
`mission_hasty`, all of them but `Careful` hold by themselves: if the map is
reset only when all is over, the rover is known and the map is true whatever
else the operator does.

*That the rover gets there.* `JourneyProofs` proves `NeverCollides` and
`TargetsAreReached`: there is no collision, the server does not panic, its map
is true, it knows where the rover is, and when all is quiet the rover is at its
target or has no way there. These hold together or not at all: a plan avoids
obstacles if the map is true, the map stays true if the rover does not drive
into one, and the rover is where the server expects it if it has been told of
every stop. None of them is assumed, as `MapStaysTrue` assumes `NoCollision`.

The invariant, `Journey`, is about the plan in flight. `Future` is all that is
still to be done, wherever it is: the rest of the instruction the rover
executes, the queue, the topic, and what a request has made and not published.
`Course` says of it that it leads the rover, one instruction after the other,
over tiles inside the map, and not through the obstacle that vision sent last
(`Avoided`), which it will not send again; and that a turn which is not
followed by a forward does not face a tile that is entered later (`Looks`): if
an obstacle is seen there it becomes the one that is not sent again, and the
rest of the plan, which is kept, must not lead there. `Aimed` says where it
ends: at the target, unless a stop is to be answered with another plan.
`Orderly` says that a stop and a plan never cross: what is left of a plan is
thrown away with the stop, and the new one is made when nothing of the old one
is on its way. `Settled` says that a stash is left behind only by a stop. The
server's side is `Told` again, through beliefs that are also fenced (`Fenced`):
nothing outside the inner tiles is ever free on the map, which is why no index
is out of range (`FencedNoPanic`). A stop is answered when it has been told of
in full, and then only a backward can follow it, so that the server's rover is
where the real one is (`ToldBacks`), or where its turn will bring it.

`PlanCourse` is that a plan along a shortest path on such a map is such a
course. It needs three facts of shortest paths, which hold by the stages of
their definition: no tile is entered twice, no tile after the second is next to
the first (`ShortestPathsAreStraight`), and what has no way keeps having none
when fewer tiles are free (`NoWayStays`); and of the instructions, that each
turn is followed by a forward, but for a turn back at the start
(`DriveIsBrisk`), whose first half faces no tile of the path
(`BackFacesOther`).

The hypotheses, with what happens without them, which the code allows:

* `Guided`: `Prompt` (a stop may be decided on a queue that the rest of the plan
  has not reached, or a flush may leave that rest to be driven), `Patient` (two
  plans mix), `Careful` (the stash of before a reset would be applied after
  it), manual drives that only turn (a distance typed in leads anywhere),
  and modes that neither explore nor look around on the way (an obstacle seen
  in a rotation is not sent again);
* `FreeStart`: the rover starts inside the map, on a free tile (the code starts
  it at (5, 5), `map_general.go:41`);
* `DistinctColours`, `[]StopsAtOnce` and `[][KeepsMap]_vars` as above;
* `[]RoomInQueue`: when the end of a plan is dropped by a full queue, the last
  forward stays in the stash, and the next plan starts a move too early;
* for `TargetsAreReached`, `[][KeepsTarget]_vars`: a reset puts the rover back at
  the start, and the server keeps the target.

`mission_target` is an instance that satisfies all of them; the theorems add any
size of the map, any number of obstacles and of requests, paths of any length
with legs of any length, and stops at any of them.

The proofs go action by action and assume of the constants what the modules'
`ASSUME`s state: a queue of at least one place, bounds that are naturals, a
finite set of names, an interval within the frame counter, starts that are on
the map, obstacles on tiles and of the six colours. In particular they hold
for the queue of 50 and any number of instructions, for the map of 12 by 12,
for any number of maps, and for a FIFO of 256 words with the real intervals and
counts.

Only model-checked: the liveness properties, and those of the form "leads to".
Liveness under fairness is out of the prover's reach (`QueueDrains`, `EndIsReported`,
`MissionEnds`, `StandingReported`, `FirstObstacleHeard`, `BootNeverHangs`). Every
invariant that a passing run checks is a theorem too. Of the theorems about
`Mission`, what is assumed beyond the specification is named above; whether the
surroundings justify it is not a question about the code.

## Not modelled

Motion control (`move_*.cpp`, `speed.cpp`, `smps.cpp`, `optical_flow.cpp`) is
numeric and in real time: floating-point PID loops whose one outcome for the
rest of the system, a move that is done or goes on, is the parameter of
`Drive`'s `ContinueInstruction`. The pixel pipelines of the image processing
(colour arithmetic, bounding boxes) are reduced to views; stream registers,
keys and console commands set gains and thresholds and are left out. `FIR.c`
and `queue.c` of the vision board are not called by its program. The energy
readings are passed on as text and kept as the last of each kind; no decision
depends on them. The web page keeps no state that another part depends on. HTTP
plumbing and credentials have no behaviour over time. Of the server, two
planning requests at a time and the texts of the feed are left out;
`getUndiscoveredRectangles` is called only by its test.

Most lines of the repository are none of the program's own logic: the board
support package and the drivers of the vision board's soft processor (vendored
or generated, more than half of all lines of C, Go and JavaScript), the
register tables and bus code of the camera, prototypes, and the page's drawing.
A model of them would say nothing about this rover, so the definitions cover a
small share of all lines, although they cover the boards' tasks, the server's
handlers, the planner, the map history and the vision program themselves.
