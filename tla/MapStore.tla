------------------------------ MODULE MapStore -------------------------------
(***************************************************************************)
(* The map history of the command server: four tables of a SQLite database *)
(* (SQLdb.go) and the handlers that write and read them.                   *)
(*                                                                         *)
(* Every statement of a handler runs in a transaction of its own, which    *)
(* may fail; most errors are logged and the handler goes on.  The feedback *)
(* handler and the three HTTP handlers run in goroutines of their own, so  *)
(* that any step may fall between two of another handler.  A restart loses *)
(* the memory and the handlers, never the tables: OpenHttpServer makes the *)
(* handler of a reset (HTTPServer.go:32) and does not call it.             *)
(*                                                                         *)
(* Map and Rover are one number, raised by each change of either.  An      *)
(* instruction is known by the number of the map it was reported on.       *)
(***************************************************************************)
EXTENDS Integers, Sequences, SequencesExt, FiniteSets

CONSTANTS
  Names,        \* the names under which maps are saved, each used once
  Earlier,      \* the name of a map saved by an earlier server
  Unknown,      \* no rover, no expectation
  MaxVersion,   \* bound: changes of the map in memory
  MaxActs,      \* bound: saves, resets and requests from the history page
  MaxFaults     \* bound: transactions that fail, and restarts of the server

ASSUME MapStoreAssumption ==
  /\ Earlier \notin Names /\ Unknown \notin Names \cup Nat
  /\ IsFiniteSet(Names)
  /\ {MaxVersion, MaxActs, MaxFaults} \subseteq Nat

VARIABLES
  maps,         \* table maps: the names; the id of a map is its place
  tileRows,     \* table tiles: per id, the maps inserted, oldest first
  roverRows,    \* table rover: per id, its primary key
  logRows,      \* table instructions: the rows, in the order of "from"
  version,      \* Map and Rover
  dbMap,        \* the map loaded last; its log is what each query has added
  report,       \* the feedback handler, storing an instruction
  save,         \* the handler of a save
  reset,        \* the handler of a reset
  request,      \* the handler of a request; "done" until the page loads
  savedAt,      \* history: the version when a name was saved
  lastReset,    \* history: the version the last successful reset made
  budget        \* names still free; acts and faults so far

tables == <<maps, tileRows, roverRows, logRows>>
memory == <<version, dbMap>>
handlers == <<report, save, reset, request>>
history == <<savedAt, lastReset>>
vars == <<tables, memory, handlers, history, budget>>

Ids == -1..(2 + Cardinality(Names))
Versions == 0..MaxVersion

NoMap == [tiles |-> Unknown, rover |-> Unknown, log |-> <<>>]
Idle == [step |-> "idle"]

TypeOK ==
  /\ maps \in Seq(Names \cup {Earlier})
  /\ tileRows \in [Ids -> Seq(Versions)]
  /\ roverRows \in [Ids -> Versions \cup {Unknown}]
  /\ logRows \subseteq [map : Ids, from : Versions]
  /\ version \in Versions
  /\ DOMAIN dbMap = DOMAIN NoMap
  /\ report.step \in {"idle", "insert"}
  /\ save.step \in {"idle", "id", "tiles", "rover"}
  /\ reset.step \in {"idle", "id", "delete"}
  /\ request.step \in {"idle", "tiles", "rover", "log", "done"}
  /\ savedAt \in Seq(Versions) /\ Len(savedAt) = Len(maps)
  /\ lastReset \in Versions
  /\ budget.names \subseteq Names

\* The database is empty, or has a map of an earlier server.
Init ==
  /\ \E old \in {<<>>, <<Earlier>>} :
       /\ maps = old
       /\ tileRows = [id \in Ids |-> IF id \in DOMAIN old THEN <<0>> ELSE <<>>]
       /\ roverRows = [id \in Ids |-> IF id \in DOMAIN old THEN 0 ELSE Unknown]
       /\ savedAt = [id \in DOMAIN old |-> 0]
  /\ logRows = {}
  /\ version = 0
  /\ dbMap = NoMap
  /\ report = Idle /\ save = Idle /\ reset = Idle /\ request = Idle
  /\ lastReset = 0
  /\ budget = [names |-> Names, acts |-> 0, faults |-> 0]

-----------------------------------------------------------------------------
\* The instructions of the map id, of the rows given.
LogOf(rows, id) == {row \in rows : row.map = id}

\* Mutant: the id the next map will get, to which another 1 is added.
LatestMapID_Next == IF maps = <<>> THEN -1 ELSE Len(maps) + 1

\* max(mapID) of an empty table is NULL: an error, and -1.
LatestMapID == IF maps = <<>> THEN -1 ELSE Len(maps)

\* Mutant: whichever map was saved last.
MapID_Latest(name) == LatestMapID

\* The first map of that name; -1 with an error when there is none.
MapID(name) ==
  IF name \in ToSet(maps)
  THEN CHOOSE i \in DOMAIN maps :
         maps[i] = name /\ \A j \in 1..(i - 1) : maps[j] # name
  ELSE -1

\* All of a map can be loaded.
Complete(id) ==
  id \in DOMAIN maps /\ tileRows[id] # <<>> /\ roverRows[id] # Unknown

Stored(id) == [tiles |-> Last(tileRows[id]), rover |-> roverRows[id]]

\* A transaction that succeeds or, after a rollback, fails; from what is left
\* of the budget.
TransactFrom(b, ok) ==
  /\ ok \/ b.faults < MaxFaults
  /\ budget' = [b EXCEPT !.faults = IF ok THEN @ ELSE @ + 1]

Transact(ok) == TransactFrom(budget, ok)

\* The first transaction of a handler that the operator calls.
Act(ok) ==
  budget.acts < MaxActs /\ TransactFrom([budget EXCEPT !.acts = @ + 1], ok)

\* The map in memory is changed.
Change == version < MaxVersion /\ version' = version + 1

-----------------------------------------------------------------------------
(***************************************************************************)
(* storeInstruction, of updateMap and stop: the id is read in one          *)
(* transaction and used in the next; then the map in memory changes.       *)
(***************************************************************************)
ReportBegin(ok) ==
  /\ report.step = "idle"
  /\ Transact(ok)
  /\ report' = [step |-> "insert", from |-> version,
                id |-> IF ok THEN LatestMapID ELSE -1]
  /\ UNCHANGED <<tables, memory, save, reset, request, history>>

\* Mutant: instructions go to the log of the map saved last.
ReportInsert_LogOfLast(ok) ==
  /\ report.step = "insert"
  /\ Transact(ok)
  /\ Change
  /\ logRows' = IF ok THEN logRows \cup {[map |-> report.id, from |-> report.from]}
                ELSE logRows
  /\ report' = Idle
  /\ UNCHANGED <<maps, tileRows, roverRows, dbMap, save, reset, request, history>>

ReportInsert(ok) ==
  /\ report.step = "insert"
  /\ Transact(ok)
  /\ Change
  /\ logRows' = IF ok THEN logRows \cup {[map |-> report.id + 1, from |-> report.from]}
                ELSE logRows
  /\ report' = Idle
  /\ UNCHANGED <<maps, tileRows, roverRows, dbMap, save, reset, request, history>>

-----------------------------------------------------------------------------
(***************************************************************************)
(* save.  No error ends the handler; without an id the tiles and the rover *)
(* are stored under -1.                                                    *)
(***************************************************************************)
Save(name, ok) ==
  /\ save.step = "idle"
  /\ name \in budget.names
  /\ budget.acts < MaxActs
  /\ TransactFrom([budget EXCEPT !.acts = @ + 1, !.names = @ \ {name}], ok)
  /\ maps' = IF ok THEN Append(maps, name) ELSE maps
  /\ savedAt' = IF ok THEN Append(savedAt, version) ELSE savedAt
  /\ save' = [step |-> "id", name |-> name]
  /\ UNCHANGED <<tileRows, roverRows, logRows, memory, report, reset, request, lastReset>>

GetSavedID(ok) ==
  /\ save.step = "id"
  /\ Transact(ok)
  /\ save' = [step |-> "tiles", id |-> IF ok THEN MapID(save.name) ELSE -1]
  /\ UNCHANGED <<tables, memory, report, reset, request, history>>

\* insertMap: the 144 tiles in one transaction.
InsertMap(ok) ==
  /\ save.step = "tiles"
  /\ Transact(ok)
  /\ tileRows' = IF ok THEN [tileRows EXCEPT ![save.id] = Append(@, version)] ELSE tileRows
  /\ save' = [step |-> "rover", id |-> save.id]
  /\ UNCHANGED <<maps, roverRows, logRows, memory, report, reset, request, history>>

\* saveRover: a second row for a map violates the primary key.
SaveRover(ok) ==
  /\ save.step = "rover"
  /\ Transact(ok)
  /\ roverRows' = IF ok /\ roverRows[save.id] = Unknown
                  THEN [roverRows EXCEPT ![save.id] = version] ELSE roverRows
  /\ save' = Idle
  /\ UNCHANGED <<maps, tileRows, logRows, memory, report, reset, request, history>>

-----------------------------------------------------------------------------
(***************************************************************************)
(* resetMap: the map in memory, the log last loaded, and the instructions  *)
(* logged since the last save.  A request under way can no longer be       *)
(* expected to give what is stored.                                        *)
(***************************************************************************)
ResetMap ==
  /\ reset.step = "idle"
  /\ Act(TRUE)
  /\ Change
  /\ reset' = [step |-> "id", made |-> version + 1]
  /\ UNCHANGED <<tables, dbMap, report, save, request, history>>

Spoil(r) == IF r.step = "idle" THEN r ELSE [r EXCEPT !.want = Unknown]

GetResetID(ok) ==
  /\ reset.step = "id"
  /\ Transact(ok)
  /\ reset' = [step |-> "delete", made |-> IF ok THEN reset.made ELSE lastReset,
               id |-> IF ok THEN LatestMapID ELSE -1]
  /\ dbMap' = [dbMap EXCEPT !.log = <<>>]
  /\ request' = Spoil(request)
  /\ UNCHANGED <<tables, version, report, save, history>>

\* Mutant: the instructions of the map saved last are deleted.
ResetInstructions_OfLast(ok) ==
  /\ reset.step = "delete"
  /\ Transact(ok)
  /\ logRows' = IF ok THEN logRows \ LogOf(logRows, reset.id) ELSE logRows
  /\ lastReset' = IF ok THEN reset.made ELSE lastReset
  /\ reset' = Idle
  /\ UNCHANGED <<maps, tileRows, roverRows, memory, report, save, request, savedAt>>

ResetInstructions(ok) ==
  /\ reset.step = "delete"
  /\ Transact(ok)
  /\ logRows' = IF ok THEN logRows \ LogOf(logRows, reset.id + 1) ELSE logRows
  /\ lastReset' = IF ok THEN reset.made ELSE lastReset
  /\ reset' = Idle
  /\ UNCHANGED <<maps, tileRows, roverRows, memory, report, save, request, savedAt>>

-----------------------------------------------------------------------------
(***************************************************************************)
(* requestMap: a query without rows, or that fails, leaves what was loaded *)
(* before.  "want" is what is stored of a complete map, as long as nothing *)
(* fails on the way.  A request that does not wait until the page has      *)
(* loaded the map it asked for before may get that map's log as well:      *)
(* nothing is expected of it.                                              *)
(***************************************************************************)
RequestMap(name, ok) ==
  /\ request.step \in {"idle", "done"}
  /\ Act(ok)
  /\ LET id == IF ok THEN MapID(name) ELSE -1
     IN  request' = [step |-> "tiles", id |-> id,
                     want |-> IF request.step = "idle" /\ Complete(id)
                              THEN Stored(id) ELSE Unknown]
  /\ UNCHANGED <<tables, memory, report, save, reset, history>>

\* The next step; a transaction that failed spoils the request.
Go(step, ok) == request' = [(IF ok THEN request ELSE Spoil(request)) EXCEPT !.step = step]

RetriveMap(ok) ==
  /\ request.step = "tiles"
  /\ Transact(ok)
  /\ dbMap' = IF ok /\ tileRows[request.id] # <<>>
              THEN [dbMap EXCEPT !.tiles = Last(tileRows[request.id])] ELSE dbMap
  /\ Go("rover", ok)
  /\ UNCHANGED <<tables, version, report, save, reset, history>>

RetriveRover(ok) ==
  /\ request.step = "rover"
  /\ Transact(ok)
  /\ dbMap' = IF ok /\ roverRows[request.id] # Unknown
              THEN [dbMap EXCEPT !.rover = roverRows[request.id]] ELSE dbMap
  /\ Go("log", ok)
  /\ UNCHANGED <<tables, version, report, save, reset, history>>

RetriveInstruction(ok) ==
  /\ request.step = "log"
  /\ Transact(ok)
  /\ dbMap' = IF ok THEN [dbMap EXCEPT !.log = Append(@, LogOf(logRows, request.id))] ELSE dbMap
  /\ request' = [step |-> "done",
                 want |-> IF ok /\ request.want # Unknown
                          THEN [tiles |-> request.want.tiles, rover |-> request.want.rover,
                                log |-> <<LogOf(logRows, request.id)>>]
                          ELSE Unknown]
  /\ UNCHANGED <<tables, version, report, save, reset, history>>

\* What is left of a request when the page has loaded.
Loaded(r) == IF r.step = "done" THEN Idle ELSE Spoil(r)

\* Mutant: the log loaded stays.
LoadMap_KeepsLog ==
  /\ request.step # "idle"
  /\ request' = Loaded(request)
  /\ UNCHANGED <<tables, memory, report, save, reset, history, budget>>

\* The page loads the map three seconds after its request, answered or not.
LoadMap ==
  /\ request.step # "idle"
  /\ dbMap' = [dbMap EXCEPT !.log = <<>>]
  /\ request' = Loaded(request)
  /\ UNCHANGED <<tables, version, report, save, reset, history, budget>>

-----------------------------------------------------------------------------
Restart ==
  /\ Transact(FALSE)
  /\ Change
  /\ dbMap' = NoMap
  /\ report' = Idle /\ save' = Idle /\ reset' = Idle /\ request' = Idle
  /\ UNCHANGED <<tables, history>>

Next ==
  \/ \E ok \in BOOLEAN :
       \/ ReportBegin(ok) \/ ReportInsert(ok)
       \/ \E name \in Names : Save(name, ok)
       \/ \E name \in Names \cup {Earlier} : RequestMap(name, ok)
       \/ GetSavedID(ok) \/ InsertMap(ok) \/ SaveRover(ok)
       \/ GetResetID(ok) \/ ResetInstructions(ok)
       \/ RetriveMap(ok) \/ RetriveRover(ok) \/ RetriveInstruction(ok)
  \/ ResetMap
  \/ LoadMap
  \/ Restart

Spec == Init /\ [][Next]_vars

-----------------------------------------------------------------------------
(***************************************************************************)
(* The detailed store implements the archive: a map is there once its      *)
(* tiles and its rover are, and from then on no handler, failure or        *)
(* restart changes what it is (SQLdb.go:19-81, HTTPPost.go:186-212).       *)
(***************************************************************************)
archived == [id \in {i \in DOMAIN maps : Complete(i)} |-> Stored(id)]

Archived == INSTANCE Archive WITH
              Ids <- Ids,
              Maps <- [tiles : Versions, rover : Versions],
              archive <- archived

WrittenOnce == Archived!Spec

(***************************************************************************)
(* The log of a saved map holds instructions reported between the save     *)
(* before it and its own, however reports and saves interleave             *)
(* (SQLdb.go:188-219: the id is read in one transaction and used in        *)
(* another).                                                               *)
(***************************************************************************)
LogOfOwnRun ==
  \A row \in logRows :
    /\ row.map \in DOMAIN maps => row.from <= savedAt[row.map]
    /\ row.map - 1 \in DOMAIN maps => row.from >= savedAt[row.map - 1]

(***************************************************************************)
(* After a reset the log of the map being driven starts anew, but for the  *)
(* one report that may have been on its way (HTTPPost.go:137-146).         *)
(***************************************************************************)
ResetLeavesOne ==
  Cardinality({row \in LogOf(logRows, LatestMapID + 1) :
                 row.from < lastReset}) <= 1

(***************************************************************************)
(* A reset takes no instruction from the log of a map that was saved       *)
(* before the reset began; the map of a save that comes between its steps  *)
(* may lose its log (HTTPPost.go:137-146, SQLdb.go:266).                   *)
(***************************************************************************)
SavedLogsKept ==
  [][\A row \in logRows \ logRows' :
       row.map \in DOMAIN maps => savedAt[row.map] >= reset.made]_vars

(***************************************************************************)
(* What the history page gets of a complete map is what is stored of it,   *)
(* with its own log and nothing of the map shown before, unless a          *)
(* transaction of the request fails, a reset falls into it, or the page    *)
(* has not waited for the map before (HTTPPost.go:166-181,                 *)
(* HTTPGet.go:94-101).                                                     *)
(***************************************************************************)
ShownIsSaved ==
  request.step = "done" /\ request.want # Unknown => dbMap = request.want

=============================================================================
