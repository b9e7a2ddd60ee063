--------------------------- MODULE MapStoreProofs ---------------------------
(***************************************************************************)
(* The detailed map history implements the archive that is written once,   *)
(* for every set of names and every bound.                                 *)
(*                                                                         *)
(* The argument: a name is used once, so that the id a save finds for its  *)
(* name is that of the row it inserted itself, or -1; until the save ends, *)
(* nobody has stored a rover under that id; and what has a rover is never  *)
(* written again.                                                          *)
(***************************************************************************)
EXTENDS MapStore, FiniteSetTheorems, SequenceTheorems, TLAPS

AllNames == Names \cup {Earlier}

TablesOK ==
  /\ maps \in Seq(AllNames)
  /\ tileRows \in [Ids -> Seq(Versions)]
  /\ roverRows \in [Ids -> Versions \cup {Unknown}]
  /\ version \in Versions
  /\ budget \in [names : SUBSET Names, acts : Nat, faults : Nat]

\* There is an id for every name that is still free.
RoomForNames == Len(maps) + Cardinality(budget.names) <= 1 + Cardinality(Names)

NamesOnce ==
  /\ \A i \in DOMAIN maps : maps[i] \notin budget.names
  /\ \A i, j \in DOMAIN maps : maps[i] = maps[j] => i = j

Unwritten(id) == tileRows[id] = <<>> /\ roverRows[id] = Unknown

IdsAheadUnwritten == \A id \in Ids : id > Len(maps) => Unwritten(id)

SaveOK ==
  \/ save = Idle
  \/ /\ save = [step |-> "id", name |-> save.name]
     /\ save.name \in Names \ budget.names
     /\ \A i \in DOMAIN maps : maps[i] = save.name => Unwritten(i)
  \/ /\ save = [step |-> "tiles", id |-> save.id]
     /\ save.id = -1 \/ (save.id \in DOMAIN maps /\ Unwritten(save.id))
  \/ /\ save = [step |-> "rover", id |-> save.id]
     /\ save.id = -1 \/ (save.id \in DOMAIN maps /\ roverRows[save.id] = Unknown)

Inv == TablesOK /\ RoomForNames /\ NamesOnce /\ IdsAheadUnwritten /\ SaveOK

\* What the archive is made of does not change.
Same == UNCHANGED <<maps, tileRows, roverRows>>

-----------------------------------------------------------------------------
LEMMA IdRange ==
  /\ Ids \subseteq Int /\ -1 \in Ids
  /\ \A F \in SUBSET Names : IsFiniteSet(F) /\ Cardinality(F) \in Nat
  /\ \A F \in SUBSET Names, n \in Nat :
       n + Cardinality(F) <= 1 + Cardinality(Names) => 1..n \subseteq Ids
<1>1. Cardinality(Names) \in Nat
  BY MapStoreAssumption, FS_CardinalityType
<1>2. \A F \in SUBSET Names : IsFiniteSet(F) /\ Cardinality(F) \in Nat
  BY MapStoreAssumption, FS_Subset, FS_CardinalityType
<1>. QED
  BY <1>1, <1>2 DEF Ids

LEMMA BudgetKept ==
  ASSUME TablesOK, NEW ok \in BOOLEAN, NEW b, b \in [names : SUBSET Names, acts : Nat, faults : Nat],
         TransactFrom(b, ok)
  PROVE  budget' \in [names : SUBSET Names, acts : Nat, faults : Nat] /\ budget'.names = b.names
BY DEF TransactFrom

\* The steps that write neither maps nor tiles nor rovers and are no steps of
\* a save.
LEMMA OthersKeepInv ==
  ASSUME Inv, Same, UNCHANGED save, version' \in Versions,
         budget' \in [names : SUBSET Names, acts : Nat, faults : Nat],
         budget'.names = budget.names
  PROVE  Inv'
<1>1. TablesOK'
  BY DEF Inv, TablesOK, Same
<1>2. RoomForNames'
  BY DEF Inv, RoomForNames, Same
<1>3. NamesOnce'
  BY DEF Inv, NamesOnce, Same
<1>4. IdsAheadUnwritten'
  BY DEF Inv, IdsAheadUnwritten, Unwritten, Same
<1>5. SaveOK'
  BY DEF Inv, SaveOK, Unwritten, Same
<1>. QED
  BY <1>1, <1>2, <1>3, <1>4, <1>5 DEF Inv

LEMMA InitInv == Init => Inv
<1>. SUFFICES ASSUME Init PROVE Inv
  OBVIOUS
<1>1. PICK old \in {<<>>, <<Earlier>>} :
        /\ maps = old
        /\ tileRows = [id \in Ids |-> IF id \in DOMAIN old THEN <<0>> ELSE <<>>]
        /\ roverRows = [id \in Ids |-> IF id \in DOMAIN old THEN 0 ELSE Unknown]
  BY DEF Init
<1>2. maps \in Seq(AllNames) /\ Len(maps) \in {0, 1} /\ DOMAIN maps = 1..Len(maps)
  <2>1. CASE old = <<>>
    BY <1>1, <2>1
  <2>2. CASE old = <<Earlier>>
    <3>1. Earlier \in AllNames
      BY DEF AllNames
    <3>. QED
      BY <1>1, <2>2, <3>1
  <2>. QED
    BY <2>1, <2>2
<1>3. 0 \in Versions /\ version \in Versions
  BY MapStoreAssumption DEF Init, Versions
<1>4. budget = [names |-> Names, acts |-> 0, faults |-> 0]
  BY DEF Init
<1>5. TablesOK
  <2>1. tileRows \in [Ids -> Seq(Versions)]
    <3>1. <<0>> \in Seq(Versions) /\ <<>> \in Seq(Versions)
      BY <1>3
    <3>. QED
      BY <1>1, <3>1
  <2>2. roverRows \in [Ids -> Versions \cup {Unknown}]
    BY <1>1, <1>3
  <2>. QED
    BY <1>2, <1>3, <1>4, <2>1, <2>2 DEF TablesOK
<1>6. RoomForNames
  BY <1>2, <1>4, MapStoreAssumption, FS_CardinalityType DEF RoomForNames
<1>7. NamesOnce
  <2>1. \A i \in DOMAIN maps : i = 1 /\ maps[i] = Earlier
    BY <1>1
  <2>. QED
    BY <2>1, <1>4, MapStoreAssumption DEF NamesOnce
<1>8. IdsAheadUnwritten
  <2>. SUFFICES ASSUME NEW id \in Ids, id > Len(maps)
                PROVE  Unwritten(id)
    BY DEF IdsAheadUnwritten
  <2>1. id \notin DOMAIN maps
    BY <1>2
  <2>. QED
    BY <1>1, <2>1 DEF Unwritten
<1>9. SaveOK
  BY DEF Init, SaveOK
<1>. QED
  BY <1>5, <1>6, <1>7, <1>8, <1>9 DEF Inv

LEMMA PaidFor ==
  ASSUME NEW b \in [names : SUBSET Names, acts : Nat, faults : Nat], NEW x
  PROVE  LET paid == [b EXCEPT !.acts = @ + 1, !.names = @ \ {x}]
         IN  /\ paid \in [names : SUBSET Names, acts : Nat, faults : Nat]
             /\ paid.names = b.names \ {x}
<1>. DEFINE N == b.names \ {x}
            p == [b EXCEPT !.acts = @ + 1, !.names = N]
<1>1. N \in SUBSET Names /\ b.acts + 1 \in Nat /\ b.faults \in Nat
  OBVIOUS
<1>. HIDE DEF N
<1>2. p \in [names : SUBSET Names, acts : Nat, faults : Nat] /\ p.names = N
  BY <1>1
<1>. QED
  BY <1>2 DEF N

\* The row of a name that is inserted gets an id that was never used.
LEMMA SaveKeepsInv ==
  ASSUME Inv, NEW name \in Names, NEW ok \in BOOLEAN, Save(name, ok)
  PROVE  Inv'
<1>. DEFINE paid == [budget EXCEPT !.acts = @ + 1, !.names = @ \ {name}]
<1>1. paid \in [names : SUBSET Names, acts : Nat, faults : Nat]
      /\ paid.names = budget.names \ {name} /\ name \in budget.names
  <2>1. budget \in [names : SUBSET Names, acts : Nat, faults : Nat]
    BY DEF Inv, TablesOK
  <2>2. name \in budget.names
    BY DEF Save
  <2>. QED
    BY <2>1, <2>2, PaidFor
<1>2. budget' \in [names : SUBSET Names, acts : Nat, faults : Nat]
      /\ budget'.names = budget.names \ {name}
  <2>1. TransactFrom(paid, ok)
    BY DEF Save
  <2>. HIDE DEF paid
  <2>2. TablesOK
    BY DEF Inv
  <2>. QED
    BY <1>1, <2>1, <2>2, BudgetKept
<1>3. UNCHANGED <<tileRows, roverRows, version>>
  BY DEF Save, memory
<1>4. maps \in Seq(AllNames) /\ name \in AllNames
  BY DEF Inv, TablesOK, AllNames
<1>5. maps' = (IF ok THEN Append(maps, name) ELSE maps)
      /\ save' = [step |-> "id", name |-> name]
  BY DEF Save
<1>6. /\ maps' \in Seq(AllNames)
      /\ Len(maps') \in {Len(maps), Len(maps) + 1} /\ Len(maps) \in Nat
      /\ DOMAIN maps' = 1..Len(maps') /\ DOMAIN maps = 1..Len(maps)
      /\ \A i \in DOMAIN maps' : i \in DOMAIN maps => maps'[i] = maps[i]
      /\ \A i \in DOMAIN maps' : i \notin DOMAIN maps => i = Len(maps) + 1 /\ maps'[i] = name
  BY <1>4, <1>5
<1>7. TablesOK'
  BY <1>2, <1>3, <1>6 DEF Inv, TablesOK
<1>8. RoomForNames'
  <2>. DEFINE free == budget.names
  <2>1. IsFiniteSet(free) /\ name \in free
    BY <1>1, IdRange DEF Inv, TablesOK
  <2>. HIDE DEF free
  <2>2. Cardinality(free \ {name}) = Cardinality(free) - 1
    BY <2>1, FS_RemoveElement
  <2>3. Cardinality(free) \in Nat /\ Cardinality(Names) \in Nat
    BY <2>1, MapStoreAssumption, FS_CardinalityType
  <2>4. Len(maps) + Cardinality(free) <= 1 + Cardinality(Names)
    BY DEF Inv, RoomForNames, free
  <2>5. Len(maps') + Cardinality(free \ {name}) <= 1 + Cardinality(Names)
    <3>. DEFINE l == Len(maps)
                l2 == Len(maps')
                c == Cardinality(free)
                c2 == Cardinality(free \ {name})
                n == Cardinality(Names)
    <3>1. l2 \in {l, l + 1} /\ l \in Nat /\ c2 = c - 1 /\ c \in Nat /\ n \in Nat
          /\ l + c <= 1 + n
      BY <1>6, <2>2, <2>3, <2>4
    <3>. HIDE DEF l, l2, c, c2, n
    <3>2. l2 + c2 <= 1 + n
      BY <3>1
    <3>. QED
      BY <3>2 DEF l2, c2, n
  <2>. QED
    BY <1>2, <2>5 DEF RoomForNames, free
<1>9. NamesOnce'
  <2>1. \A i \in DOMAIN maps : maps[i] # name /\ maps[i] \notin budget.names
    BY <1>1 DEF Inv, NamesOnce
  <2>2. \A i \in DOMAIN maps' : maps'[i] \notin budget'.names
    BY <1>2, <1>6, <2>1
  <2>3. \A i, j \in DOMAIN maps' : maps'[i] = maps'[j] => i = j
    BY <1>6, <2>1 DEF Inv, NamesOnce
  <2>. QED
    BY <2>2, <2>3 DEF NamesOnce
<1>10. IdsAheadUnwritten'
  <2>. SUFFICES ASSUME NEW id \in Ids, id > Len(maps')
                PROVE  Unwritten(id)'
    BY DEF IdsAheadUnwritten, Ids
  <2>0. id \in Int
    BY IdRange
  <2>1. id > Len(maps)
    <3>. DEFINE l == Len(maps)
                l2 == Len(maps')
    <3>1. l \in Nat /\ l2 \in {l, l + 1} /\ id > l2
      BY <1>6
    <3>. HIDE DEF l, l2
    <3>2. id > l
      BY <3>1, <2>0
    <3>. QED
      BY <3>2 DEF l
  <2>. QED
    BY <1>3, <2>1 DEF Inv, IdsAheadUnwritten, Unwritten
<1>11. SaveOK'
  <2>1. \A i \in DOMAIN maps' : maps'[i] = name => Unwritten(i)
    <3>. SUFFICES ASSUME NEW i \in DOMAIN maps', maps'[i] = name
                  PROVE  Unwritten(i)
      OBVIOUS
    <3>1. i = Len(maps) + 1
      BY <1>1, <1>6 DEF Inv, NamesOnce
    <3>2. i \in Ids
      <4>1. budget'.names \in SUBSET Names /\ Len(maps') \in Nat
        <5>1. Len(maps') \in Nat
          BY <1>6, LenProperties
        <5>. QED
          BY <1>2, <5>1
      <4>2. 1..Len(maps') \subseteq Ids
        <5>. DEFINE F == budget'.names
                    n == Len(maps')
        <5>1. F \in SUBSET Names /\ n \in Nat /\ n + Cardinality(F) <= 1 + Cardinality(Names)
          BY <1>8, <4>1 DEF RoomForNames
        <5>. HIDE DEF F, n
        <5>2. 1..n \subseteq Ids
          BY <5>1, IdRange
        <5>. QED
          BY <5>2 DEF n
      <4>. QED
        BY <1>6, <4>2
    <3>3. i > Len(maps)
      <4>. DEFINE l == Len(maps)
      <4>1. l \in Nat /\ i = l + 1
        BY <1>6, <3>1
      <4>. HIDE DEF l
      <4>2. i > l
        BY <4>1
      <4>. QED
        BY <4>2 DEF l
    <3>4. IdsAheadUnwritten
      BY DEF Inv
    <3>. QED
      BY <3>2, <3>3, <3>4 DEF IdsAheadUnwritten
  <2>2. \A i \in DOMAIN maps' : maps'[i] = name => Unwritten(i)'
    BY <2>1, <1>3 DEF Unwritten
  <2>. QED
    BY <1>2, <1>5, <2>2 DEF SaveOK
<1>. QED
  BY <1>7, <1>8, <1>9, <1>10, <1>11 DEF Inv

\* The id found for a name is that of the one row with that name.
LEMMA MapIDFinds ==
  ASSUME Inv, NEW name
  PROVE  MapID(name) = -1 \/ (MapID(name) \in DOMAIN maps /\ maps[MapID(name)] = name)
<1>1. CASE name \notin ToSet(maps)
  BY <1>1 DEF MapID
<1>2. CASE name \in ToSet(maps)
  <2>. DEFINE First(i) == maps[i] = name /\ \A j \in 1..(i - 1) : maps[j] # name
  <2>1. PICK i \in DOMAIN maps : maps[i] = name
    BY <1>2 DEF ToSet
  <2>2. DOMAIN maps = 1..Len(maps) /\ Len(maps) \in Nat
    BY DEF Inv, TablesOK
  <2>3. \A j \in 1..(i - 1) : j \in DOMAIN maps /\ j # i
    <3>. DEFINE l == Len(maps)
    <3>1. i \in 1..l /\ l \in Nat /\ DOMAIN maps = 1..l
      BY <2>1, <2>2
    <3>. HIDE DEF l
    <3>. QED
      BY <3>1
  <2>4. First(i)
    BY <2>1, <2>3 DEF Inv, NamesOnce
  <2>5. MapID(name) = CHOOSE k \in DOMAIN maps : First(k)
    BY <1>2 DEF MapID
  <2>. HIDE DEF First
  <2>6. MapID(name) \in DOMAIN maps /\ First(MapID(name))
    BY <2>1, <2>4, <2>5
  <2>. QED
    BY <2>6 DEF First
<1>. QED
  BY <1>1, <1>2

LEMMA GetSavedIDKeepsInv ==
  ASSUME Inv, NEW ok \in BOOLEAN, GetSavedID(ok)
  PROVE  Inv' /\ Same
<1>1. UNCHANGED <<maps, tileRows, roverRows, version>>
  BY DEF GetSavedID, tables, memory
<1>2. budget' \in [names : SUBSET Names, acts : Nat, faults : Nat]
      /\ budget'.names = budget.names
  BY BudgetKept DEF GetSavedID, Transact, Inv, TablesOK
<1>3. /\ save.name \in Names
      /\ \A i \in DOMAIN maps : maps[i] = save.name => Unwritten(i)
  BY DEF Inv, SaveOK, GetSavedID, Idle
<1>. DEFINE id == IF ok THEN MapID(save.name) ELSE -1
<1>4. save' = [step |-> "tiles", id |-> id]
  BY DEF GetSavedID
<1>5. id = -1 \/ (id \in DOMAIN maps /\ Unwritten(id))
  BY <1>3, MapIDFinds
<1>. HIDE DEF id
<1>6. SaveOK'
  BY <1>1, <1>4, <1>5 DEF SaveOK, Unwritten
<1>7. TablesOK' /\ RoomForNames' /\ NamesOnce' /\ IdsAheadUnwritten'
  BY <1>1, <1>2 DEF Inv, TablesOK, RoomForNames, NamesOnce, IdsAheadUnwritten, Unwritten
<1>. QED
  BY <1>1, <1>6, <1>7 DEF Inv, Same

\* The id of a save is never one that is still to come.
LEMMA IdNotAhead ==
  ASSUME Inv, NEW id, id = -1 \/ id \in DOMAIN maps
  PROVE  id \in Ids /\ ~(id > Len(maps))
<1>. DEFINE l == Len(maps)
            F == budget.names
<1>1. DOMAIN maps = 1..l /\ l \in Nat
  BY DEF Inv, TablesOK
<1>2. F \in SUBSET Names /\ l + Cardinality(F) <= 1 + Cardinality(Names)
  BY DEF Inv, TablesOK, RoomForNames
<1>. HIDE DEF l, F
<1>3. 1..l \subseteq Ids /\ -1 \in Ids
  BY <1>1, <1>2, IdRange
<1>4. id \in Ids
  BY <1>1, <1>3
<1>5. ~(id > l)
  BY <1>1
<1>. QED
  BY <1>4, <1>5 DEF l

LEMMA DomainInIds == Inv => DOMAIN maps \subseteq Ids
BY IdNotAhead

LEMMA DomainInIdsNext == Inv' => DOMAIN maps' \subseteq Ids
<1>1. (Inv => DOMAIN maps \subseteq Ids)'
  BY DomainInIds, PTL
<1>. QED
  BY <1>1 DEF Ids

LEMMA InsertMapKeepsInv ==
  ASSUME Inv, NEW ok \in BOOLEAN, InsertMap(ok)
  PROVE  /\ Inv'
         /\ UNCHANGED <<maps, roverRows>>
         /\ save.id = -1 \/ (save.id \in DOMAIN maps /\ roverRows[save.id] = Unknown)
         /\ \A id \in Ids : id # save.id => tileRows'[id] = tileRows[id]
<1>1. UNCHANGED <<maps, roverRows, version>>
  BY DEF InsertMap, memory
<1>2. budget' \in [names : SUBSET Names, acts : Nat, faults : Nat]
      /\ budget'.names = budget.names
  BY BudgetKept DEF InsertMap, Transact, Inv, TablesOK
<1>3. save.id = -1 \/ (save.id \in DOMAIN maps /\ Unwritten(save.id))
  BY DEF Inv, SaveOK, InsertMap, Idle
<1>4. save.id \in Ids /\ ~(save.id > Len(maps))
  BY <1>3, IdNotAhead
<1>5. tileRows' = (IF ok THEN [tileRows EXCEPT ![save.id] = Append(@, version)] ELSE tileRows)
      /\ save' = [step |-> "rover", id |-> save.id]
  BY DEF InsertMap
<1>6. tileRows' \in [Ids -> Seq(Versions)]
      /\ \A id \in Ids : id # save.id => tileRows'[id] = tileRows[id]
  <2>1. tileRows \in [Ids -> Seq(Versions)] /\ version \in Versions
    BY DEF Inv, TablesOK
  <2>2. Append(tileRows[save.id], version) \in Seq(Versions)
    BY <1>4, <2>1
  <2>. QED
    BY <1>4, <1>5, <2>1, <2>2
<1>7. TablesOK' /\ RoomForNames' /\ NamesOnce'
  BY <1>1, <1>2, <1>6 DEF Inv, TablesOK, RoomForNames, NamesOnce
<1>8. IdsAheadUnwritten'
  <2>. SUFFICES ASSUME NEW id \in Ids, id > Len(maps)
                PROVE  Unwritten(id)'
    BY <1>1 DEF IdsAheadUnwritten, Ids
  <2>1. id # save.id /\ Unwritten(id)
    BY <1>4 DEF Inv, IdsAheadUnwritten
  <2>. QED
    BY <1>1, <1>6, <2>1 DEF Unwritten
<1>9. SaveOK'
  BY <1>1, <1>3, <1>5 DEF SaveOK, Unwritten
<1>. QED
  BY <1>1, <1>3, <1>6, <1>7, <1>8, <1>9 DEF Inv, Unwritten

LEMMA SaveRoverKeepsInv ==
  ASSUME Inv, NEW ok \in BOOLEAN, SaveRover(ok)
  PROVE  /\ Inv'
         /\ UNCHANGED <<maps, tileRows>>
         /\ save.id = -1 \/ (save.id \in DOMAIN maps /\ roverRows[save.id] = Unknown)
         /\ \A id \in Ids : id # save.id => roverRows'[id] = roverRows[id]
<1>1. UNCHANGED <<maps, tileRows, version>>
  BY DEF SaveRover, memory
<1>2. budget' \in [names : SUBSET Names, acts : Nat, faults : Nat]
      /\ budget'.names = budget.names
  BY BudgetKept DEF SaveRover, Transact, Inv, TablesOK
<1>3. save.id = -1 \/ (save.id \in DOMAIN maps /\ roverRows[save.id] = Unknown)
  BY DEF Inv, SaveOK, SaveRover, Idle
<1>4. save.id \in Ids /\ ~(save.id > Len(maps))
  BY <1>3, IdNotAhead
<1>5. roverRows' = (IF ok /\ roverRows[save.id] = Unknown
                    THEN [roverRows EXCEPT ![save.id] = version] ELSE roverRows)
      /\ save' = Idle
  BY DEF SaveRover
<1>6. roverRows' \in [Ids -> Versions \cup {Unknown}]
      /\ \A id \in Ids : id # save.id => roverRows'[id] = roverRows[id]
  <2>1. roverRows \in [Ids -> Versions \cup {Unknown}] /\ version \in Versions
    BY DEF Inv, TablesOK
  <2>. QED
    BY <1>4, <1>5, <2>1
<1>7. TablesOK' /\ RoomForNames' /\ NamesOnce'
  BY <1>1, <1>2, <1>6 DEF Inv, TablesOK, RoomForNames, NamesOnce
<1>8. IdsAheadUnwritten'
  <2>. SUFFICES ASSUME NEW id \in Ids, id > Len(maps)
                PROVE  Unwritten(id)'
    BY <1>1 DEF IdsAheadUnwritten, Ids
  <2>1. id # save.id /\ Unwritten(id)
    BY <1>4 DEF Inv, IdsAheadUnwritten
  <2>. QED
    BY <1>1, <1>6, <2>1 DEF Unwritten
<1>9. SaveOK'
  BY <1>5 DEF SaveOK
<1>. QED
  BY <1>1, <1>3, <1>6, <1>7, <1>8, <1>9 DEF Inv

LEMMA RestartKeepsInv ==
  ASSUME Inv, Restart
  PROVE  Inv' /\ Same
<1>1. UNCHANGED <<maps, tileRows, roverRows>> /\ save' = Idle
  BY DEF Restart, tables
<1>2. budget' \in [names : SUBSET Names, acts : Nat, faults : Nat]
      /\ budget'.names = budget.names
  BY BudgetKept DEF Restart, Transact, Inv, TablesOK
<1>3. version' \in Versions
  BY MapStoreAssumption DEF Restart, Change, Inv, TablesOK, Versions
<1>4. TablesOK' /\ RoomForNames' /\ NamesOnce' /\ IdsAheadUnwritten'
  BY <1>1, <1>2, <1>3
     DEF Inv, TablesOK, RoomForNames, NamesOnce, IdsAheadUnwritten, Unwritten
<1>5. SaveOK'
  BY <1>1 DEF SaveOK
<1>. QED
  BY <1>1, <1>4, <1>5 DEF Inv, Same

\* The handlers of reports, resets and requests, and the page.
Elsewhere ==
  \/ \E ok \in BOOLEAN :
       \/ ReportBegin(ok) \/ ReportInsert(ok)
       \/ \E name \in Names \cup {Earlier} : RequestMap(name, ok)
       \/ GetResetID(ok) \/ ResetInstructions(ok)
       \/ RetriveMap(ok) \/ RetriveRover(ok) \/ RetriveInstruction(ok)
  \/ ResetMap \/ LoadMap
  \/ UNCHANGED vars

LEMMA ElsewhereKeepsInv ==
  ASSUME Inv, Elsewhere
  PROVE  Inv' /\ Same
<1>1. Same /\ UNCHANGED save
  BY DEF Elsewhere, Same, ReportBegin, ReportInsert, RequestMap, ResetMap, GetResetID,
         ResetInstructions,
         RetriveMap, RetriveRover, RetriveInstruction, LoadMap, vars, tables, handlers
<1>2. version' \in Versions
  <2>1. version' = version \/ Change
    BY DEF Elsewhere, ReportBegin, ReportInsert, RequestMap, ResetMap, GetResetID,
         ResetInstructions,
           RetriveMap, RetriveRover, RetriveInstruction, LoadMap, vars, memory
  <2>. QED
    BY <2>1, MapStoreAssumption DEF Change, Inv, TablesOK, Versions
<1>3. budget' \in [names : SUBSET Names, acts : Nat, faults : Nat]
      /\ budget'.names = budget.names
  <2>. DEFINE paid == [budget EXCEPT !.acts = @ + 1]
  <2>1. budget \in [names : SUBSET Names, acts : Nat, faults : Nat] /\ TablesOK
    BY DEF Inv, TablesOK
  <2>2. paid \in [names : SUBSET Names, acts : Nat, faults : Nat] /\ paid.names = budget.names
    BY <2>1
  <2>3. \/ budget' = budget
        \/ \E ok \in BOOLEAN : TransactFrom(budget, ok) \/ TransactFrom(paid, ok)
    BY DEF Elsewhere, ReportBegin, ReportInsert, RequestMap, ResetMap, GetResetID,
         ResetInstructions,
           RetriveMap, RetriveRover, RetriveInstruction, LoadMap, vars, Transact, Act
  <2>. HIDE DEF paid
  <2>. QED
    BY <2>1, <2>2, <2>3, BudgetKept
<1>. QED
  BY <1>1, <1>2, <1>3, OthersKeepInv

\* Every step is one of those of the lemmas above.
LEMMA Steps ==
  ASSUME [Next]_vars
  PROVE  \/ Elsewhere \/ Restart
         \/ \E ok \in BOOLEAN :
              \/ \E name \in Names : Save(name, ok)
              \/ GetSavedID(ok) \/ InsertMap(ok) \/ SaveRover(ok)
BY DEF Next, Elsewhere

LEMMA NextKeepsInv == Inv /\ [Next]_vars => Inv'
BY Steps, ElsewhereKeepsInv, RestartKeepsInv, SaveKeepsInv, GetSavedIDKeepsInv,
   InsertMapKeepsInv, SaveRoverKeepsInv

-----------------------------------------------------------------------------
\* The ids of the maps that are in the archive.
Archivable == {i \in DOMAIN maps : Complete(i)}

LEMMA ArchivedIs ==
  /\ DOMAIN archived = Archivable
  /\ archived = [id \in Archivable |-> Stored(id)]
BY DEF archived, Archivable

\* As long as the complete maps and what is stored of them are the same, so is
\* the archive.
LEMMA ArchiveKept ==
  ASSUME Archivable' = Archivable,
         \A id \in Archivable : Stored(id)' = Stored(id)
  PROVE  archived' = archived
<1>1. archived' = [id \in Archivable' |-> Stored(id)']
  BY DEF archived, Archivable
<1>2. archived = [id \in Archivable |-> Stored(id)]
  BY ArchivedIs
<1>. QED
  BY <1>1, <1>2

LEMMA SameArchive == ASSUME Same PROVE archived' = archived
<1>1. Archivable' = Archivable
  BY DEF Same, Archivable, Complete
<1>2. \A id \in Archivable : Stored(id)' = Stored(id)
  BY DEF Same, Stored
<1>. QED
  BY <1>1, <1>2, ArchiveKept

LEMMA SaveArchives ==
  ASSUME Inv, NEW name \in Names, NEW ok \in BOOLEAN, Save(name, ok)
  PROVE  archived' = archived
<1>1. UNCHANGED <<tileRows, roverRows>>
  BY DEF Save
<1>2. maps' = IF ok THEN Append(maps, name) ELSE maps
  BY DEF Save
<1>3. maps \in Seq(AllNames) /\ name \in AllNames
  BY DEF Inv, TablesOK, AllNames
<1>4. /\ DOMAIN maps \subseteq DOMAIN maps'
      /\ \A i \in DOMAIN maps' \ DOMAIN maps : i = Len(maps) + 1
  BY <1>2, <1>3
<1>5. \A i \in DOMAIN maps' : Complete(i)' => i \in DOMAIN maps
  <2>. SUFFICES ASSUME NEW i \in DOMAIN maps', i \notin DOMAIN maps, Complete(i)'
                PROVE  FALSE
    OBVIOUS
  <2>1. i = Len(maps) + 1 /\ tileRows[i] # <<>>
    BY <1>1, <1>4 DEF Complete
  <2>2. Inv'
    BY SaveKeepsInv
  <2>3. i \in Ids
    BY <2>2, DomainInIdsNext
  <2>4. i > Len(maps)
    <3>. DEFINE l == Len(maps)
    <3>1. l \in Nat /\ i = l + 1
      BY <2>1, <1>3
    <3>. HIDE DEF l
    <3>2. i > l
      BY <3>1
    <3>. QED
      BY <3>2 DEF l
  <2>. QED
    BY <2>1, <2>3, <2>4 DEF Inv, IdsAheadUnwritten, Unwritten
<1>6. Archivable' = Archivable
  BY <1>1, <1>4, <1>5 DEF Archivable, Complete
<1>7. \A id \in Archivable : Stored(id)' = Stored(id)
  BY <1>1 DEF Stored
<1>. QED
  BY <1>6, <1>7, ArchiveKept

LEMMA InsertMapArchives ==
  ASSUME Inv, NEW ok \in BOOLEAN, InsertMap(ok)
  PROVE  archived' = archived
<1>1. /\ UNCHANGED <<maps, roverRows>>
      /\ save.id \notin DOMAIN maps \/ roverRows[save.id] = Unknown
      /\ \A id \in Ids : id # save.id => tileRows'[id] = tileRows[id]
  <2>1. -1 \notin DOMAIN maps
    BY DEF Inv, TablesOK
  <2>. QED
    BY <2>1, InsertMapKeepsInv
<1>2. DOMAIN maps \subseteq Ids
  BY IdNotAhead
<1>3. \A id \in DOMAIN maps : id # save.id => tileRows'[id] = tileRows[id]
  BY <1>1, <1>2
<1>4. Archivable' = Archivable /\ save.id \notin Archivable
  BY <1>1, <1>3 DEF Archivable, Complete
<1>5. \A id \in Archivable : Stored(id)' = Stored(id)
  BY <1>1, <1>3, <1>4 DEF Stored, Archivable
<1>. QED
  BY <1>4, <1>5, ArchiveKept

\* What is stored of a complete map can be in the archive.
LEMMA StoredType ==
  ASSUME Inv, NEW id \in Archivable
  PROVE  id \in Ids /\ Stored(id) \in [tiles : Versions, rover : Versions]
<1>1. id \in Ids
  BY IdNotAhead DEF Archivable
<1>2. tileRows[id] \in Seq(Versions) /\ tileRows[id] # <<>>
      /\ roverRows[id] \in Versions
  BY <1>1 DEF Inv, TablesOK, Archivable, Complete
<1>3. Last(tileRows[id]) \in Versions
  BY <1>2 DEF Last
<1>. QED
  BY <1>1, <1>2, <1>3 DEF Stored

LEMMA ArchiveType ==
  Inv => /\ DOMAIN archived \subseteq Ids
         /\ archived \in [DOMAIN archived -> [tiles : Versions, rover : Versions]]
BY StoredType, ArchivedIs

LEMMA ArchiveTypeNext ==
  Inv' => /\ DOMAIN archived' \subseteq Ids
          /\ archived' \in [DOMAIN archived' -> [tiles : Versions, rover : Versions]]
<1>1. (Inv => /\ DOMAIN archived \subseteq Ids
              /\ archived \in [DOMAIN archived -> [tiles : Versions, rover : Versions]])'
  BY ArchiveType, PTL
<1>. QED
  BY <1>1 DEF Ids, Versions

LEMMA SaveRoverArchives ==
  ASSUME Inv, NEW ok \in BOOLEAN, SaveRover(ok)
  PROVE  Archived!Next \/ archived' = archived
<1>1. /\ UNCHANGED <<maps, tileRows>>
      /\ save.id \notin DOMAIN maps \/ roverRows[save.id] = Unknown
      /\ \A id \in Ids : id # save.id => roverRows'[id] = roverRows[id]
  <2>1. -1 \notin DOMAIN maps
    BY DEF Inv, TablesOK
  <2>. QED
    BY <2>1, SaveRoverKeepsInv
<1>2. DOMAIN maps \subseteq Ids
  BY IdNotAhead
<1>3. \A id \in DOMAIN maps : id # save.id => roverRows'[id] = roverRows[id]
  BY <1>1, <1>2
<1>4. save.id \notin Archivable
  BY <1>1 DEF Archivable, Complete
<1>5. \A id \in Archivable : Stored(id)' = Stored(id)
  BY <1>1, <1>3, <1>4 DEF Stored, Archivable
<1>6. Archivable' = Archivable \/ Archivable' = Archivable \cup {save.id}
  BY <1>1, <1>3, <1>4 DEF Archivable, Complete
<1>7. CASE Archivable' = Archivable
  BY <1>5, <1>7, ArchiveKept
<1>8. CASE Archivable' = Archivable \cup {save.id}
  <2>1. Inv'
    BY SaveRoverKeepsInv
  <2>2. DOMAIN archived' = Archivable' /\ archived' = [id \in Archivable' |-> Stored(id)']
    BY DEF archived, Archivable
  <2>3. DOMAIN archived' \subseteq Ids
        /\ archived' \in [DOMAIN archived' -> [tiles : Versions, rover : Versions]]
    BY <2>1, ArchiveTypeNext
  <2>4. save.id \in Ids \ DOMAIN archived
    BY <1>4, <1>8, <2>2, <2>3, ArchivedIs
  <2>5. archived' \in [DOMAIN archived \cup {save.id} -> [tiles : Versions, rover : Versions]]
    BY <1>8, <2>2, <2>3, ArchivedIs
  <2>6. \A old \in DOMAIN archived : archived'[old] = archived[old]
    BY <1>5, <1>8, <2>2, ArchivedIs
  <2>. QED
    BY <2>4, <2>5, <2>6 DEF Archived!Next
<1>. QED
  BY <1>6, <1>7, <1>8

LEMMA NextArchives == ASSUME Inv, [Next]_vars PROVE [Archived!Next]_archived
BY Steps, ElsewhereKeepsInv, RestartKeepsInv, GetSavedIDKeepsInv, SameArchive,
   SaveArchives, InsertMapArchives, SaveRoverArchives

-----------------------------------------------------------------------------
(***************************************************************************)
(* Every behaviour of the map history is one of the archive: once a map    *)
(* can be loaded, no save, reset, request, failed transaction or restart   *)
(* changes what is stored of it (SQLdb.go:19-81, HTTPPost.go:117-212).     *)
(***************************************************************************)
THEOREM StoreImplementsArchive == Spec => WrittenOnce
<1>1. Init => Inv
  BY InitInv
<1>2. Inv /\ [Next]_vars => Inv'
  BY NextKeepsInv
<1>4. Inv => /\ DOMAIN archived \subseteq Ids
             /\ archived \in [DOMAIN archived -> [tiles : Versions, rover : Versions]]
  BY ArchiveType
<1>5. Init => Archived!Init
  BY <1>1, <1>4 DEF Archived!Init
<1>6. Inv /\ [Next]_vars => [Archived!Next]_archived
  BY NextArchives
<1>. QED
  BY <1>1, <1>2, <1>5, <1>6, PTL DEF Spec, WrittenOnce, Archived!Spec

-----------------------------------------------------------------------------
(***************************************************************************)
(* The logs of instructions, and what the history page is shown, for every *)
(* set of names and every bound.                                           *)
(***************************************************************************)

(***************************************************************************)
(* An instruction reported at version f is in the log of map m, when there *)
(* are n maps, saved at the versions "at", and the version is now v.       *)
(***************************************************************************)
OfRun(m, f, n, at, v) ==
  /\ m <= n + 1 /\ f <= v
  /\ m \in 1..n => f <= at[m]
  /\ m - 1 \in 1..n => f >= at[m - 1]

OfItsRun(m, f) == OfRun(m, f, Len(maps), savedAt, version)

ReportType ==
  \/ report = Idle
  \/ /\ report = [step |-> "insert", from |-> report.from, id |-> report.id]
     /\ report.from \in Versions
     /\ report.id = -1 \/ report.id \in 1..Len(maps)

\* The types of what the theorems of this module are about.
LogTypes ==
  /\ logRows \subseteq [map : Ids, from : Versions]
  /\ savedAt \in Seq(Versions) /\ Len(savedAt) = Len(maps)
  /\ ReportType

\* What is logged, and what is about to be, is of the run whose log it is in.
LogInv ==
  /\ \A i \in 1..Len(maps) : savedAt[i] <= version
  /\ \A row \in logRows : OfItsRun(row.map, row.from)
  /\ report.step = "insert" => OfItsRun(report.id + 1, report.from)

-----------------------------------------------------------------------------
LEMMA LaterIsOfRun ==
  ASSUME NEW n \in Nat, NEW at \in Seq(Nat), Len(at) = n,
         NEW v \in Nat, NEW w \in Nat, v <= w,
         NEW m \in Int, NEW f \in Nat, OfRun(m, f, n, at, v)
  PROVE  OfRun(m, f, n, at, w)
BY DEF OfRun

\* A save closes the log of what was reported before.
LEMMA SavedIsOfRun ==
  ASSUME NEW n \in Nat, NEW at \in Seq(Nat), Len(at) = n,
         NEW v \in Nat, NEW m \in Int, NEW f \in Nat, OfRun(m, f, n, at, v)
  PROVE  OfRun(m, f, n + 1, Append(at, v), v)
<1>. DEFINE after == Append(at, v)
<1>1. after[n + 1] = v /\ \A i \in 1..n : after[i] = at[i]
  OBVIOUS
<1>. HIDE DEF after
<1>2. m <= n + 1 /\ f <= v
  BY DEF OfRun
<1>3. ASSUME m \in 1..(n + 1) PROVE f <= after[m]
  <2>1. CASE m = n + 1
    BY <1>1, <1>2, <2>1
  <2>2. CASE m \in 1..n
    BY <1>1, <2>2 DEF OfRun
  <2>. QED
    BY <1>3, <2>1, <2>2
<1>4. ASSUME m - 1 \in 1..(n + 1) PROVE f >= after[m - 1]
  <2>1. m - 1 \in 1..n
    BY <1>2, <1>4
  <2>. QED
    BY <1>1, <2>1 DEF OfRun
<1>5. m <= n + 1 + 1
  BY <1>2
<1>6. OfRun(m, f, n + 1, after, v)
  BY <1>2, <1>3, <1>4, <1>5 DEF OfRun
<1>. QED
  BY <1>6 DEF after

\* What is reported now belongs into the log of the map to be saved next.
LEMMA NewIsOfRun ==
  ASSUME NEW n \in Nat, NEW at \in Seq(Nat), Len(at) = n, NEW v \in Nat,
         \A i \in 1..n : at[i] <= v,
         NEW id, id = -1 \/ id = n
  PROVE  OfRun(id + 1, v, n, at, v)
<1>1. CASE id = -1
  BY <1>1 DEF OfRun
<1>2. CASE id = n
  BY <1>2 DEF OfRun
<1>. QED
  BY <1>1, <1>2

-----------------------------------------------------------------------------
Types == Inv /\ LogTypes

\* Numbers, as the lemmas above take them.
LEMMA Numbers ==
  ASSUME Types
  PROVE  /\ Len(maps) \in Nat /\ DOMAIN maps = 1..Len(maps)
         /\ version \in Nat /\ version <= MaxVersion
         /\ savedAt \in Seq(Nat) /\ Len(savedAt) = Len(maps)
         /\ \A row \in logRows : row.map \in Int /\ row.from \in Nat
         /\ report.step = "insert" => report.id \in Int /\ report.from \in Nat
<1>1. Versions \subseteq Nat /\ Ids \subseteq Int /\ MaxVersion \in Nat
  BY IdRange, MapStoreAssumption DEF Versions
<1>2. /\ Len(maps) \in Nat /\ DOMAIN maps = 1..Len(maps)
      /\ version \in Nat /\ version <= MaxVersion
  <2>1. maps \in Seq(AllNames) /\ version \in 0..MaxVersion
    BY DEF Types, Inv, TablesOK, Versions
  <2>. QED
    BY <1>1, <2>1
<1>3. savedAt \in Seq(Nat) /\ Len(savedAt) = Len(maps)
  BY <1>1, SeqMonotonic DEF Types, LogTypes
<1>4. \A row \in logRows : row.map \in Int /\ row.from \in Nat
  BY <1>1 DEF Types, LogTypes
<1>5. ASSUME report.step = "insert" PROVE report.id \in Int /\ report.from \in Nat
  BY <1>1, <1>2, <1>5 DEF Types, LogTypes, ReportType, Idle
<1>. QED
  BY <1>2, <1>3, <1>4, <1>5

\* The id last given is that of a map, or -1.
LEMMA Latest ==
  ASSUME Types
  PROVE  /\ LatestMapID = -1 \/ LatestMapID = Len(maps)
         /\ LatestMapID = -1 \/ LatestMapID \in 1..Len(maps)
<1>1. maps \in Seq(AllNames)
  BY DEF Types, Inv, TablesOK
<1>2. CASE maps = <<>>
  BY <1>2 DEF LatestMapID
<1>3. CASE maps # <<>>
  <2>1. LatestMapID = Len(maps) /\ Len(maps) \in Nat /\ Len(maps) # 0
    BY <1>1, <1>3, EmptySeq DEF LatestMapID
  <2>. QED
    BY <2>1
<1>. QED
  BY <1>2, <1>3

\* The log of the map to be saved next has an id of its own.
LEMMA NextId ==
  ASSUME Types, NEW id, id = -1 \/ id \in 1..Len(maps)
  PROVE  id + 1 \in Ids
<1>. DEFINE c == Cardinality(Names)
            n == Len(maps)
            b == Cardinality(budget.names)
<1>1. c \in Nat /\ b \in Nat /\ n \in Nat /\ n + b <= 1 + c
  BY IdRange, Numbers, FS_CardinalityType, MapStoreAssumption
     DEF Types, Inv, TablesOK, RoomForNames
<1>2. Ids = -1..(2 + c) /\ (id = -1 \/ id \in 1..n)
  BY DEF Ids
<1>. HIDE DEF c, n, b
<1>. QED
  BY <1>1, <1>2

-----------------------------------------------------------------------------
(***************************************************************************)
(* The steps, by what they do to the logs.                                 *)
(***************************************************************************)
\* The steps that neither log nor save, nor delete from a log.
Calm ==
  /\ UNCHANGED <<maps, savedAt, logRows>>
  /\ report' = report \/ report' = Idle
  /\ version' = version \/ Change

CalmStep ==
  \/ \E ok \in BOOLEAN :
       \/ \E name \in Names \cup {Earlier} : RequestMap(name, ok)
       \/ GetSavedID(ok) \/ InsertMap(ok) \/ SaveRover(ok)
       \/ GetResetID(ok)
       \/ RetriveMap(ok) \/ RetriveRover(ok) \/ RetriveInstruction(ok)
  \/ ResetMap \/ LoadMap
  \/ Restart
  \/ UNCHANGED vars

LEMMA CalmSteps == CalmStep => Calm
BY DEF CalmStep, Calm, RequestMap, GetSavedID, InsertMap, SaveRover, ResetMap, GetResetID, RetriveMap,
       RetriveRover, RetriveInstruction, LoadMap, Restart, vars, tables, memory, history,
       handlers

LEMMA LogSteps ==
  ASSUME [Next]_vars
  PROVE  \/ CalmStep
         \/ \E ok \in BOOLEAN :
              \/ ReportBegin(ok) \/ ReportInsert(ok) \/ ResetInstructions(ok)
              \/ \E name \in Names : Save(name, ok)
BY DEF Next, CalmStep

LEMMA Later ==
  ASSUME Types, version' = version \/ Change
  PROVE  version' \in Nat /\ version <= version' /\ version' <= MaxVersion
<1>1. version \in Nat /\ version <= MaxVersion /\ MaxVersion \in Nat
  BY Numbers, MapStoreAssumption
<1>2. CASE version' = version
  BY <1>1, <1>2
<1>3. CASE Change
  BY <1>1, <1>3 DEF Change
<1>. QED
  BY <1>2, <1>3

LEMMA CalmKeepsLogs ==
  ASSUME Types, LogInv, Calm
  PROVE  LogTypes' /\ LogInv'
<1>1. UNCHANGED <<maps, savedAt, logRows>> /\ (report' = report \/ report' = Idle)
  BY DEF Calm
<1>2. version' \in Nat /\ version <= version' /\ version \in Nat
  BY Later, Numbers DEF Calm
<1>3. LogTypes'
  BY <1>1 DEF Types, LogTypes, ReportType, Ids, Versions, Idle
<1>4. \A i \in 1..Len(maps) : savedAt[i] \in Nat
  BY Numbers
<1>5. \A i \in 1..Len(maps') : savedAt'[i] <= version'
  BY <1>1, <1>2, <1>4 DEF LogInv
<1>6. ASSUME NEW m \in Int, NEW f \in Nat, OfItsRun(m, f)
      PROVE  OfRun(m, f, Len(maps'), savedAt', version')
  BY <1>1, <1>2, <1>6, Numbers, LaterIsOfRun DEF OfItsRun
<1>7. \A row \in logRows' : OfRun(row.map, row.from, Len(maps'), savedAt', version')
  BY <1>1, <1>6, Numbers DEF LogInv
<1>8. ASSUME report'.step = "insert"
      PROVE  OfRun(report'.id + 1, report'.from, Len(maps'), savedAt', version')
  <2>1. report' = report /\ report.step = "insert"
    BY <1>1, <1>8 DEF Idle
  <2>2. report.id \in Int /\ report.from \in Nat
    BY <2>1, Numbers
  <2>3. report.id + 1 \in Int
    BY <2>2
  <2>4. OfItsRun(report.id + 1, report.from)
    BY <2>1 DEF LogInv
  <2>. QED
    BY <1>6, <2>1, <2>2, <2>3, <2>4
<1>. QED
  BY <1>3, <1>5, <1>7, <1>8 DEF LogInv, OfItsRun

LEMMA SaveKeepsLogs ==
  ASSUME Types, LogInv, NEW name \in Names, NEW ok \in BOOLEAN, Save(name, ok)
  PROVE  LogTypes' /\ LogInv'
<1>1. CASE ~ ok
  <2>1. Calm
    BY <1>1 DEF Save, Calm, memory
  <2>. QED
    BY <2>1, CalmKeepsLogs
<1>2. CASE ok
  <2>1. /\ maps' = Append(maps, name) /\ savedAt' = Append(savedAt, version)
        /\ UNCHANGED <<version, logRows, report>>
    BY <1>2 DEF Save, memory
  <2>2. /\ Len(maps) \in Nat /\ version \in Nat
        /\ savedAt \in Seq(Nat) /\ Len(savedAt) = Len(maps)
    BY Numbers
  <2>3. maps \in Seq(AllNames) /\ name \in AllNames /\ version \in Versions
    BY DEF Types, Inv, TablesOK, AllNames
  <2>4. Len(maps') = Len(maps) + 1
    BY <2>1, <2>3
  <2>5. savedAt' \in Seq(Versions) /\ Len(savedAt') = Len(maps')
    BY <2>1, <2>2, <2>3, <2>4 DEF Types, LogTypes
  <2>6. ReportType'
    <3>1. 1..Len(maps) \subseteq 1..Len(maps')
      BY <2>2, <2>4
    <3>. QED
      BY <2>1, <3>1 DEF Types, LogTypes, ReportType, Versions, Idle
  <2>7. LogTypes'
    BY <2>1, <2>5, <2>6 DEF Types, LogTypes, Ids, Versions
  <2>8. \A i \in 1..Len(maps') : savedAt'[i] <= version'
    BY <2>1, <2>2, <2>4 DEF LogInv
  <2>9. ASSUME NEW m \in Int, NEW f \in Nat, OfItsRun(m, f)
        PROVE  OfRun(m, f, Len(maps'), savedAt', version')
    BY <2>1, <2>2, <2>4, <2>9, SavedIsOfRun DEF OfItsRun
  <2>10. \A row \in logRows' : OfRun(row.map, row.from, Len(maps'), savedAt', version')
    BY <2>1, <2>9, Numbers DEF LogInv
  <2>11. ASSUME report'.step = "insert"
         PROVE  OfRun(report'.id + 1, report'.from, Len(maps'), savedAt', version')
    <3>1. report.id \in Int /\ report.from \in Nat
      BY <2>1, <2>11, Numbers
    <3>2. report.id + 1 \in Int
      BY <3>1
    <3>3. OfItsRun(report.id + 1, report.from)
      BY <2>1, <2>11 DEF LogInv
    <3>. QED
      BY <2>1, <2>9, <3>1, <3>2, <3>3
  <2>. QED
    BY <2>7, <2>8, <2>10, <2>11 DEF LogInv, OfItsRun
<1>. QED
  BY <1>1, <1>2

LEMMA ReportBeginKeepsLogs ==
  ASSUME Types, LogInv, NEW ok \in BOOLEAN, ReportBegin(ok)
  PROVE  LogTypes' /\ LogInv'
<1>1. /\ UNCHANGED <<maps, savedAt, logRows, version>>
      /\ report' = [step |-> "insert", from |-> version,
                    id |-> IF ok THEN LatestMapID ELSE -1]
  BY DEF ReportBegin, tables, memory, history
<1>2. /\ report'.id = -1 \/ report'.id = Len(maps)
      /\ report'.id = -1 \/ report'.id \in 1..Len(maps)
  BY <1>1, Latest
<1>3. LogTypes'
  <2>1. ReportType'
    BY <1>1, <1>2 DEF Types, Inv, TablesOK, ReportType, Versions
  <2>. QED
    BY <1>1, <2>1 DEF Types, LogTypes, Ids, Versions
<1>4. OfRun(report'.id + 1, report'.from, Len(maps), savedAt, version)
  <2>1. \A i \in 1..Len(maps) : savedAt[i] <= version
    BY DEF LogInv
  <2>2. report'.from = version
    BY <1>1
  <2>. QED
    BY <1>2, <2>1, <2>2, Numbers, NewIsOfRun
<1>. QED
  BY <1>1, <1>3, <1>4 DEF LogInv, OfItsRun

LEMMA ReportInsertKeepsLogs ==
  ASSUME Types, LogInv, NEW ok \in BOOLEAN, ReportInsert(ok)
  PROVE  LogTypes' /\ LogInv'
<1>. DEFINE row == [map |-> report.id + 1, from |-> report.from]
<1>1. /\ UNCHANGED <<maps, savedAt>> /\ Change
      /\ report.step = "insert" /\ report' = Idle
      /\ logRows' = logRows \/ logRows' = logRows \cup {row}
  BY DEF ReportInsert, history
<1>2. version' \in Nat /\ version <= version' /\ version \in Nat
  BY <1>1, Later, Numbers
<1>3. LogTypes'
  <2>1. ReportType'
    BY <1>1 DEF ReportType
  <2>2. report.id + 1 \in Ids /\ report.from \in Versions
    BY <1>1, NextId DEF Types, LogTypes, ReportType, Idle
  <2>3. row \in [map : Ids, from : Versions]
    BY <2>2
  <2>. HIDE DEF row
  <2>4. logRows' \subseteq [map : Ids, from : Versions]
    BY <1>1, <2>3 DEF Types, LogTypes
  <2>. QED
    BY <1>1, <2>1, <2>4 DEF Types, LogTypes, Ids, Versions
<1>4. \A i \in 1..Len(maps') : savedAt'[i] <= version'
  <2>1. \A i \in 1..Len(maps) : savedAt[i] \in Nat
    BY Numbers
  <2>. QED
    BY <1>1, <1>2, <2>1 DEF LogInv
<1>5. row.map \in Int /\ row.from \in Nat /\ OfItsRun(row.map, row.from)
  BY <1>1, Numbers DEF LogInv
<1>. HIDE DEF row
<1>6. \A r \in logRows' : r.map \in Int /\ r.from \in Nat /\ OfItsRun(r.map, r.from)
  BY <1>1, <1>5, Numbers DEF LogInv
<1>7. \A r \in logRows' : OfRun(r.map, r.from, Len(maps'), savedAt', version')
  BY <1>1, <1>2, <1>6, Numbers, LaterIsOfRun DEF OfItsRun
<1>. QED
  BY <1>1, <1>3, <1>4, <1>7 DEF LogInv, OfItsRun, Idle

LEMMA ResetInstructionsKeepsLogs ==
  ASSUME Types, LogInv, NEW ok \in BOOLEAN, ResetInstructions(ok)
  PROVE  LogTypes' /\ LogInv'
<1>1. UNCHANGED <<maps, savedAt, version, report>> /\ logRows' \subseteq logRows
  BY DEF ResetInstructions, memory
<1>2. LogTypes'
  BY <1>1 DEF Types, LogTypes, ReportType, Ids, Versions, Idle
<1>. QED
  BY <1>1, <1>2 DEF LogInv, OfItsRun

LEMMA NextKeepsLogs ==
  ASSUME Types, LogInv, [Next]_vars
  PROVE  LogTypes' /\ LogInv'
BY LogSteps, CalmSteps, CalmKeepsLogs, SaveKeepsLogs, ReportBeginKeepsLogs,
   ReportInsertKeepsLogs, ResetInstructionsKeepsLogs

LEMMA InitLogs == Init => LogTypes /\ LogInv
<1>. SUFFICES ASSUME Init PROVE LogTypes /\ LogInv
  OBVIOUS
<1>1. PICK old \in {<<>>, <<Earlier>>} : maps = old /\ savedAt = [id \in DOMAIN old |-> 0]
  BY DEF Init
<1>2. logRows = {} /\ report = Idle /\ version = 0 /\ 0 \in Versions
  BY MapStoreAssumption DEF Init, Versions
<1>3. savedAt \in Seq(Versions) /\ Len(savedAt) = Len(maps)
      /\ \A i \in 1..Len(maps) : savedAt[i] = 0
  <2>1. CASE old = <<>>
    BY <1>1, <1>2, <2>1
  <2>2. CASE old = <<Earlier>>
    BY <1>1, <1>2, <2>2
  <2>. QED
    BY <2>1, <2>2
<1>. QED
  BY <1>2, <1>3 DEF LogTypes, LogInv, ReportType, Idle

LEMMA LogsHold == Spec => [](Types /\ LogInv)
<1>1. Init => Types /\ LogInv
  BY InitInv, InitLogs DEF Types
<1>2. Types /\ LogInv /\ [Next]_vars => (Types /\ LogInv)'
  BY NextKeepsInv, NextKeepsLogs DEF Types
<1>. QED
  BY <1>1, <1>2, PTL DEF Spec

(***************************************************************************)
(* However reports and saves interleave, and whatever fails, the log of a  *)
(* saved map holds only what was reported between the save before it and   *)
(* its own (SQLdb.go:188-219).                                             *)
(***************************************************************************)
THEOREM LogOfOwnRunHolds == Spec => []LogOfOwnRun
<1>1. Types /\ LogInv => LogOfOwnRun
  BY Numbers DEF LogInv, OfItsRun, OfRun, LogOfOwnRun
<1>. QED
  BY <1>1, LogsHold, PTL

-----------------------------------------------------------------------------
(***************************************************************************)
(* What a reset leaves.                                                    *)
(***************************************************************************)
\* The log of the map being driven, as far as it was reported before x.
OldRows(x) == {row \in LogOf(logRows, LatestMapID + 1) : row.from < x}

\* A report that is to be stored in that log, and was made before x.
OldReport(x) == report.step = "insert" /\ report.id = LatestMapID /\ report.from < x

ResetType ==
  \/ reset = Idle
  \/ /\ reset = [step |-> "id", made |-> reset.made]
     /\ reset.made \in Nat /\ reset.made <= version
  \/ /\ reset = [step |-> "delete", made |-> reset.made, id |-> reset.id]
     /\ reset.made \in Nat /\ reset.made <= version
     /\ reset.id \in Int

\* One row, or one report on its way; a save while the reset is on its way
\* begins a log that has nothing old.
ResetInv ==
  /\ lastReset \in Nat /\ lastReset <= version
  /\ ResetType
  /\ \A r, s \in OldRows(lastReset) : r = s
  /\ OldReport(lastReset) => OldRows(lastReset) = {}
  /\ reset.step = "delete" /\ reset.id # LatestMapID =>
       \/ reset.made = lastReset
       \/ OldRows(reset.made) = {} /\ ~ OldReport(reset.made)

LEMMA SameLatest == ASSUME UNCHANGED maps PROVE LatestMapID' = LatestMapID
BY DEF LatestMapID

\* What neither logs nor deletes, nor begins a report or a reset, keeps it.
LEMMA OthersKeepReset ==
  ASSUME Types, ResetInv, Calm, UNCHANGED lastReset, reset' = reset \/ reset' = Idle
  PROVE  ResetInv'
<1>1. /\ UNCHANGED <<maps, logRows, lastReset>>
      /\ report' = report \/ report' = Idle
  BY DEF Calm
<1>2. version' \in Nat /\ version <= version' /\ version \in Nat
  BY Later, Numbers DEF Calm
<1>3. LatestMapID' = LatestMapID
  BY <1>1, SameLatest
<1>4. lastReset' \in Nat /\ lastReset' <= version' /\ ResetType'
  BY <1>1, <1>2 DEF ResetInv, ResetType, Idle
<1>5. OldRows(lastReset)' = OldRows(lastReset)
      /\ (OldReport(lastReset)' => OldReport(lastReset))
  BY <1>1, <1>3 DEF OldRows, OldReport, Idle
<1>6. reset'.step = "delete" => reset' = reset
  BY DEF Idle
<1>7. ASSUME reset'.step = "delete"
      PROVE  OldRows(reset.made)' = OldRows(reset.made)
             /\ (OldReport(reset.made)' => OldReport(reset.made))
  BY <1>1, <1>3, <1>6, <1>7 DEF OldRows, OldReport, Idle
<1>. QED
  BY <1>1, <1>3, <1>4, <1>5, <1>6, <1>7 DEF ResetInv

\* Nobody has reported for the map after the one that is saved now.
LEMMA SaveKeepsReset ==
  ASSUME Types, LogInv, ResetInv, NEW name \in Names, NEW ok \in BOOLEAN, Save(name, ok)
  PROVE  ResetInv'
<1>1. /\ maps' = IF ok THEN Append(maps, name) ELSE maps
      /\ UNCHANGED <<version, logRows, report, reset, lastReset>>
  BY DEF Save, memory
<1>2. CASE ~ ok
  <2>1. Calm
    BY <1>2 DEF Save, Calm, memory
  <2>. QED
    BY <1>1, <2>1, OthersKeepReset
<1>3. CASE ok
  <2>1. maps \in Seq(AllNames) /\ name \in AllNames /\ Len(maps) \in Nat
    BY Numbers DEF Types, Inv, TablesOK, AllNames
  <2>2. maps' # <<>> /\ Len(maps') = Len(maps) + 1
    BY <1>1, <1>3, <2>1
  <2>3. LatestMapID' = Len(maps) + 1
    BY <2>2 DEF LatestMapID
  <2>4. \A row \in logRows : row.map # Len(maps) + 2
    <3>. SUFFICES ASSUME NEW row \in logRows PROVE row.map # Len(maps) + 2
      OBVIOUS
    <3>1. row.map <= Len(maps) + 1 /\ row.map \in Int
      BY Numbers DEF LogInv, OfItsRun, OfRun
    <3>. QED
      BY <2>1, <3>1
  <2>5. report.step = "insert" => report.id # Len(maps) + 1
    <3>. SUFFICES ASSUME report.step = "insert" PROVE report.id # Len(maps) + 1
      OBVIOUS
    <3>1. report.id + 1 <= Len(maps) + 1 /\ report.id \in Int
      BY Numbers DEF LogInv, OfItsRun, OfRun
    <3>. QED
      BY <2>1, <3>1
  <2>6. LatestMapID' + 1 = Len(maps) + 2
    BY <2>1, <2>3
  <2>7. OldRows(lastReset)' = {} /\ ~ OldReport(lastReset)'
    BY <1>1, <2>3, <2>4, <2>5, <2>6 DEF OldRows, OldReport, LogOf
  <2>8. OldRows(reset.made)' = {} /\ ~ OldReport(reset.made)'
    BY <1>1, <2>3, <2>4, <2>5, <2>6 DEF OldRows, OldReport, LogOf
  <2>. QED
    BY <1>1, <2>7, <2>8 DEF ResetInv, ResetType, Idle
<1>. QED
  BY <1>2, <1>3

\* A report that begins is later than any reset so far.
LEMMA ReportBeginKeepsReset ==
  ASSUME Types, ResetInv, NEW ok \in BOOLEAN, ReportBegin(ok)
  PROVE  ResetInv'
<1>1. /\ UNCHANGED <<maps, logRows, version, reset, lastReset>>
      /\ report'.from = version /\ version \in Nat
  BY Numbers DEF ReportBegin, tables, memory, history
<1>2. LatestMapID' = LatestMapID
  BY <1>1, SameLatest
<1>3. OldRows(lastReset)' = OldRows(lastReset) /\ OldRows(reset.made)' = OldRows(reset.made)
  BY <1>1, <1>2 DEF OldRows
<1>4. ~ OldReport(lastReset)'
  BY <1>1 DEF OldReport, ResetInv
<1>5. ASSUME reset.step = "delete" PROVE ~ OldReport(reset.made)'
  BY <1>1, <1>5 DEF OldReport, ResetInv, ResetType, Idle
<1>. QED
  BY <1>1, <1>2, <1>3, <1>4, <1>5 DEF ResetInv, ResetType, Idle

LEMMA ReportInsertKeepsReset ==
  ASSUME Types, ResetInv, NEW ok \in BOOLEAN, ReportInsert(ok)
  PROVE  ResetInv'
<1>. DEFINE row == [map |-> report.id + 1, from |-> report.from]
<1>1. /\ UNCHANGED <<maps, reset, lastReset>> /\ Change
      /\ report.step = "insert" /\ report' = Idle
      /\ logRows' = logRows \/ logRows' = logRows \cup {row}
  BY DEF ReportInsert, history
<1>2. version' \in Nat /\ version <= version' /\ version \in Nat
  BY <1>1, Later, Numbers
<1>3. LatestMapID' = LatestMapID /\ LatestMapID \in Int
  BY <1>1, SameLatest, Latest, Numbers
<1>4. ASSUME NEW x, ~ OldReport(x)
      PROVE  OldRows(x)' = OldRows(x)
  <2>1. row \notin LogOf({row}, LatestMapID + 1) \/ ~ (row.from < x)
    <3>1. report.id # LatestMapID \/ ~ (report.from < x)
      BY <1>1, <1>4 DEF OldReport
    <3>2. report.id \in Int
      BY <1>1, Numbers
    <3>3. report.id # LatestMapID => row.map # LatestMapID + 1
      BY <1>3, <3>2
    <3>. QED
      BY <3>1, <3>3 DEF LogOf
  <2>. HIDE DEF row
  <2>. QED
    BY <1>1, <1>3, <2>1 DEF OldRows, LogOf
<1>5. OldRows(lastReset)' \subseteq OldRows(lastReset) \cup {row}
  BY <1>1, <1>3 DEF OldRows, LogOf
<1>6. \A r, s \in OldRows(lastReset)' : r = s
  <2>. HIDE DEF row
  <2>1. CASE OldReport(lastReset)
    BY <1>5, <2>1 DEF ResetInv
  <2>2. CASE ~ OldReport(lastReset)
    <3>1. OldRows(lastReset)' = OldRows(lastReset)
      <4>1. PICK x : x = lastReset
        OBVIOUS
      <4>2. OldRows(x)' = OldRows(x)
        BY <1>4, <2>2, <4>1
      <4>. QED
        BY <1>1, <4>1, <4>2 DEF OldRows
    <3>. QED
      BY <3>1 DEF ResetInv
  <2>. QED
    BY <2>1, <2>2
<1>. HIDE DEF row
<1>7. ASSUME reset.step = "delete", reset.id # LatestMapID, reset.made # lastReset
      PROVE  OldRows(reset.made)' = {}
  <2>1. PICK x : x = reset.made
    OBVIOUS
  <2>2. OldRows(x) = {} /\ ~ OldReport(x)
    BY <1>7, <2>1 DEF ResetInv
  <2>3. OldRows(x)' = {}
    BY <1>4, <2>2
  <2>. QED
    BY <1>1, <2>1, <2>3 DEF OldRows
<1>8. lastReset' \in Nat /\ lastReset' <= version' /\ ResetType'
  BY <1>1, <1>2 DEF ResetInv, ResetType, Idle
<1>9. ~ OldReport(lastReset)' /\ ~ OldReport(reset.made)'
  BY <1>1 DEF OldReport, Idle
<1>. QED
  BY <1>1, <1>3, <1>6, <1>7, <1>8, <1>9 DEF ResetInv

LEMMA ResetMapKeepsReset ==
  ASSUME Types, ResetInv, ResetMap
  PROVE  ResetInv'
<1>1. /\ UNCHANGED <<maps, logRows, report, lastReset>> /\ Change
      /\ reset' = [step |-> "id", made |-> version + 1]
  BY DEF ResetMap, tables, history
<1>2. version' = version + 1 /\ version \in Nat
  BY <1>1, Numbers DEF Change
<1>3. LatestMapID' = LatestMapID
  BY <1>1, SameLatest
<1>4. /\ OldRows(lastReset)' = OldRows(lastReset)
      /\ OldReport(lastReset)' = OldReport(lastReset)
  BY <1>1, <1>3 DEF OldRows, OldReport
<1>5. lastReset' \in Nat /\ lastReset' <= version'
  BY <1>1, <1>2 DEF ResetInv
<1>6. ResetType'
  BY <1>1, <1>2 DEF ResetType
<1>. QED
  BY <1>1, <1>4, <1>5, <1>6 DEF ResetInv

\* The id read is that of the log to be deleted, as long as nobody saves.
LEMMA GetResetIDKeepsReset ==
  ASSUME Types, ResetInv, NEW ok \in BOOLEAN, GetResetID(ok)
  PROVE  ResetInv'
<1>1. /\ UNCHANGED <<maps, logRows, report, version, lastReset>> /\ reset.step = "id"
      /\ reset' = [step |-> "delete", made |-> IF ok THEN reset.made ELSE lastReset,
                   id |-> IF ok THEN LatestMapID ELSE -1]
  BY DEF GetResetID, tables, history
<1>2. LatestMapID \in Int /\ LatestMapID' = LatestMapID
  BY <1>1, SameLatest, Latest, Numbers
<1>3. /\ OldRows(lastReset)' = OldRows(lastReset)
      /\ OldReport(lastReset)' = OldReport(lastReset)
  BY <1>1, <1>2 DEF OldRows, OldReport
<1>4. /\ lastReset \in Nat /\ lastReset <= version
      /\ reset.made \in Nat /\ reset.made <= version
  BY <1>1 DEF ResetInv, ResetType, Idle
<1>5. /\ reset'.made \in Nat /\ reset'.made <= version' /\ reset'.id \in Int
      /\ reset'.made = lastReset \/ reset'.id = LatestMapID
  BY <1>1, <1>2, <1>4
<1>6. ResetType'
  BY <1>1, <1>5 DEF ResetType
<1>. QED
  BY <1>1, <1>2, <1>3, <1>4, <1>5, <1>6 DEF ResetInv

LEMMA ResetInstructionsKeepsReset ==
  ASSUME Types, ResetInv, NEW ok \in BOOLEAN, ResetInstructions(ok)
  PROVE  ResetInv'
<1>1. /\ UNCHANGED <<maps, version, report>> /\ reset.step = "delete" /\ reset' = Idle
      /\ logRows' = IF ok THEN logRows \ LogOf(logRows, reset.id + 1) ELSE logRows
      /\ lastReset' = IF ok THEN reset.made ELSE lastReset
  BY DEF ResetInstructions, memory
<1>2. LatestMapID' = LatestMapID /\ ResetType'
  BY <1>1, SameLatest DEF ResetType
<1>3. lastReset' \in Nat /\ lastReset' <= version'
  BY <1>1 DEF ResetInv, ResetType, Idle
<1>4. CASE lastReset' = lastReset
  <2>1. OldRows(lastReset)' \subseteq OldRows(lastReset)
    BY <1>1, <1>2, <1>4 DEF OldRows, LogOf
  <2>2. OldReport(lastReset)' = OldReport(lastReset)
    BY <1>1, <1>2, <1>4 DEF OldReport
  <2>. QED
    BY <1>1, <1>2, <1>3, <2>1, <2>2 DEF ResetInv, Idle
<1>5. CASE ok /\ reset.id = LatestMapID
  <2>1. OldRows(lastReset)' = {}
    BY <1>1, <1>2, <1>5 DEF OldRows, LogOf
  <2>. QED
    BY <1>1, <1>2, <1>3, <2>1 DEF ResetInv, Idle
<1>6. CASE ok /\ reset.id # LatestMapID /\ reset.made # lastReset
  <2>1. OldRows(reset.made) = {} /\ ~ OldReport(reset.made)
    BY <1>1, <1>6 DEF ResetInv
  <2>2. OldRows(lastReset)' = {}
    BY <1>1, <1>2, <1>6, <2>1 DEF OldRows, LogOf
  <2>. QED
    BY <1>1, <1>2, <1>3, <2>2 DEF ResetInv, Idle
<1>. QED
  BY <1>1, <1>4, <1>5, <1>6

LEMMA CalmKeepsReset ==
  ASSUME Types, ResetInv, CalmStep
  PROVE  ResetInv'
<1>1. CASE ResetMap \/ \E ok \in BOOLEAN : GetResetID(ok)
  BY <1>1, ResetMapKeepsReset, GetResetIDKeepsReset
<1>2. CASE \/ \E ok \in BOOLEAN :
                \/ \E name \in Names \cup {Earlier} : RequestMap(name, ok)
                \/ GetSavedID(ok) \/ InsertMap(ok) \/ SaveRover(ok)
                \/ RetriveMap(ok) \/ RetriveRover(ok) \/ RetriveInstruction(ok)
           \/ LoadMap
           \/ Restart
           \/ UNCHANGED vars
  <2>1. UNCHANGED lastReset /\ (reset' = reset \/ reset' = Idle)
    BY <1>2 DEF RequestMap, GetSavedID, InsertMap, SaveRover, RetriveMap, RetriveRover,
                RetriveInstruction, LoadMap, Restart, vars, handlers, history
  <2>. QED
    BY <2>1, CalmSteps, OthersKeepReset
<1>. QED
  BY <1>1, <1>2 DEF CalmStep

LEMMA NextKeepsReset ==
  ASSUME Types, LogInv, ResetInv, [Next]_vars
  PROVE  ResetInv'
BY LogSteps, CalmKeepsReset, SaveKeepsReset, ReportBeginKeepsReset, ReportInsertKeepsReset,
   ResetInstructionsKeepsReset

LEMMA ResetInvHolds == Spec => []ResetInv
<1>1. Init => ResetInv
  BY DEF Init, ResetInv, ResetType, Idle, OldRows, OldReport, LogOf
<1>2. Types /\ LogInv /\ ResetInv /\ [Next]_vars => ResetInv'
  BY NextKeepsReset
<1>. QED
  BY <1>1, <1>2, LogsHold, PTL DEF Spec

(***************************************************************************)
(* However reports, saves and resets interleave, a reset leaves at most    *)
(* the one instruction that was on its way in the log of the map being     *)
(* driven (HTTPPost.go:137-146, SQLdb.go:188-219).                         *)
(***************************************************************************)
THEOREM ResetLeavesOneHolds == Spec => []ResetLeavesOne
<1>1. ResetInv => ResetLeavesOne
  <2>. SUFFICES ASSUME ResetInv PROVE Cardinality(OldRows(lastReset)) <= 1
    BY DEF ResetLeavesOne, OldRows
  <2>1. \A r, s \in OldRows(lastReset) : r = s
    BY DEF ResetInv
  <2>2. CASE OldRows(lastReset) = {}
    BY <2>2, FS_EmptySet
  <2>3. CASE OldRows(lastReset) # {}
    <3>1. PICK r : OldRows(lastReset) = {r}
      BY <2>1, <2>3
    <3>2. Cardinality({r}) = 1
      BY FS_Singleton
    <3>3. Cardinality(OldRows(lastReset)) = 1
      BY <3>1, <3>2
    <3>. QED
      BY <3>3
  <2>. QED
    BY <2>2, <2>3
<1>. QED
  BY <1>1, ResetInvHolds, PTL

-----------------------------------------------------------------------------
\* A map that has got the id of which a reset deletes was saved meanwhile.
KeptInv ==
  reset.step = "delete" /\ reset.id + 1 \in DOMAIN maps =>
    savedAt[reset.id + 1] >= reset.made

LEMMA NextKeepsKept ==
  ASSUME Types, ResetInv, KeptInv, [Next]_vars
  PROVE  KeptInv'
<1>0. /\ Len(maps) \in Nat /\ DOMAIN maps = 1..Len(maps) /\ version \in Nat
      /\ savedAt \in Seq(Nat) /\ Len(savedAt) = Len(maps)
  BY Numbers
<1>1. ASSUME NEW ok \in BOOLEAN, GetResetID(ok) PROVE KeptInv'
  <2>1. UNCHANGED maps /\ reset'.id \in {-1, LatestMapID}
    BY <1>1 DEF GetResetID, tables
  <2>2. reset'.id = -1 \/ reset'.id = Len(maps)
    BY <2>1, Latest
  <2>3. reset'.id + 1 \notin DOMAIN maps
    BY <1>0, <2>2
  <2>. QED
    BY <2>1, <2>3 DEF KeptInv
<1>2. ASSUME NEW ok \in BOOLEAN, NEW name \in Names, Save(name, ok) PROVE KeptInv'
  <2>1. /\ maps' = (IF ok THEN Append(maps, name) ELSE maps)
        /\ savedAt' = (IF ok THEN Append(savedAt, version) ELSE savedAt)
        /\ reset' = reset
    BY <1>2 DEF Save
  <2>2. CASE ~ ok
    BY <2>1, <2>2 DEF KeptInv
  <2>3. CASE ok
    <3>. SUFFICES ASSUME reset.step = "delete", reset.id + 1 \in DOMAIN maps'
                  PROVE  savedAt'[reset.id + 1] >= reset.made
      BY <2>1 DEF KeptInv
    <3>1. reset.made \in Nat /\ reset.made <= version /\ reset.id \in Int
      BY DEF ResetInv, ResetType, Idle
    <3>2. maps \in Seq(AllNames) /\ name \in AllNames
      BY DEF Types, Inv, TablesOK, AllNames
    <3>3. reset.id + 1 \in 1..(Len(maps) + 1)
      BY <2>1, <2>3, <3>2
    <3>4. CASE reset.id + 1 \in DOMAIN maps
      BY <1>0, <2>1, <2>3, <3>1, <3>4 DEF KeptInv
    <3>5. CASE reset.id + 1 = Len(maps) + 1
      BY <1>0, <2>1, <2>3, <3>1, <3>5
    <3>. QED
      BY <1>0, <3>3, <3>4, <3>5
  <2>. QED
    BY <2>2, <2>3
<1>3. ASSUME UNCHANGED <<maps, savedAt>>, reset' = reset \/ reset'.step # "delete"
      PROVE  KeptInv'
  BY <1>3 DEF KeptInv
<1>4. ASSUME NEW ok \in BOOLEAN,
             ReportBegin(ok) \/ ReportInsert(ok) \/ ResetInstructions(ok)
      PROVE  KeptInv'
  <2>1. UNCHANGED <<maps, savedAt>>
    BY <1>4 DEF ReportBegin, ReportInsert, ResetInstructions, tables, history
  <2>2. reset' = reset \/ reset' = Idle
    BY <1>4 DEF ReportBegin, ReportInsert, ResetInstructions
  <2>3. reset' = reset \/ reset'.step # "delete"
    BY <2>2 DEF Idle
  <2>. QED
    BY <1>3, <2>1, <2>3
<1>5. ASSUME CalmStep PROVE KeptInv'
  <2>1. UNCHANGED <<maps, savedAt>>
    BY <1>5, CalmSteps DEF Calm
  <2>2. CASE \E ok \in BOOLEAN : GetResetID(ok)
    BY <1>1, <2>2
  <2>3. CASE ResetMap \/ Restart
    <3>1. reset' = [step |-> "id", made |-> version + 1] \/ reset' = Idle
      BY <2>3 DEF ResetMap, Restart
    <3>2. reset'.step # "delete"
      BY <3>1 DEF Idle
    <3>. QED
      BY <1>3, <2>1, <3>2
  <2>4. CASE \/ \E ok \in BOOLEAN :
                  \/ \E name \in Names \cup {Earlier} : RequestMap(name, ok)
                  \/ GetSavedID(ok) \/ InsertMap(ok) \/ SaveRover(ok)
                  \/ RetriveMap(ok) \/ RetriveRover(ok) \/ RetriveInstruction(ok)
             \/ LoadMap \/ UNCHANGED vars
    BY <1>3, <2>1, <2>4 DEF RequestMap, GetSavedID, InsertMap, SaveRover, RetriveMap,
       RetriveRover, RetriveInstruction, LoadMap, vars, handlers
  <2>. QED
    BY <1>5, <2>2, <2>3, <2>4 DEF CalmStep
<1>. QED
  BY <1>2, <1>4, <1>5, LogSteps

LEMMA KeptInvHolds == Spec => []KeptInv
<1>1. Init => KeptInv
  BY DEF Init, KeptInv, Idle
<1>2. Types /\ ResetInv /\ KeptInv /\ [Next]_vars => KeptInv'
  BY NextKeepsKept
<1>. QED
  BY <1>1, <1>2, LogsHold, ResetInvHolds, PTL DEF Spec

\* Only a reset takes instructions from a log.
LEMMA OnlyResetDeletes ==
  ASSUME [Next]_vars, NEW row \in logRows \ logRows'
  PROVE  reset.step = "delete" /\ row.map = reset.id + 1
<1>1. CASE \E ok \in BOOLEAN : ResetInstructions(ok)
  BY <1>1 DEF ResetInstructions, LogOf
<1>2. CASE \E ok \in BOOLEAN :
             \/ ReportBegin(ok) \/ ReportInsert(ok)
             \/ \E name \in Names : Save(name, ok)
  <2>1. logRows \subseteq logRows'
    BY <1>2 DEF ReportBegin, ReportInsert, Save, tables
  <2>. QED
    BY <2>1
<1>3. CASE CalmStep
  BY <1>3, CalmSteps DEF Calm
<1>. QED
  BY <1>1, <1>2, <1>3, LogSteps

(***************************************************************************)
(* However saves and resets interleave, a reset takes nothing from the log *)
(* of a map that was saved before the reset began (HTTPPost.go:137-146).   *)
(***************************************************************************)
THEOREM SavedLogsKeptHolds == Spec => SavedLogsKept
<1>1. ASSUME KeptInv, [Next]_vars
      PROVE  \A row \in logRows \ logRows' :
               row.map \in DOMAIN maps => savedAt[row.map] >= reset.made
  <2>. SUFFICES ASSUME NEW row \in logRows \ logRows', row.map \in DOMAIN maps
                PROVE  savedAt[row.map] >= reset.made
    OBVIOUS
  <2>1. reset.step = "delete" /\ row.map = reset.id + 1
    BY <1>1, OnlyResetDeletes
  <2>. QED
    BY <1>1, <2>1 DEF KeptInv
<1>. QED
  BY <1>1, KeptInvHolds, PTL DEF Spec, SavedLogsKept

-----------------------------------------------------------------------------
(***************************************************************************)
(* What the history page is shown.                                         *)
(***************************************************************************)
DbType == dbMap = [tiles |-> dbMap.tiles, rover |-> dbMap.rover, log |-> dbMap.log]

RequestType ==
  \/ request = Idle
  \/ /\ request = [step |-> request.step, id |-> request.id, want |-> request.want]
     /\ request.step \in {"tiles", "rover", "log"}
  \/ request = [step |-> "done", want |-> request.want]

\* A request on its way has got, up to its step, what is wanted of it.
ShowInv ==
  /\ DbType /\ RequestType
  /\ request.step = "idle" => dbMap.log = <<>>
  /\ request.step \in {"tiles", "rover", "log"} /\ request.want # Unknown =>
       /\ dbMap.log = <<>>
       /\ request.id \in Archivable /\ request.want = Stored(request.id)
       /\ request.step # "tiles" => dbMap.tiles = request.want.tiles
       /\ request.step = "log" => dbMap.rover = request.want.rover
  /\ ShownIsSaved

\* What can be loaded of a map stays, in every step.
LEMMA StoredKept ==
  ASSUME Inv, [Next]_vars, NEW id \in Archivable
  PROVE  id \in Archivable' /\ Stored(id)' = Stored(id)
<1>1. /\ DOMAIN archived = Archivable /\ archived[id] = Stored(id)
      /\ DOMAIN archived' = Archivable'
      /\ archived' = [i \in Archivable' |-> Stored(i)']
  BY ArchivedIs DEF archived, Archivable
<1>2. id \in DOMAIN archived' /\ archived'[id] = archived[id]
  <2>1. [Archived!Next]_archived
    BY NextArchives
  <2>2. CASE archived' = archived
    BY <1>1, <2>2
  <2>3. CASE Archived!Next
    <3>1. PICK new \in Ids \ DOMAIN archived :
            /\ archived' \in [DOMAIN archived \cup {new} -> [tiles : Versions, rover : Versions]]
            /\ \A old \in DOMAIN archived : archived'[old] = archived[old]
      BY <2>3 DEF Archived!Next
    <3>. QED
      BY <1>1, <3>1
  <2>. QED
    BY <2>1, <2>2, <2>3
<1>. QED
  BY <1>1, <1>2

\* The handlers of reports, saves and resets leave a request alone.
LEMMA AloneKeepsShow ==
  ASSUME Inv, ShowInv, [Next]_vars, UNCHANGED <<dbMap, request>>
  PROVE  ShowInv'
<1>1. DbType' /\ RequestType'
  BY DEF ShowInv, DbType, RequestType, Idle
<1>2. ASSUME request.step \in {"tiles", "rover", "log"}, request.want # Unknown
      PROVE  request.id \in Archivable' /\ request.want = Stored(request.id)'
  <2>1. PICK id : id = request.id
    OBVIOUS
  <2>2. id \in Archivable /\ request.want = Stored(id)
    BY <1>2, <2>1 DEF ShowInv
  <2>3. id \in Archivable' /\ Stored(id)' = Stored(id)
    BY <2>2, StoredKept
  <2>4. Stored(request.id)' = Stored(id)'
    BY <2>1 DEF Stored
  <2>. QED
    BY <2>1, <2>2, <2>3, <2>4
<1>. QED
  BY <1>1, <1>2 DEF ShowInv, ShownIsSaved

\* A request of which nothing is expected any more, and whose log is empty.
LEMMA SpoilKeepsShow ==
  ASSUME ShowInv, dbMap' = [dbMap EXCEPT !.log = <<>>], request' = Spoil(request)
  PROVE  ShowInv'
<1>1. DbType' /\ dbMap'.log = <<>>
  BY DEF ShowInv, DbType
<1>2. CASE request = Idle
  <2>1. request' = Idle
    BY <1>2 DEF Spoil, Idle
  <2>. QED
    BY <1>1, <2>1 DEF ShowInv, RequestType, ShownIsSaved, Idle
<1>3. CASE /\ request = [step |-> request.step, id |-> request.id, want |-> request.want]
           /\ request.step \in {"tiles", "rover", "log"}
  <2>1. request' = [step |-> request.step, id |-> request.id, want |-> Unknown]
    BY <1>3 DEF Spoil
  <2>. QED
    BY <1>1, <1>3, <2>1 DEF ShowInv, RequestType, ShownIsSaved
<1>4. CASE request = [step |-> "done", want |-> request.want]
  <2>1. request' = [step |-> "done", want |-> Unknown]
    BY <1>4 DEF Spoil
  <2>. QED
    BY <1>1, <2>1 DEF ShowInv, RequestType, ShownIsSaved
<1>. QED
  BY <1>2, <1>3, <1>4 DEF ShowInv, RequestType

LEMMA LoadMapKeepsShow == ASSUME ShowInv, LoadMap PROVE ShowInv'
<1>1. dbMap' = [dbMap EXCEPT !.log = <<>>] /\ request' = Loaded(request)
  BY DEF LoadMap
<1>2. CASE request.step = "done"
  BY <1>1, <1>2 DEF Loaded, ShowInv, DbType, RequestType, ShownIsSaved, Idle
<1>3. CASE request.step # "done"
  BY <1>1, <1>3, SpoilKeepsShow DEF Loaded
<1>. QED
  BY <1>2, <1>3

LEMMA RequestMapKeepsShow ==
  ASSUME ShowInv, NEW name, NEW ok \in BOOLEAN, RequestMap(name, ok)
  PROVE  ShowInv'
<1>. DEFINE id == IF ok THEN MapID(name) ELSE -1
<1>1. /\ UNCHANGED <<maps, tileRows, roverRows, dbMap>>
      /\ request' = [step |-> "tiles", id |-> id,
                     want |-> IF request.step = "idle" /\ Complete(id)
                              THEN Stored(id) ELSE Unknown]
  BY DEF RequestMap, tables, memory
<1>. HIDE DEF id
<1>2. DbType' /\ RequestType'
  BY <1>1 DEF ShowInv, DbType, RequestType
<1>3. ASSUME request'.want # Unknown
      PROVE  /\ request'.id \in Archivable' /\ request'.want = Stored(request.id)'
             /\ dbMap'.log = <<>>
  <2>1. /\ request'.id = id /\ request'.want = Stored(id) /\ Complete(id)
        /\ request.step = "idle"
    BY <1>1, <1>3
  <2>. QED
    BY <1>1, <2>1 DEF Archivable, Complete, Stored, ShowInv
<1>. QED
  BY <1>1, <1>2, <1>3 DEF ShowInv, ShownIsSaved

\* A step of a request, which takes one part of what is stored.
LEMMA NextPart ==
  ASSUME ShowInv, NEW ok \in BOOLEAN, NEW step \in {"rover", "log"}, Go(step, ok),
         request.step \in {"tiles", "rover", "log"}
  PROVE  /\ request' = [step |-> step, id |-> request.id, want |-> request'.want]
         /\ request'.want # Unknown => ok /\ request'.want = request.want
<1>1. request = [step |-> request.step, id |-> request.id, want |-> request.want]
  BY DEF ShowInv, RequestType, Idle
<1>2. CASE ok
  BY <1>1, <1>2 DEF Go
<1>3. CASE ~ ok
  <2>1. Spoil(request) = [step |-> request.step, id |-> request.id, want |-> Unknown]
    BY <1>1 DEF Spoil
  <2>2. request' = [Spoil(request) EXCEPT !.step = step]
    BY <1>3 DEF Go
  <2>. QED
    BY <2>1, <2>2
<1>. QED
  BY <1>2, <1>3

LEMMA RetriveMapKeepsShow ==
  ASSUME ShowInv, NEW ok \in BOOLEAN, RetriveMap(ok)
  PROVE  ShowInv'
<1>1. /\ UNCHANGED <<maps, tileRows, roverRows>> /\ request.step = "tiles" /\ Go("rover", ok)
      /\ dbMap' = IF ok /\ tileRows[request.id] # <<>>
                  THEN [dbMap EXCEPT !.tiles = Last(tileRows[request.id])] ELSE dbMap
  BY DEF RetriveMap, tables
<1>2. /\ request' = [step |-> "rover", id |-> request.id, want |-> request'.want]
      /\ request'.want # Unknown => ok /\ request'.want = request.want
  BY <1>1, NextPart
<1>3. DbType' /\ RequestType' /\ dbMap'.log = dbMap.log
  BY <1>1, <1>2 DEF ShowInv, DbType, RequestType
<1>4. ASSUME request'.want # Unknown
      PROVE  /\ request'.id \in Archivable' /\ request'.want = Stored(request.id)'
             /\ dbMap'.tiles = request'.want.tiles /\ dbMap'.log = <<>>
  <2>1. /\ dbMap.log = <<>>
        /\ request.id \in Archivable /\ request.want = Stored(request.id) /\ ok
        /\ request'.want = request.want /\ request'.id = request.id
    BY <1>1, <1>2, <1>4 DEF ShowInv
  <2>2. dbMap'.tiles = Last(tileRows[request.id])
    BY <1>1, <2>1 DEF Archivable, Complete, ShowInv, DbType
  <2>. QED
    BY <1>1, <1>3, <2>1, <2>2 DEF Archivable, Complete, Stored
<1>. QED
  BY <1>2, <1>3, <1>4 DEF ShowInv, ShownIsSaved

LEMMA RetriveRoverKeepsShow ==
  ASSUME ShowInv, NEW ok \in BOOLEAN, RetriveRover(ok)
  PROVE  ShowInv'
<1>1. /\ UNCHANGED <<maps, tileRows, roverRows>> /\ request.step = "rover" /\ Go("log", ok)
      /\ dbMap' = IF ok /\ roverRows[request.id] # Unknown
                  THEN [dbMap EXCEPT !.rover = roverRows[request.id]] ELSE dbMap
  BY DEF RetriveRover, tables
<1>2. /\ request' = [step |-> "log", id |-> request.id, want |-> request'.want]
      /\ request'.want # Unknown => ok /\ request'.want = request.want
  BY <1>1, NextPart
<1>3. DbType' /\ RequestType' /\ dbMap'.log = dbMap.log /\ dbMap'.tiles = dbMap.tiles
  BY <1>1, <1>2 DEF ShowInv, DbType, RequestType
<1>4. ASSUME request'.want # Unknown
      PROVE  /\ request'.id \in Archivable' /\ request'.want = Stored(request.id)'
             /\ dbMap'.tiles = request'.want.tiles /\ dbMap'.rover = request'.want.rover
             /\ dbMap'.log = <<>>
  <2>1. /\ dbMap.log = <<>> /\ request.id \in Archivable /\ request.want = Stored(request.id) /\ ok
        /\ request'.want = request.want /\ request'.id = request.id
        /\ dbMap.tiles = request.want.tiles
    BY <1>1, <1>2, <1>4 DEF ShowInv
  <2>2. dbMap'.rover = roverRows[request.id]
    BY <1>1, <2>1 DEF Archivable, Complete, ShowInv, DbType
  <2>. QED
    BY <1>1, <1>3, <2>1, <2>2 DEF Archivable, Complete, Stored
<1>. QED
  BY <1>2, <1>3, <1>4 DEF ShowInv, ShownIsSaved

LEMMA RetriveInstructionKeepsShow ==
  ASSUME ShowInv, NEW ok \in BOOLEAN, RetriveInstruction(ok)
  PROVE  ShowInv'
<1>. DEFINE log == LogOf(logRows, request.id)
<1>1. /\ request.step = "log"
      /\ dbMap' = IF ok THEN [dbMap EXCEPT !.log = Append(@, log)] ELSE dbMap
      /\ request' = [step |-> "done",
                     want |-> IF ok /\ request.want # Unknown
                              THEN [tiles |-> request.want.tiles,
                                    rover |-> request.want.rover, log |-> <<log>>]
                              ELSE Unknown]
  BY DEF RetriveInstruction
<1>. HIDE DEF log
<1>2. DbType' /\ RequestType'
  BY <1>1 DEF ShowInv, DbType, RequestType
<1>3. ASSUME request'.want # Unknown PROVE dbMap' = request'.want
  <2>1. /\ ok /\ request.want # Unknown
        /\ request'.want = [tiles |-> request.want.tiles,
                            rover |-> request.want.rover, log |-> <<log>>]
    BY <1>1, <1>3
  <2>2. /\ dbMap.tiles = request.want.tiles /\ dbMap.rover = request.want.rover
        /\ dbMap = [tiles |-> dbMap.tiles, rover |-> dbMap.rover, log |-> <<>>]
    BY <1>1, <2>1 DEF ShowInv, DbType
  <2>3. dbMap' = [tiles |-> dbMap.tiles, rover |-> dbMap.rover, log |-> <<log>>]
    BY <1>1, <2>1, <2>2
  <2>. QED
    BY <2>1, <2>2, <2>3
<1>. QED
  BY <1>1, <1>2, <1>3 DEF ShowInv, ShownIsSaved

LEMMA NextKeepsShow ==
  ASSUME Inv, ShowInv, [Next]_vars
  PROVE  ShowInv'
<1>1. CASE \E ok \in BOOLEAN :
             \/ GetResetID(ok)
             \/ \E name \in Names \cup {Earlier} : RequestMap(name, ok)
             \/ RetriveMap(ok) \/ RetriveRover(ok) \/ RetriveInstruction(ok)
  <2>1. ASSUME NEW ok \in BOOLEAN, GetResetID(ok) PROVE ShowInv'
    BY <2>1, SpoilKeepsShow DEF GetResetID
  <2>. QED
    BY <1>1, <2>1, RequestMapKeepsShow, RetriveMapKeepsShow,
       RetriveRoverKeepsShow, RetriveInstructionKeepsShow
<1>2. CASE LoadMap
  BY <1>2, LoadMapKeepsShow
<1>3. CASE Restart
  BY <1>3 DEF Restart, NoMap, ShowInv, DbType, RequestType, ShownIsSaved, Idle
<1>4. CASE \/ \E ok \in BOOLEAN :
                \/ ReportBegin(ok) \/ ReportInsert(ok)
                \/ \E name \in Names : Save(name, ok)
                \/ GetSavedID(ok) \/ InsertMap(ok) \/ SaveRover(ok)
                \/ ResetInstructions(ok)
           \/ ResetMap
           \/ UNCHANGED vars
  <2>1. UNCHANGED <<dbMap, request>>
    BY <1>4 DEF ReportBegin, ReportInsert, Save, GetSavedID, InsertMap, SaveRover,
                ResetMap, ResetInstructions, vars, memory, handlers
  <2>. QED
    BY <2>1, AloneKeepsShow
<1>. QED
  BY <1>1, <1>2, <1>3, <1>4 DEF Next

LEMMA ShowInvHolds == Spec => []ShowInv
<1>1. Init => ShowInv
  BY DEF Init, NoMap, ShowInv, DbType, RequestType, ShownIsSaved, Idle
<1>2. Types /\ ShowInv /\ [Next]_vars => ShowInv'
  BY NextKeepsShow DEF Types
<1>. QED
  BY <1>1, <1>2, LogsHold, PTL DEF Spec

(***************************************************************************)
(* What the history page gets of a complete map is what is stored of it    *)
(* and its own log, whatever is reported and saved meanwhile               *)
(* (HTTPPost.go:166-181, HTTPGet.go:94-101).                               *)
(***************************************************************************)
THEOREM ShownIsSavedHolds == Spec => []ShownIsSaved
BY ShowInvHolds, PTL DEF ShowInv

(***************************************************************************)
(* The tables, the map loaded last and the handlers keep their types; an   *)
(* id never exceeds what the names allow (SQLdb.go, map_db.go).            *)
(***************************************************************************)
THEOREM StoreTypeCorrect == Spec => []TypeOK
<1>1. Types /\ ResetInv /\ ShowInv => TypeOK
  <2>. SUFFICES ASSUME Types, ResetInv, ShowInv PROVE TypeOK
    OBVIOUS
  <2>1. /\ maps \in Seq(Names \cup {Earlier})
        /\ tileRows \in [Ids -> Seq(Versions)]
        /\ roverRows \in [Ids -> Versions \cup {Unknown}]
        /\ version \in Versions /\ budget.names \subseteq Names
    BY DEF Types, Inv, TablesOK, AllNames
  <2>2. /\ logRows \subseteq [map : Ids, from : Versions]
        /\ savedAt \in Seq(Versions) /\ Len(savedAt) = Len(maps)
        /\ report.step \in {"idle", "insert"}
    BY DEF Types, LogTypes, ReportType, Idle
  <2>3. save.step \in {"idle", "id", "tiles", "rover"}
    BY DEF Types, Inv, SaveOK, Idle
  <2>4. reset.step \in {"idle", "id", "delete"}
    BY DEF ResetInv, ResetType, Idle
  <2>5. lastReset \in Versions
    <3>1. lastReset \in Nat /\ lastReset <= version
      BY DEF ResetInv
    <3>2. version \in Nat /\ version <= MaxVersion /\ MaxVersion \in Nat
      BY Numbers, MapStoreAssumption
    <3>. QED
      BY <3>1, <3>2 DEF Versions
  <2>6. request.step \in {"idle", "tiles", "rover", "log", "done"}
    BY DEF ShowInv, RequestType, Idle
  <2>7. DOMAIN dbMap = DOMAIN NoMap
    BY DEF ShowInv, DbType, NoMap
  <2>. QED
    BY <2>1, <2>2, <2>3, <2>4, <2>5, <2>6, <2>7 DEF TypeOK
<1>. QED
  BY <1>1, LogsHold, ResetInvHolds, ShowInvHolds, PTL

=============================================================================
