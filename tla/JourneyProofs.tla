--------------------------- MODULE JourneyProofs ---------------------------
(***************************************************************************)
(* The rover never drives into an obstacle, and gets where it was sent:    *)
(* what is still to be done, in the queue, on its way or in the server,    *)
(* leads through free tiles only, however stops, reports and plans         *)
(* interleave.                                                             *)
(***************************************************************************)
EXTENDS MissionProofs, FiniteSetTheorems

-----------------------------------------------------------------------------
(***************************************************************************)
(* Shortest paths: no tile but the second is next to the first, none is    *)
(* entered twice, and there is one if there is a walk.                     *)
(***************************************************************************)
\* The walks of a stage keep away from the tiles around the first one.
IsStraight(map, from, near, p) ==
  /\ p \in Seq(Tiles) /\ Len(p) \in Nat \ {0} /\ p[1] = from
  /\ \A i \in 1..Len(p) : p[i] \in near
  /\ \A i \in 1..Len(p) : \A j \in 1..Len(p) : i # j => p[i] # p[j]
  /\ \A k \in 3..Len(p) : p[k] \notin FreeNeighbours(map, from)
  /\ Len(p) > 1 => FreeNeighbours(map, from) \subseteq near

LEMMA FartherIsStraight ==
  ASSUME NEW map, NEW from \in Tiles, NEW to, NEW s \in Stages, to \notin s.near,
         \A p \in s.paths : IsStraight(map, from, s.near, p),
         NEW q \in Farther(map, s)
  PROVE  IsStraight(map, from, NextStage(map, to, s).near, q)
<1> DEFINE near == NextStage(map, to, s).near
<1>1. near = s.near \cup {p[Len(p)] : p \in Farther(map, s)}
  BY DEF NextStage
<1>2. PICK p \in s.paths : \E t \in FreeNeighbours(map, p[Len(p)]) :
           /\ p \in Seq(Tiles) /\ Len(p) \in Nat /\ t \in Tiles /\ t \notin s.near
           /\ q = Append(p, t) /\ q \in Seq(Tiles) /\ Len(q) = Len(p) + 1
           /\ q[Len(q)] = t /\ \A i \in 1..Len(p) : q[i] = p[i]
  BY FartherIsAppended
<1>3. PICK t \in FreeNeighbours(map, p[Len(p)]) :
           /\ p \in Seq(Tiles) /\ Len(p) \in Nat /\ t \in Tiles /\ t \notin s.near
           /\ q = Append(p, t) /\ q \in Seq(Tiles) /\ Len(q) = Len(p) + 1
           /\ q[Len(q)] = t /\ \A i \in 1..Len(p) : q[i] = p[i]
  BY <1>2
<1>4. IsStraight(map, from, s.near, p)
  OBVIOUS
<1>5. near = s.near \cup near /\ t \in near
  BY <1>1, <1>3
<1>6. Len(p) = 1 => FreeNeighbours(map, from) \subseteq near
  <2> SUFFICES ASSUME Len(p) = 1, NEW u \in FreeNeighbours(map, from), u \notin s.near
               PROVE  u \in near
    BY <1>5
  <2>1. p[Len(p)] = from
    BY <1>4 DEF IsStraight
  <2>2. Append(p, u) \in Farther(map, s)
    <3>1. Append(p, u) \in {Append(p, v) : v \in FreeNeighbours(map, p[Len(p)]) \ s.near}
      BY <2>1
    <3>2. QED
      BY <3>1, Zenon DEF Farther
  <2>3. u \in Tiles
    BY NeighboursAreTiles DEF FreeNeighbours
  <2>4. Append(p, u)[Len(Append(p, u))] = u
    BY <1>3, <2>3, AppendProperties
  <2>5. QED
    BY <1>1, <2>2, <2>4
<1> HIDE DEF near
<1>7. Len(p) > 1 => t \notin FreeNeighbours(map, from)
  BY <1>3, <1>4 DEF IsStraight
<1>8. \A i \in 1..Len(q) : i \in 1..Len(p) \/ i = Len(q)
  BY <1>3
<1>9. FreeNeighbours(map, from) \subseteq near
  <2>1. Len(p) > 1 => FreeNeighbours(map, from) \subseteq s.near
    BY <1>4 DEF IsStraight
  <2>2. Len(p) = 1 \/ Len(p) > 1
    <3>1. Len(p) \in Nat \ {0}
      BY <1>4, Zenon DEF IsStraight
    <3>2. QED
      BY <3>1
  <2>3. QED
    BY <1>5, <1>6, <2>1, <2>2
<1>10. \A i \in 1..Len(q) : q[i] \in near
  BY <1>3, <1>4, <1>5, <1>8 DEF IsStraight
<1>11. \A i \in 1..Len(q) : \A j \in 1..Len(q) : i # j => q[i] # q[j]
  <2>1. \A i \in 1..Len(p) : q[i] = p[i] /\ p[i] # t
    BY <1>3, <1>4 DEF IsStraight
  <2>2. QED
    BY <1>3, <1>4, <1>8, <2>1 DEF IsStraight
<1>12. \A k \in 3..Len(q) : q[k] \notin FreeNeighbours(map, from)
  <2>1. \A k \in 3..Len(q) : k \in 3..Len(p) \/ (k = Len(q) /\ Len(p) > 1)
    BY <1>3
  <2>2. QED
    BY <1>3, <1>4, <1>7, <2>1 DEF IsStraight
<1>13. q[1] = from /\ Len(q) \in Nat \ {0}
  BY <1>3, <1>4 DEF IsStraight
<1>14. IsStraight(map, from, near, q)
  BY <1>3, <1>9, <1>10, <1>11, <1>12, <1>13 DEF IsStraight
<1>15. QED
  BY <1>14 DEF near

\* What stage s of the search from one tile to another is like.
IsStage(map, from, to, n, s) ==
  /\ s \in Stages /\ from \in s.near
  /\ \A p \in s.paths : IsStraight(map, from, s.near, p)
  /\ to \in s.near => \E p \in s.paths : p[Len(p)] = to
  /\ to \notin s.near =>
       /\ \A t \in s.near : \/ FreeNeighbours(map, t) \subseteq s.near
                            \/ \E p \in s.paths : p[Len(p)] = t
       /\ s.paths = {} \/ Cardinality(s.near) > n

LEMMA TilesCount == IsFiniteSet(Tiles) /\ Cardinality(Tiles) = Size * Size
<1>1. 0 \in Int /\ Size * Size - 1 \in Int /\ 0 <= Size * Size - 1
  BY SizeSquared
<1>2. QED
  BY <1>1, FS_Interval, SizeSquared DEF Tiles

LEMMA NextIsStage ==
  ASSUME NEW map, NEW from \in Tiles, NEW to, NEW n \in Nat, NEW s,
         IsStage(map, from, to, n, s)
  PROVE  IsStage(map, from, to, n + 1, NextStage(map, to, s))
<1> DEFINE e == NextStage(map, to, s)
<1>1. s \in Stages /\ e \in Stages /\ \A p \in s.paths : IsStraight(map, from, s.near, p)
  BY NextStageType DEF IsStage
<1>2. CASE to \in s.near
  <2>1. e = s
    BY <1>2 DEF NextStage
  <2> HIDE DEF e
  <2>2. IsStage(map, from, to, n + 1, e)
    BY <1>2, <2>1 DEF IsStage
  <2>3. QED
    BY <2>2 DEF e
<1>3. CASE to \notin s.near
  <2>1. /\ e.paths = Farther(map, s)
        /\ e.near = s.near \cup {p[Len(p)] : p \in Farther(map, s)}
    BY <1>3 DEF NextStage
  <2>2. \A p \in e.paths : IsStraight(map, from, e.near, p)
    BY <1>1, <1>3, <2>1, FartherIsStraight
  <2>3. to \in e.near => \E p \in e.paths : p[Len(p)] = to
    BY <1>3, <2>1
  <2>4. ASSUME NEW t \in e.near
        PROVE  FreeNeighbours(map, t) \subseteq e.near \/ \E p \in e.paths : p[Len(p)] = t
    <3>1. CASE t \notin s.near
      BY <2>1, <3>1
    <3>2. CASE t \in s.near /\ FreeNeighbours(map, t) \subseteq s.near
      BY <2>1, <3>2
    <3>3. CASE t \in s.near /\ \E p \in s.paths : p[Len(p)] = t
      <4>1. PICK p \in s.paths : p[Len(p)] = t
        BY <3>3
      <4>2. ASSUME NEW u \in FreeNeighbours(map, t), u \notin s.near PROVE u \in e.near
        <5>1. Append(p, u) \in {Append(p, v) : v \in FreeNeighbours(map, p[Len(p)]) \ s.near}
          BY <4>1, <4>2
        <5>2. Append(p, u) \in Farther(map, s)
          BY <5>1, Zenon DEF Farther
        <5>3. u \in Tiles /\ p \in Seq(Tiles)
          BY <1>1, NeighboursAreTiles DEF FreeNeighbours, Stages
        <5>4. Append(p, u)[Len(Append(p, u))] = u
          BY <5>3, AppendProperties
        <5>5. QED
          BY <2>1, <5>2, <5>4
      <4>3. QED
        BY <2>1, <4>2
    <3>4. QED
      BY <1>3, <3>1, <3>2, <3>3 DEF IsStage
  <2>5. e.paths = {} \/ Cardinality(e.near) > n + 1
    <3> SUFFICES ASSUME e.paths # {} PROVE Cardinality(e.near) > n + 1
      OBVIOUS
    <3>1. PICK q \in Farther(map, s) : TRUE
      BY <2>1
    <3>2. s.paths # {} /\ q[Len(q)] \notin s.near /\ q[Len(q)] \in e.near
      <4>1. s \in Stages
        BY <1>1
      <4>2. s.paths # {} /\ q[Len(q)] \notin s.near
        BY <3>1, <4>1, FartherIsAppended
      <4>3. QED
        BY <2>1, <3>1, <4>2
    <3>3. Cardinality(s.near) > n
      BY <1>3, <3>2 DEF IsStage
    <3>4. IsFiniteSet(s.near) /\ IsFiniteSet(e.near)
      <4>1. s.near \subseteq Tiles /\ e.near \subseteq Tiles
        BY <1>1 DEF Stages
      <4>2. QED
        BY <4>1, TilesCount, FS_Subset
    <3>5. /\ IsFiniteSet(s.near \cup {q[Len(q)]})
          /\ Cardinality(s.near \cup {q[Len(q)]}) = Cardinality(s.near) + 1
      BY <3>2, <3>4, FS_AddElement
    <3>6. /\ Cardinality(s.near \cup {q[Len(q)]}) <= Cardinality(e.near)
          /\ Cardinality(e.near) \in Nat /\ Cardinality(s.near) \in Nat
      <4>1. s.near \cup {q[Len(q)]} \subseteq e.near
        BY <2>1, <3>2
      <4>2. QED
        BY <3>4, <4>1, FS_Subset, FS_CardinalityType
    <3>7. QED
      BY <3>3, <3>5, <3>6
  <2>6. from \in e.near
    BY <2>1 DEF IsStage
  <2> HIDE DEF e
  <2>7. IsStage(map, from, to, n + 1, e)
    BY <1>1, <2>2, <2>3, <2>4, <2>5, <2>6 DEF IsStage
  <2>8. QED
    BY <2>7 DEF e
<1>4. QED
  BY <1>2, <1>3

LEMMA NearestIsStage ==
  ASSUME NEW map, NEW from \in Tiles, NEW to, from # to
  PROVE  \A n \in 0..(Size * Size) : IsStage(map, from, to, n, Nearest(map, from, to)[n])
<1> DEFINE N == Nearest(map, from, to)
<1>1. /\ N[0] = [paths |-> {<<from>>}, near |-> {from}]
      /\ \A i \in 0..(Size * Size) : N[i] \in Stages
      /\ \A i \in 1..(Size * Size) : N[i] = NextStage(map, to, N[i - 1])
  BY NearestIs
<1> HIDE DEF N
<1>2. IsStage(map, from, to, 0, N[0])
  <2>1. N[0] \in Stages /\ N[0].paths = {<<from>>} /\ N[0].near = {from}
    BY <1>1, SizeSquared
  <2>2. IsStraight(map, from, {from}, <<from>>)
    BY DEF IsStraight
  <2>3. Cardinality({from}) = 1
    BY FS_Singleton
  <2>4. <<from>>[Len(<<from>>)] = from
    OBVIOUS
  <2>5. QED
    BY <2>1, <2>2, <2>3, <2>4 DEF IsStage
<1> DEFINE S == {i \in Nat : i <= Size * Size => IsStage(map, from, to, i, N[i])}
<1>3. 0 \in S
  BY <1>2
<1>4. ASSUME NEW i \in Nat, i \in S PROVE i + 1 \in S
  <2> SUFFICES ASSUME i + 1 <= Size * Size PROVE IsStage(map, from, to, i + 1, N[i + 1])
    OBVIOUS
  <2>1. IsStage(map, from, to, i, N[i])
    BY <1>4, SizeSquared
  <2>2. i + 1 \in 1..(Size * Size) /\ (i + 1) - 1 = i
    BY SizeSquared
  <2>3. N[i + 1] = NextStage(map, to, N[i])
    BY <1>1, <2>2
  <2>4. QED
    BY <2>1, <2>3, NextIsStage
<1> HIDE DEF S
<1>5. Nat \subseteq S
  BY <1>3, <1>4, NatSetInduction, SizeSquared
<1>6. QED
  BY <1>5, SizeSquared DEF S, N

(***************************************************************************)
(* A shortest path enters no tile twice, and none next to its first tile   *)
(* but the second.                                                         *)
(***************************************************************************)
LEMMA ShortestPathsAreStraight ==
  ASSUME NEW map, NEW from \in Tiles, NEW to, NEW p \in ShortestPaths(map, from, to)
  PROVE  /\ \A i \in 1..Len(p) : \A j \in 1..Len(p) : i # j => p[i] # p[j]
         /\ \A k \in 2..Len(p) : map[p[k]] <= Empty
         /\ \A k \in 3..Len(p) : p[k] \notin Neighbours(from)
<1>1. IsWalk(map, p) /\ p[1] = from /\ Len(p) > 1 /\ from # to
  BY ShortestPathsAreWalks DEF ShortestPaths
<1>2. Size * Size \in 0..(Size * Size)
  BY SizeSquared
<1>3. IsStage(map, from, to, Size * Size, Nearest(map, from, to)[Size * Size])
  BY <1>1, <1>2, NearestIsStage
<1>4. p \in Nearest(map, from, to)[Size * Size].paths
  BY DEF ShortestPaths
<1>5. PICK near : IsStraight(map, from, near, p)
  BY <1>3, <1>4 DEF IsStage
<1>6. ASSUME NEW k \in 2..Len(p) PROVE map[p[k]] <= Empty
  <2>1. k - 1 \in 1..(Len(p) - 1) /\ (k - 1) + 1 = k
    BY <1>1 DEF IsWalk
  <2>2. p[k] \in FreeNeighbours(map, p[k - 1])
    BY <1>1, <2>1 DEF IsWalk
  <2>3. QED
    BY <2>2 DEF FreeNeighbours
<1>7. ASSUME NEW k \in 3..Len(p), p[k] \in Neighbours(from) PROVE FALSE
  <2>1. k \in 2..Len(p)
    BY <1>1 DEF IsWalk
  <2>2. p[k] \in FreeNeighbours(map, from)
    BY <1>6, <1>7, <2>1 DEF FreeNeighbours
  <2>3. QED
    BY <1>5, <2>2 DEF IsStraight
<1>8. \A i \in 1..Len(p) : \A j \in 1..Len(p) : i # j => p[i] # p[j]
  BY <1>5 DEF IsStraight
<1>9. QED
  BY <1>6, <1>7, <1>8

(***************************************************************************)
(* The search misses no destination: if a walk leads there, a shortest     *)
(* path does.  Each stage comes to a new tile until none is left.          *)
(***************************************************************************)
LEMMA SomeShortestPath ==
  ASSUME NEW map, NEW from \in Tiles, NEW to, from # to,
         NEW p, IsWalk(map, p), p[1] = from, p[Len(p)] = to
  PROVE  ShortestPaths(map, from, to) # {}
<1> DEFINE s == Nearest(map, from, to)[Size * Size]
<1>1. IsStage(map, from, to, Size * Size, s)
  BY NearestIsStage, SizeSquared
<1>2. to \in s.near => ShortestPaths(map, from, to) # {}
  BY <1>1 DEF IsStage, ShortestPaths
<1>3. ASSUME to \notin s.near PROVE FALSE
  <2> HIDE DEF s
  <2>1. s.near \subseteq Tiles /\ from \in s.near
    BY <1>1 DEF IsStage, Stages
  <2>2. Cardinality(s.near) <= Size * Size
    BY <2>1, TilesCount, FS_Subset
  <2>3. Cardinality(s.near) \in Nat
    BY <2>1, TilesCount, FS_Subset, FS_CardinalityType
  <2>4. s.paths = {}
    BY <1>1, <1>3, <2>2, <2>3, SizeSquared DEF IsStage
  <2>5. \A t \in s.near : FreeNeighbours(map, t) \subseteq s.near
    BY <1>1, <1>3, <2>4 DEF IsStage
  <2> DEFINE m == Len(p) - 1
             f == [i \in 0..m |-> p[i + 1]]
  <2>6. m \in Nat /\ Len(p) = m + 1
    BY DEF IsWalk
  <2>7. f[0] \in s.near
    BY <2>1, <2>6
  <2>8. ASSUME NEW i \in 1..m, f[i - 1] \in s.near PROVE f[i] \in s.near
    <3>1. f[i] = p[i + 1] /\ f[i - 1] = p[i]
      BY <2>6
    <3>2. p[i + 1] \in FreeNeighbours(map, p[i])
      BY DEF IsWalk
    <3>3. QED
      BY <2>5, <2>8, <3>1, <3>2
  <2>9. f[m] = to
    BY <2>6
  <2> HIDE DEF f, m
  <2>10. f[m] \in s.near
    <3>1. \A i \in 1..m : f[i - 1] \in s.near => f[i] \in s.near
      BY <2>8
    <3>2. \A i \in 0..m : f[i] \in s.near
      BY <2>6, <2>7, <3>1, StaysIn, Zenon
    <3>3. QED
      BY <2>6, <3>2
  <2>11. QED
    BY <1>3, <2>9, <2>10
<1>4. QED
  BY <1>2, <1>3

(***************************************************************************)
(* Where there was no way, there is none when fewer tiles are free.        *)
(***************************************************************************)
LEMMA NoWayStays ==
  ASSUME NEW map, NEW new, NEW from \in Tiles, NEW to,
         ShortestPaths(map, from, to) = {},
         \A t \in Tiles : new[t] <= Empty => map[t] <= Empty
  PROVE  ShortestPaths(new, from, to) = {}
<1> SUFFICES ASSUME NEW p \in ShortestPaths(new, from, to) PROVE FALSE
  OBVIOUS
<1>1. IsWalk(new, p) /\ p[1] = from /\ p[Len(p)] = to /\ from # to
  BY ShortestPathsAreWalks DEF ShortestPaths
<1>2. \A t : FreeNeighbours(new, t) \subseteq FreeNeighbours(map, t)
  BY NeighboursAreTiles DEF FreeNeighbours
<1>3. IsWalk(map, p)
  BY <1>1, <1>2 DEF IsWalk
<1>4. QED
  BY <1>1, <1>3, SomeShortestPath

-----------------------------------------------------------------------------
(***************************************************************************)
(* The instructions of a shortest path: a forward follows each turn, but   *)
(* for the first of the two turns of a rover that starts back, and for the *)
(* turns at the destination.                                               *)
(***************************************************************************)
TurnsBack(p, a) == (Heading(p, a, 1) - a) % 360 = 180

IsBrisk(d, back) ==
  /\ EndsForward(d)
  /\ \A i \in 1..(Len(d) - 1) :
       d[i].kind \in TurnKinds =>
         d[i + 1].kind = "forward" \/ (i = 1 /\ d[1] = Right /\ back)

LEMMA NeverBack ==
  ASSUME NEW t \in Tiles, NEW u \in Neighbours(t), NEW v \in Neighbours(u), v # t
  PROVE  (Direction(u, v) - Direction(t, u)) % 360 # 180
<1>1. u \in Tiles /\ v \in Tiles
  BY NeighboursAreTiles
<1>2. u \in {t - Size, t + Size, t - 1, t + 1} /\ v \in {u - Size, u + Size, u - 1, u + 1}
  BY DEF Neighbours
<1>3. t \in Int /\ u \in Int /\ v \in Int /\ Size \in Int
  BY <1>1, SizeAssumption DEF Tiles
<1>4. Direction(t, u) \in Rotations /\ Direction(u, v) \in Rotations
  BY <1>1, DirectionLeads
<1>5. ASSUME NEW a \in Rotations, NEW b \in Rotations, (b - a) % 360 = 180
      PROVE  \/ (a = 0 /\ b = 180) \/ (a = 90 /\ b = 270)
             \/ (a = 180 /\ b = 0) \/ (a = 270 /\ b = 90)
  BY <1>5 DEF Rotations
<1>6. QED
  BY <1>2, <1>3, <1>4, <1>5 DEF Direction

LEMMA LegIsBrisk ==
  ASSUME NEW p, IsPath(p), NEW a \in Rotations, NEW mode, mode # FullDiscovery,
         NEW d \in Seq(Moves), NEW i \in 1..(Len(p) - 1),
         IF i = 1 THEN d = <<>> ELSE IsBrisk(d, TurnsBack(p, a)) /\ p[i + 1] # p[i - 1]
  PROVE  IsBrisk(WithLeg(p, a, mode, d, i), TurnsBack(p, a))
<1> DEFINE before == Heading(p, a, i - 1)
           now == Heading(p, a, i)
           e == WithLeg(p, a, mode, d, i)
           turns == Turns(before, now)
           back == TurnsBack(p, a)
           f == <<Forward(1)>>
<1>1. Forward(1).kind = "forward" /\ Right.kind # "forward" /\ Left.kind # "forward"
  BY DEF Forward, Right, Left
<1>2. (i > 1 /\ now = before) \/ e = (d \o turns) \o f
  <2>1. ASSUME NEW s \in Seq(Moves) PROVE s \o <<>> = s
    OBVIOUS
  <2>2. Rotate(mode, FullDiscovery) = <<>>
    BY DEF Rotate
  <2>3. (d \o turns) \o f \in Seq(Moves)
    BY TurnsAreMoves, ConcatProperties DEF Moves
  <2>4. QED
    BY <2>1, <2>2, <2>3 DEF WithLeg
<1>3. CASE i > 1 /\ now = before
  <2>1. PICK v \in Nat : d # <<>> /\ d[Len(d)] = Forward(v)
    BY <1>3 DEF IsBrisk, EndsForward
  <2>2. e = [d EXCEPT ![Len(d)] = Forward(v + 1)]
    <3>1. e = [d EXCEPT ![Len(d)] = Forward(d[Len(d)].value + 1)]
      BY <1>3 DEF WithLeg
    <3>2. d[Len(d)].value = v
      BY <2>1 DEF Forward
    <3>3. QED
      BY <3>1, <3>2
  <2>3. Forward(v + 1) \in Moves /\ Len(d) \in 1..Len(d) /\ Len(d) \in Nat
    BY <2>1, EmptySeq, LenProperties DEF Moves
  <2>4. /\ e # <<>> /\ Len(e) = Len(d) /\ e[Len(e)] = Forward(v + 1)
        /\ \A k \in 1..Len(d) : k # Len(d) => e[k] = d[k]
    BY <2>1, <2>2, <2>3, ExceptSeq
  <2>5. Forward(v + 1).kind = "forward"
    BY DEF Forward
  <2> HIDE DEF e, back
  <2>6. ASSUME NEW k \in 1..(Len(e) - 1), e[k].kind \in TurnKinds
        PROVE  e[k + 1].kind = "forward" \/ (k = 1 /\ e[1] = Right /\ back)
    <3>1. e[k] = d[k] /\ k \in 1..(Len(d) - 1)
      BY <2>3, <2>4
    <3>2. d[k + 1].kind = "forward" \/ (k = 1 /\ d[1] = Right /\ back)
      BY <1>3, <2>6, <3>1 DEF IsBrisk, back
    <3>3. k + 1 = Len(d) \/ e[k + 1] = d[k + 1]
      BY <2>3, <2>4
    <3>4. QED
      BY <2>4, <2>5, <3>1, <3>2, <3>3
  <2>7. v + 1 \in Nat
    OBVIOUS
  <2>8. QED
    BY <2>4, <2>6, <2>7 DEF IsBrisk, EndsForward, e, back
<1>4. CASE i = 1 /\ e = (d \o turns) \o f
  <2>1. turns = <<>> \/ turns = <<Left>> \/ turns = <<Right>>
          \/ (turns = <<Right, Right>> /\ back)
    BY <1>4 DEF Turns, TurnsBack, Heading
  <2>2. d = <<>>
    BY <1>4
  <2>3. <<>> \o turns = turns
    BY <2>1
  <2>4. e = turns \o f
    BY <1>4, <2>2, <2>3
  <2> HIDE DEF e, back, turns
  <2>5. CASE turns = <<>>
    <3>1. e = <<Forward(1)>>
      BY <2>4, <2>5
    <3>2. QED
      BY <3>1 DEF IsBrisk, EndsForward, e, back
  <2>6. CASE \E x \in {Left, Right} : turns = <<x>>
    <3>1. PICK x \in {Left, Right} : e = <<x>> \o <<Forward(1)>>
      BY <2>4, <2>6, Zenon
    <3>2. Len(e) = 2 /\ e # <<>> /\ e[2] = Forward(1)
      BY <3>1
    <3>3. QED
      BY <1>1, <3>2 DEF IsBrisk, EndsForward, e, back
  <2>7. CASE turns = <<Right, Right>> /\ back
    <3>1. e = <<Right, Right>> \o <<Forward(1)>>
      BY <2>4, <2>7, Zenon
    <3>2. Len(e) = 3 /\ e # <<>> /\ e[1] = Right /\ e[3] = Forward(1)
      BY <3>1
    <3>3. QED
      BY <1>1, <2>7, <3>2 DEF IsBrisk, EndsForward, e, back
  <2>8. QED
    BY <2>1, <2>5, <2>6, <2>7
<1>5. CASE i > 1 /\ e = (d \o turns) \o f
  <2>1. turns = <<>> \/ turns = <<Left>> \/ turns = <<Right>>
    <3>1. i - 1 \in 1..(Len(p) - 1) /\ (i - 1) + 1 = i
      BY <1>5 DEF IsPath
    <3>2. /\ p[i - 1] \in Tiles /\ p[i] \in Neighbours(p[i - 1])
          /\ p[i + 1] \in Neighbours(p[i]) /\ p[i + 1] # p[i - 1]
      BY <1>5, <3>1, PathTiles DEF IsPath
    <3>3. before = Direction(p[i - 1], p[i]) /\ now = Direction(p[i], p[i + 1])
      BY <1>5, <3>1 DEF Heading
    <3>4. (now - before) % 360 # 180
      BY <3>2, <3>3, NeverBack
    <3>5. QED
      BY <3>4 DEF Turns
  <2>2. PICK v \in Nat : d # <<>> /\ d[Len(d)] = Forward(v)
    BY <1>5 DEF IsBrisk, EndsForward
  <2>3. /\ Len(d) \in Nat \ {0} /\ d[Len(d)].kind \notin TurnKinds
        /\ \A k \in 1..(Len(d) - 1) : d[k].kind \in TurnKinds =>
             d[k + 1].kind = "forward" \/ (k = 1 /\ d[1] = Right /\ back)
    <3>1. Len(d) \in Nat \ {0}
      BY <2>2, EmptySeq, LenProperties
    <3>2. d[Len(d)].kind \notin TurnKinds
      BY <2>2 DEF Forward, TurnKinds
    <3>3. QED
      BY <1>5, <3>1, <3>2 DEF IsBrisk
  <2> HIDE DEF e, back, turns
  <2>4. CASE turns = <<>>
    <3>1. /\ Len(e) = Len(d) + 1 /\ e[Len(d) + 1] = Forward(1)
          /\ \A k \in 1..Len(d) : e[k] = d[k]
      BY <1>5, <2>4
    <3>2. \A k \in 1..(Len(e) - 1) : e[k].kind \in TurnKinds =>
             e[k + 1].kind = "forward" \/ (k = 1 /\ e[1] = Right /\ back)
      BY <1>1, <2>3, <3>1
    <3>3. e # <<>> /\ e[Len(e)] = Forward(1)
      BY <2>3, <3>1
    <3>4. QED
      BY <3>2, <3>3 DEF IsBrisk, EndsForward, e, back
  <2>5. CASE \E x \in {Left, Right} : turns = <<x>>
    <3>1. PICK x \in {Left, Right} : turns = <<x>>
      BY <2>5
    <3>2. /\ Len(e) = Len(d) + 2 /\ e[Len(d) + 1] = x /\ e[Len(d) + 2] = Forward(1)
          /\ \A k \in 1..Len(d) : e[k] = d[k]
      BY <1>5, <3>1
    <3>3. \A k \in 1..(Len(e) - 1) : e[k].kind \in TurnKinds =>
             e[k + 1].kind = "forward" \/ (k = 1 /\ e[1] = Right /\ back)
      BY <1>1, <2>3, <3>2, SMTT(30)
    <3>4. e # <<>> /\ e[Len(e)] = Forward(1)
      BY <2>3, <3>2
    <3>5. QED
      BY <3>3, <3>4 DEF IsBrisk, EndsForward, e, back
  <2>6. QED
    BY <2>1, <2>4, <2>5
<1>6. QED
  BY <1>2, <1>3, <1>4, <1>5, SMTT(30)

LEMMA DriveIsBrisk ==
  ASSUME NEW p, IsPath(p), Len(p) > 1, NEW a \in Rotations, NEW mode, mode # FullDiscovery,
         \A i \in 2..(Len(p) - 1) : p[i + 1] # p[i - 1]
  PROVE  /\ Drive(p, a, mode)[Len(p) - 1] \in Seq(Moves)
         /\ IsBrisk(Drive(p, a, mode)[Len(p) - 1], TurnsBack(p, a))
<1> DEFINE D == Drive(p, a, mode)
           m == Len(p) - 1
           back == TurnsBack(p, a)
<1>1. Len(p) \in Nat \ {0} /\ m \in Nat \ {0}
  BY DEF IsPath
<1>2. /\ D \in [0..m -> Seq(Moves)] /\ D[0] = <<>>
      /\ \A i \in 1..m : D[i] = WithLeg(p, a, mode, D[i - 1], i)
  BY <1>1, DriveIs
<1> DEFINE S == {i \in Nat : 0 < i /\ i <= m => IsBrisk(D[i], back)}
<1>3. 0 \in S
  OBVIOUS
<1> HIDE DEF D
<1>4. ASSUME NEW i \in Nat, i \in S PROVE i + 1 \in S
  <2> SUFFICES ASSUME i + 1 <= m PROVE IsBrisk(D[i + 1], back)
    OBVIOUS
  <2>1. PICK j \in 1..(Len(p) - 1) : j = i + 1 /\ j - 1 = i /\ j - 1 \in 0..m
    BY <1>1
  <2>2. D[j - 1] \in Seq(Moves) /\ D[j] = WithLeg(p, a, mode, D[j - 1], j)
    BY <1>2, <2>1
  <2>3. ASSUME j = 1 PROVE IsBrisk(D[j], back)
    <3>1. D[j - 1] = <<>>
      BY <1>2, <2>3
    <3>2. QED
      BY <2>2, <2>3, <3>1, LegIsBrisk
  <2>4. ASSUME j # 1 PROVE IsBrisk(D[j], back)
    <3>1. IsBrisk(D[j - 1], back)
      BY <1>1, <1>4, <2>1, <2>4
    <3>2. p[j + 1] # p[j - 1]
      <4>1. j \in 2..(Len(p) - 1)
        BY <1>1, <2>4
      <4>2. QED
        BY <4>1
    <3>3. QED
      BY <2>2, <2>4, <3>1, <3>2, LegIsBrisk
  <2>5. IsBrisk(D[j], back)
    BY <2>3, <2>4
  <2>6. QED
    BY <2>1, <2>5
<1> HIDE DEF S
<1>5. m \in S
  BY <1>1, <1>3, <1>4, NatSetInduction
<1>6. QED
  BY <1>1, <1>2, <1>5 DEF S, D

-----------------------------------------------------------------------------
(***************************************************************************)
(* The rover stays inside the edge of the map.                             *)
(***************************************************************************)
Inside == {r \in Rovers : r.x \in 1..(Size - 2) /\ r.y \in 1..(Size - 2)}

Inner == {t \in Tiles : Column(t) \in 1..(Size - 2) /\ Row(t) \in 1..(Size - 2)}

LEMMA InsideIs ==
  ASSUME NEW r \in Inside
  PROVE  /\ r \in Rovers /\ r.rotation \in Rotations /\ Size > 2
         /\ r.x \in 0..(Size - 1) /\ r.y \in 0..(Size - 1)
         /\ Column(Place(r)) = r.x /\ Row(Place(r)) = r.y
         /\ Place(r) \in Inner /\ Place(r) \in Tiles
         /\ At(Place(r), r.rotation) = r
<1>1. /\ r \in [x : Int, y : Int, rotation : Rotations]
      /\ r.x \in 1..(Size - 2) /\ r.y \in 1..(Size - 2)
  BY DEF Inside, Rovers
<1>2. r.x \in 0..(Size - 1) /\ r.y \in 0..(Size - 1) /\ Size > 2
  BY <1>1, SizeAssumption
<1>3. Place(r) \in Tiles /\ Column(Place(r)) = r.x /\ Row(Place(r)) = r.y
  BY <1>2, GridInverse DEF Place
<1>4. At(Place(r), r.rotation) = r
  BY <1>1, <1>3 DEF At
<1>5. QED
  BY <1>1, <1>2, <1>3, <1>4 DEF Inner, Rovers

\* One step leads to a tile of the map, next to that of the rover.
LEMMA OneStep ==
  ASSUME NEW r \in Inside
  PROVE  LET e == Ahead(r, 1)
         IN  /\ e \in Rovers /\ e.x \in 0..(Size - 1) /\ e.y \in 0..(Size - 1)
             /\ Place(e) \in Tiles /\ Column(Place(e)) = e.x /\ Row(Place(e)) = e.y
             /\ Place(e) \in Neighbours(Place(r)) /\ Place(e) # Place(r)
             /\ Place(e) \in Inner => e \in Inside
<1> DEFINE e == Ahead(r, 1)
<1>1. /\ r \in Rovers /\ r.rotation \in Rotations
      /\ r.x \in 1..(Size - 2) /\ r.y \in 1..(Size - 2)
  BY InsideIs DEF Inside
<1>2. e = [x |-> r.x + 1 * Across(r.rotation), y |-> r.y + 1 * Down(r.rotation),
           rotation |-> r.rotation]
  BY DEF Ahead
<1>3. \/ Across(r.rotation) = 1 /\ Down(r.rotation) = 0
      \/ Across(r.rotation) = -1 /\ Down(r.rotation) = 0
      \/ Across(r.rotation) = 0 /\ Down(r.rotation) = 1
      \/ Across(r.rotation) = 0 /\ Down(r.rotation) = -1
  BY <1>1 DEF Rotations, Across, Down
<1>4. e \in Rovers
  BY <1>1, AheadIs
<1> HIDE DEF e
<1>5. \/ e.x = r.x + 1 /\ e.y = r.y
      \/ e.x = r.x - 1 /\ e.y = r.y
      \/ e.x = r.x /\ e.y = r.y + 1
      \/ e.x = r.x /\ e.y = r.y - 1
  BY <1>1, <1>2, <1>3
<1>6. e.x \in 0..(Size - 1) /\ e.y \in 0..(Size - 1)
  BY <1>1, <1>5, SizeAssumption
<1>7. Place(e) \in Tiles /\ Column(Place(e)) = e.x /\ Row(Place(e)) = e.y
  BY <1>6, GridInverse DEF Place
<1>8. Column(Place(r)) = r.x /\ Row(Place(r)) = r.y /\ Place(r) \in Tiles
  BY InsideIs
<1>9. Place(e) \in Neighbours(Place(r))
  BY <1>5, <1>7, <1>8, Beside
<1>10. Place(e) # Place(r)
  BY <1>1, <1>5, <1>7, <1>8
<1>11. Place(e) \in Inner => e \in Inside
  BY <1>4, <1>7 DEF Inner, Inside
<1>12. QED
  BY <1>4, <1>6, <1>7, <1>9, <1>10, <1>11 DEF e

\* Between two rovers inside there is no other.
LEMMA LineInside ==
  ASSUME NEW r \in Inside, NEW n \in Nat, Ahead(r, n) \in Inside, NEW k \in 0..n
  PROVE  Ahead(r, k) \in Inside
<1>1. /\ r \in Rovers /\ r.rotation \in Rotations
      /\ r.x \in 1..(Size - 2) /\ r.y \in 1..(Size - 2) /\ Size \in Nat
  BY InsideIs, SizeAssumption DEF Inside
<1>2. k \in Int /\ n \in Int
  OBVIOUS
<1>3. Ahead(r, k) \in Rovers /\ Ahead(r, n) \in Rovers
  BY <1>1, <1>2, AheadIs
<1>4. /\ r.x + n * Across(r.rotation) \in 1..(Size - 2)
      /\ r.y + n * Down(r.rotation) \in 1..(Size - 2)
  BY DEF Inside, Ahead
<1>5. \/ Across(r.rotation) = 1 /\ Down(r.rotation) = 0
      \/ Across(r.rotation) = -1 /\ Down(r.rotation) = 0
      \/ Across(r.rotation) = 0 /\ Down(r.rotation) = 1
      \/ Across(r.rotation) = 0 /\ Down(r.rotation) = -1
  BY <1>1 DEF Rotations, Across, Down
<1>6. /\ r.x + k * Across(r.rotation) \in 1..(Size - 2)
      /\ r.y + k * Down(r.rotation) \in 1..(Size - 2)
  BY <1>1, <1>2, <1>4, <1>5
<1>7. QED
  BY <1>3, <1>6 DEF Inside, Ahead

\* A rover that passes over inner tiles only stays inside.
LEMMA PassedInside ==
  ASSUME NEW r \in Inside, NEW i \in Moves, Passed(r, i) \subseteq Inner
  PROVE  After(r, i) \in Inside
<1>1. r \in Rovers /\ i.value \in Nat /\ After(r, i) \in Rovers
  BY InsideIs, MoveKinds, AfterIs
<1>2. CASE i.kind # "forward"
  <2>1. After(r, i).x = r.x /\ After(r, i).y = r.y
    BY <1>1, <1>2 DEF After, Turned, Rovers
  <2>2. QED
    BY <1>1, <2>1 DEF Inside
<1>3. CASE i.kind = "forward"
  <2> DEFINE n == i.value
             S == {k \in Nat : k <= n => Ahead(r, k) \in Inside}
  <2>1. Ahead(r, 0) = r /\ n \in Nat
    BY <1>1, AfterStash, MovesAre
  <2>2. 0 \in S
    BY <2>1
  <2>3. ASSUME NEW k \in Nat, k \in S PROVE k + 1 \in S
    <3> SUFFICES ASSUME k + 1 <= n PROVE Ahead(r, k + 1) \in Inside
      OBVIOUS
    <3>1. Ahead(r, k) \in Inside
      BY <2>1, <2>3
    <3>2. Ahead(Ahead(r, k), 1) = Ahead(r, k + 1)
      BY <1>1, OneFurther
    <3>3. CASE Place(Ahead(r, k + 1)) = Place(r)
      <4>1. Place(Ahead(r, k + 1)) \in Inner
        BY <3>3, InsideIs
      <4>2. QED
        BY <3>1, <3>2, <4>1, OneStep
    <3>4. CASE Place(Ahead(r, k + 1)) # Place(r)
      <4>1. Place(Ahead(r, k + 1)) \in Swept(r, n)
        BY <2>1 DEF Swept
      <4>2. Place(Ahead(r, k + 1)) \in Inner
        BY <1>3, <3>4, <4>1 DEF Passed
      <4>3. QED
        BY <3>1, <3>2, <4>2, OneStep
    <3>5. QED
      BY <3>3, <3>4
  <2> HIDE DEF S
  <2>4. n \in S
    BY <2>1, <2>2, <2>3, NatSetInduction
  <2>5. Ahead(r, n) \in Inside
    BY <2>1, <2>4 DEF S
  <2>6. QED
    BY <1>3, <2>5 DEF After
<1>4. QED
  BY <1>2, <1>3

-----------------------------------------------------------------------------
(***************************************************************************)
(* A course: the rovers t[1], t[2], ... before, between and after the      *)
(* instructions s stay inside, pass over no tile of A, and do not pass     *)
(* later over the tile they face after a turn, unless they drive at once.  *)
(***************************************************************************)
Looks(t, s, i) ==
  s[i].kind \in TurnKinds /\ s[i + 1].kind # "forward" =>
    \A j \in (i + 1)..Len(s) : Place(Ahead(t[i + 1], 1)) \notin Passed(t[j], s[j])

IsCourse(t, s, A) ==
  /\ s \in Seq(Sent)
  /\ t \in [1..(Len(s) + 1) -> Inside]
  /\ \A i \in 1..Len(s) : t[i + 1] = After(t[i], s[i])
  /\ \A i \in 1..Len(s) : Passed(t[i], s[i]) \cap A = {}
  /\ \A i \in 1..(Len(s) - 1) : Looks(t, s, i)

Course(r, s, q, A) == \E t : IsCourse(t, s, A) /\ t[1] = r /\ t[Len(s) + 1] = q

LEMMA SentKinds ==
  ASSUME NEW i \in Sent
  PROVE  /\ i.kind = "forward" \/ i.kind \in TurnKinds => i \in Moves
         /\ i.kind # "forward" => \A r : Passed(r, i) = {}
         /\ i.kind \notin TurnKinds \cup {"forward"} => \A r \in Rovers : After(r, i) = r
<1>1. i.kind = "forward" \/ i.kind \in TurnKinds => i \in Moves
  BY DEF Sent, Orders, End, Back, Report, TurnKinds
<1>2. i.kind # "forward" => \A r : Passed(r, i) = {}
  BY DEF Passed
<1>3. ASSUME i.kind \notin TurnKinds \cup {"forward"}, NEW r \in Rovers
      PROVE  After(r, i) = r
  <2>1. After(r, i) = [r EXCEPT !.rotation = (@ + 0) % 360]
    BY <1>3 DEF After, Turned, ChangeInRotation, TurnKinds
  <2>2. (r.rotation + 0) % 360 = r.rotation
    BY DEF Rovers, Rotations
  <2>3. QED
    BY <2>1, <2>2 DEF Rovers
<1>4. QED
  BY <1>1, <1>2, <1>3

LEMMA SentStaysInside ==
  ASSUME NEW i \in Sent, i.kind # "forward", NEW r \in Inside
  PROVE  After(r, i) \in Inside
<1>1. CASE i.kind \in TurnKinds
  BY <1>1, SentKinds, PassedInside DEF Passed
<1>2. CASE i.kind \notin TurnKinds
  BY <1>2, SentKinds, InsideIs
<1>3. QED
  BY <1>1, <1>2

LEMMA CourseEnds ==
  ASSUME NEW r, NEW s, NEW q, NEW A, Course(r, s, q, A)
  PROVE  /\ s \in Seq(Sent) /\ r \in Inside /\ q \in Inside
         /\ s = <<>> => q = r
<1>1. PICK t : IsCourse(t, s, A) /\ t[1] = r /\ t[Len(s) + 1] = q
  BY DEF Course
<1>2. Len(s) \in Nat
  BY <1>1, LenProperties DEF IsCourse
<1>3. 1 \in 1..(Len(s) + 1) /\ Len(s) + 1 \in 1..(Len(s) + 1)
  BY <1>2
<1>4. QED
  BY <1>1, <1>3 DEF IsCourse

LEMMA NoCourse ==
  ASSUME NEW r \in Inside, NEW A
  PROVE  Course(r, <<>>, r, A)
<1> DEFINE t == [i \in 1..1 |-> r]
<1>1. IsCourse(t, <<>>, A) /\ t[1] = r
  BY DEF IsCourse
<1>2. QED
  BY <1>1 DEF Course

\* The first instruction is done.
LEMMA CourseTail ==
  ASSUME NEW r, NEW s, NEW q, NEW A, Course(r, s, q, A), s # <<>>
  PROVE  /\ Course(After(r, Head(s)), Tail(s), q, A)
         /\ Head(s) \in Sent /\ Tail(s) \in Seq(Sent)
<1>1. PICK t : IsCourse(t, s, A) /\ t[1] = r /\ t[Len(s) + 1] = q
  BY DEF Course
<1>2. s \in Seq(Sent) /\ Len(s) \in Nat \ {0}
  BY <1>1, EmptySeq, LenProperties DEF IsCourse
<1>3. /\ Head(s) \in Sent /\ Head(s) = s[1] /\ Tail(s) \in Seq(Sent)
      /\ Len(Tail(s)) = Len(s) - 1 /\ \A i \in 1..(Len(s) - 1) : Tail(s)[i] = s[i + 1]
  BY <1>2, HeadTailProperties
<1> DEFINE n == Len(s) - 1
           e == [i \in 1..(n + 1) |-> t[i + 1]]
<1>4. n \in Nat /\ Len(s) = n + 1
  BY <1>2
<1>5. \A i \in 1..(n + 1) : e[i] = t[i + 1] /\ t[i + 1] \in Inside
  BY <1>1, <1>4 DEF IsCourse
<1>6. e \in [1..(Len(Tail(s)) + 1) -> Inside]
  BY <1>3, <1>4, <1>5
<1>7. e[1] = After(r, Head(s)) /\ e[n + 1] = q
  BY <1>1, <1>3, <1>4, <1>5 DEF IsCourse
<1> HIDE DEF n, e
<1>8. ASSUME NEW i \in 1..Len(Tail(s))
      PROVE  e[i + 1] = After(e[i], Tail(s)[i]) /\ Passed(e[i], Tail(s)[i]) \cap A = {}
  <2>1. Tail(s)[i] = s[i + 1] /\ e[i] = t[i + 1] /\ e[i + 1] = t[(i + 1) + 1]
        /\ i + 1 \in 1..Len(s)
    BY <1>3, <1>4, <1>5
  <2>2. t[(i + 1) + 1] = After(t[i + 1], s[i + 1]) /\ Passed(t[i + 1], s[i + 1]) \cap A = {}
    BY <1>1, <2>1 DEF IsCourse
  <2>3. QED
    BY <2>1, <2>2
<1>9. ASSUME NEW i \in 1..(Len(Tail(s)) - 1) PROVE Looks(e, Tail(s), i)
  <2> SUFFICES ASSUME Tail(s)[i].kind \in TurnKinds, Tail(s)[i + 1].kind # "forward",
                      NEW j \in (i + 1)..Len(Tail(s))
               PROVE  Place(Ahead(e[i + 1], 1)) \notin Passed(e[j], Tail(s)[j])
    BY DEF Looks
  <2>1. /\ Tail(s)[i] = s[i + 1] /\ Tail(s)[i + 1] = s[(i + 1) + 1]
        /\ e[i + 1] = t[(i + 1) + 1] /\ e[j] = t[j + 1] /\ Tail(s)[j] = s[j + 1]
        /\ i + 1 \in 1..(Len(s) - 1) /\ j + 1 \in ((i + 1) + 1)..Len(s)
    BY <1>3, <1>4, <1>5
  <2>2. Looks(t, s, i + 1)
    BY <1>1, <2>1 DEF IsCourse
  <2>3. QED
    BY <2>1, <2>2 DEF Looks
<1>10. IsCourse(e, Tail(s), A)
  BY <1>3, <1>6, <1>8, <1>9 DEF IsCourse
<1>11. e[Len(Tail(s)) + 1] = q
  BY <1>3, <1>7 DEF n
<1>12. QED
  BY <1>3, <1>7, <1>10, <1>11 DEF Course

\* An instruction that is no forward comes before the others.
LEMMA CourseBefore ==
  ASSUME NEW r \in Inside, NEW i \in Sent, i.kind # "forward",
         NEW s, NEW q, NEW A, Course(After(r, i), s, q, A),
         \/ i.kind \notin TurnKinds
         \/ Place(Ahead(After(r, i), 1)) \in A
         \/ \A k \in 1..Len(s) : s[k].kind # "forward"
  PROVE  Course(r, <<i>> \o s, q, A)
<1>1. PICK e : IsCourse(e, s, A) /\ e[1] = After(r, i) /\ e[Len(s) + 1] = q
  BY DEF Course
<1>2. s \in Seq(Sent) /\ Len(s) \in Nat
  BY <1>1, LenProperties DEF IsCourse
<1> DEFINE u == <<i>> \o s
           n == Len(s)
           t == [k \in 1..(n + 2) |-> IF k = 1 THEN r ELSE e[k - 1]]
<1>3. /\ u \in Seq(Sent) /\ Len(u) = n + 1 /\ u[1] = i
      /\ \A k \in 2..(n + 1) : u[k] = s[k - 1]
  BY <1>2
<1>4. t[1] = r /\ \A k \in 2..(n + 2) : t[k] = e[k - 1] /\ e[k - 1] \in Inside
  <2>1. e \in [1..(n + 1) -> Inside]
    BY <1>1 DEF IsCourse
  <2>2. n \in Nat
    BY <1>2
  <2>3. 1 \in 1..(n + 2) /\ \A k \in 2..(n + 2) : k \in 1..(n + 2) /\ k # 1 /\ k - 1 \in 1..(n + 1)
    BY <2>2
  <2> HIDE DEF n
  <2>4. QED
    BY <2>1, <2>3
<1>5. t \in [1..(Len(u) + 1) -> Inside]
  BY <1>1, <1>2, <1>3 DEF IsCourse
<1>6. n \in Nat
  BY <1>2
<1> HIDE DEF u, t, n
<1>7. ASSUME NEW k \in 1..Len(u)
      PROVE  t[k + 1] = After(t[k], u[k]) /\ Passed(t[k], u[k]) \cap A = {}
  <2>1. CASE k = 1
    <3>1. t[2] = e[1] /\ Passed(r, i) = {}
      BY <1>4, <1>6, SentKinds
    <3>2. QED
      BY <1>1, <1>3, <1>4, <2>1, <3>1
  <2>2. CASE k # 1
    <3>1. PICK j \in 1..Len(s) : j = k - 1 /\ k = j + 1
      BY <1>3, <1>6, <2>2 DEF n
    <3>2. u[k] = s[j] /\ t[k] = e[j] /\ t[k + 1] = e[j + 1]
      BY <1>3, <1>4, <1>6, <3>1 DEF n
    <3>3. e[j + 1] = After(e[j], s[j]) /\ Passed(e[j], s[j]) \cap A = {}
      BY <1>1 DEF IsCourse
    <3>4. QED
      BY <3>2, <3>3
  <2>3. QED
    BY <2>1, <2>2
<1>8. ASSUME NEW k \in 1..(Len(u) - 1) PROVE Looks(t, u, k)
  <2> SUFFICES ASSUME u[k].kind \in TurnKinds, u[k + 1].kind # "forward",
                      NEW j \in (k + 1)..Len(u)
               PROVE  Place(Ahead(t[k + 1], 1)) \notin Passed(t[j], u[j])
    BY DEF Looks
  <2>1. PICK m \in 1..Len(s) : m = j - 1 /\ u[j] = s[m] /\ t[j] = e[m]
    BY <1>3, <1>4, <1>6 DEF n
  <2>2. CASE k = 1
    <3>1. t[k + 1] = After(r, i) /\ i.kind \in TurnKinds
      BY <1>1, <1>3, <1>4, <1>6, <2>2
    <3>2. CASE Place(Ahead(After(r, i), 1)) \in A
      BY <1>1, <2>1, <3>1, <3>2 DEF IsCourse
    <3>3. CASE s[m].kind # "forward"
      BY <2>1, <3>3 DEF Passed
    <3>4. QED
      BY <3>1, <3>2, <3>3
  <2>3. CASE k # 1
    <3>1. PICK l \in 1..(Len(s) - 1) : l = k - 1 /\ k = l + 1
      BY <1>3, <1>6, <2>3 DEF n
    <3>2. u[k] = s[l] /\ u[k + 1] = s[l + 1] /\ t[k + 1] = e[l + 1] /\ m \in (l + 1)..Len(s)
      BY <1>3, <1>4, <1>6, <2>1, <3>1 DEF n
    <3>3. Looks(e, s, l)
      BY <1>1 DEF IsCourse
    <3>4. QED
      BY <2>1, <3>2, <3>3 DEF Looks
  <2>4. QED
    BY <2>2, <2>3
<1>9. IsCourse(t, u, A)
  BY <1>3, <1>5, <1>7, <1>8 DEF IsCourse
<1>10. t[Len(u) + 1] = q
  BY <1>1, <1>3, <1>4, <1>6 DEF n
<1>11. QED
  BY <1>4, <1>9, <1>10 DEF Course, u

\* What a turn faces, that no forward follows, may be sent by vision.
LEMMA CourseSeen ==
  ASSUME NEW r, NEW s, NEW q, NEW A, Course(r, s, q, A), s # <<>>,
         Head(s).kind \in TurnKinds, Len(s) > 1 => s[2].kind # "forward",
         NEW B, B = {Place(Ahead(After(r, Head(s)), 1))}
  PROVE  Course(r, s, q, B)
<1>1. PICK t : IsCourse(t, s, A) /\ t[1] = r /\ t[Len(s) + 1] = q
  BY DEF Course
<1>2. s \in Seq(Sent) /\ Len(s) \in Nat \ {0} /\ Head(s) = s[1]
  BY <1>1, EmptySeq, LenProperties DEF IsCourse
<1>3. t[2] = After(r, s[1])
  BY <1>1, <1>2 DEF IsCourse
<1>4. ASSUME NEW j \in 1..Len(s) PROVE Passed(t[j], s[j]) \cap B = {}
  <2>1. CASE j = 1
    <3>1. s[1].kind # "forward"
      BY <1>2 DEF TurnKinds
    <3>2. QED
      BY <2>1, <3>1 DEF Passed
  <2>2. CASE j # 1
    <3>1. 1 \in 1..(Len(s) - 1) /\ j \in (1 + 1)..Len(s)
      BY <1>2, <2>2
    <3>2. Looks(t, s, 1)
      BY <1>1, <3>1 DEF IsCourse
    <3>3. s[1].kind \in TurnKinds /\ s[1 + 1].kind # "forward"
      BY <1>2, <3>1
    <3>4. Place(Ahead(t[1 + 1], 1)) \notin Passed(t[j], s[j])
      BY <3>1, <3>2, <3>3 DEF Looks
    <3>5. QED
      BY <1>2, <1>3, <3>4
  <2>3. QED
    BY <2>1, <2>2
<1>5. IsCourse(t, s, B)
  BY <1>1, <1>4 DEF IsCourse
<1>6. QED
  BY <1>1, <1>5 DEF Course

\* The rover drives one tile of a forward.
LEMMA CourseAdvance ==
  ASSUME NEW r, NEW s, NEW n \in Nat, NEW q, NEW A, Course(r, <<Forward(n + 1)>> \o s, q, A)
  PROVE  /\ Course(Ahead(r, 1), <<Forward(n)>> \o s, q, A)
         /\ Place(Ahead(r, 1)) \notin A
<1> DEFINE u == <<Forward(n + 1)>> \o s
           w == <<Forward(n)>> \o s
           v == Ahead(r, 1)
<1>1. PICK t : IsCourse(t, u, A) /\ t[1] = r /\ t[Len(u) + 1] = q
  BY DEF Course
<1>2. r \in Inside /\ u \in Seq(Sent)
  BY CourseEnds
<1>3. r \in Rovers
  BY <1>2, InsideIs
<1>4. s = Tail(u) /\ s \in Seq(Sent) /\ Len(s) \in Nat
  <2>1. u # <<>>
    OBVIOUS
  <2>2. QED
    BY <1>2, <2>1
<1> HIDE DEF u, w
<1>5. /\ Len(u) = Len(s) + 1 /\ u[1] = Forward(n + 1)
      /\ \A k \in 2..(Len(s) + 1) : u[k] = s[k - 1]
  BY <1>4 DEF u
<1>6. /\ w \in Seq(Sent) /\ Len(w) = Len(u) /\ w[1] = Forward(n)
      /\ \A k \in 2..Len(u) : w[k] = u[k]
  <2>1. Forward(n) \in Sent
    BY DEF Sent, Orders, Moves
  <2>2. QED
    BY <1>4, <1>5, <2>1 DEF w
<1>7. /\ Forward(n).kind = "forward" /\ Forward(n).value = n
      /\ Forward(n + 1).kind = "forward" /\ Forward(n + 1).value = n + 1
  BY DEF Forward
<1>8. t[2] = Ahead(r, n + 1) /\ t[2] \in Inside /\ Passed(r, u[1]) \cap A = {}
  BY <1>1, <1>4, <1>5, <1>7, SMTT(30) DEF IsCourse, After
<1>9. \A k \in 0..(n + 1) : Ahead(r, k) \in Inside
  <2>1. n + 1 \in Nat
    OBVIOUS
  <2>2. QED
    BY <1>2, <1>8, <2>1, LineInside
<1>10. v \in Inside /\ v \in Rovers
  <2>1. 1 \in 0..(n + 1)
    OBVIOUS
  <2>2. QED
    BY <1>9, <2>1, InsideIs
<1>11. \A k \in Nat : Ahead(v, k) = Ahead(r, k + 1)
  <2> SUFFICES ASSUME NEW k \in Nat PROVE Ahead(v, k) = Ahead(r, k + 1)
    OBVIOUS
  <2>1. /\ v = [x |-> r.x + 1 * Across(r.rotation), y |-> r.y + 1 * Down(r.rotation),
                rotation |-> r.rotation]
        /\ r.x \in Int /\ r.y \in Int
        /\ Across(r.rotation) \in {-1, 0, 1} /\ Down(r.rotation) \in {-1, 0, 1}
    BY <1>3, AheadIs DEF Ahead, Rovers
  <2> HIDE DEF v
  <2>2. /\ v.x + k * Across(r.rotation) = r.x + (k + 1) * Across(r.rotation)
        /\ v.y + k * Down(r.rotation) = r.y + (k + 1) * Down(r.rotation)
        /\ v.rotation = r.rotation
    BY <2>1
  <2>3. QED
    BY <2>2 DEF Ahead
<1>12. \A k \in 1..(n + 1) : Place(Ahead(r, k)) # Place(r)
  <2> SUFFICES ASSUME NEW k \in 1..(n + 1) PROVE Place(Ahead(r, k)) # Place(r)
    OBVIOUS
  <2>1. Column(Place(Ahead(r, k))) = r.x + k * Across(r.rotation)
        /\ Row(Place(Ahead(r, k))) = r.y + k * Down(r.rotation)
    BY <1>9, InsideIs DEF Ahead
  <2>2. \/ Across(r.rotation) = 1 /\ Down(r.rotation) = 0
        \/ Across(r.rotation) = -1 /\ Down(r.rotation) = 0
        \/ Across(r.rotation) = 0 /\ Down(r.rotation) = 1
        \/ Across(r.rotation) = 0 /\ Down(r.rotation) = -1
    BY <1>3 DEF Rovers, Rotations, Across, Down
  <2>3. Column(Place(r)) = r.x /\ Row(Place(r)) = r.y /\ r.x \in Int /\ r.y \in Int
    BY <1>2, <1>3, InsideIs DEF Rovers
  <2>4. QED
    BY <2>1, <2>2, <2>3
<1>13. Passed(v, w[1]) \subseteq Passed(r, u[1]) /\ Place(v) \in Passed(r, u[1])
  <2>1. Passed(r, u[1]) = {Place(Ahead(r, k)) : k \in 0..(n + 1)} \ {Place(r)}
    BY <1>5, <1>7 DEF Passed, Swept
  <2>2. Passed(v, w[1]) \subseteq {Place(Ahead(r, k)) : k \in 1..(n + 1)}
    <3>1. Passed(v, w[1]) \subseteq {Place(Ahead(v, k)) : k \in 0..n}
      BY <1>6, <1>7 DEF Passed, Swept
    <3>2. \A k \in 0..n : Ahead(v, k) = Ahead(r, k + 1) /\ k + 1 \in 1..(n + 1)
      BY <1>11
    <3>3. QED
      BY <3>1, <3>2
  <2>3. \A k \in 1..(n + 1) : k \in 0..(n + 1)
    OBVIOUS
  <2>4. 1 \in 1..(n + 1)
    OBVIOUS
  <2> HIDE DEF v
  <2>5. {Place(Ahead(r, k)) : k \in 1..(n + 1)} \subseteq Passed(r, u[1])
    BY <1>12, <2>1, <2>3
  <2>6. Place(v) \in {Place(Ahead(r, k)) : k \in 1..(n + 1)}
    BY <2>4 DEF v
  <2>7. QED
    BY <2>2, <2>5, <2>6
<1>14. Ahead(v, n) = Ahead(r, n + 1)
  BY <1>11
<1> HIDE DEF v
<1> DEFINE e == [t EXCEPT ![1] = v]
<1>15. /\ e \in [1..(Len(w) + 1) -> Inside] /\ e[1] = v
       /\ \A k \in 2..(Len(w) + 1) : e[k] = t[k]
  BY <1>1, <1>4, <1>5, <1>6, <1>10 DEF IsCourse
<1> HIDE DEF e
<1>16. ASSUME NEW k \in 1..Len(w)
       PROVE  e[k + 1] = After(e[k], w[k]) /\ Passed(e[k], w[k]) \cap A = {}
  <2>1. CASE k = 1
    <3>1. e[2] = t[2] /\ After(v, w[1]) = Ahead(v, n)
      BY <1>4, <1>5, <1>6, <1>7, <1>15 DEF After
    <3>2. QED
      BY <1>8, <1>13, <1>14, <1>15, <2>1, <3>1
  <2>2. CASE k # 1
    <3>1. k \in 2..Len(u) /\ k \in 2..(Len(w) + 1) /\ k + 1 \in 2..(Len(w) + 1) /\ k \in 1..Len(u)
      BY <1>4, <1>5, <1>6, <2>2
    <3>2. w[k] = u[k] /\ e[k] = t[k] /\ e[k + 1] = t[k + 1]
      BY <1>6, <1>15, <3>1
    <3>3. t[k + 1] = After(t[k], u[k]) /\ Passed(t[k], u[k]) \cap A = {}
      BY <1>1, <3>1 DEF IsCourse
    <3>4. QED
      BY <3>2, <3>3
  <2>3. QED
    BY <2>1, <2>2
<1>17. ASSUME NEW k \in 1..(Len(w) - 1) PROVE Looks(e, w, k)
  <2> SUFFICES ASSUME w[k].kind \in TurnKinds, w[k + 1].kind # "forward",
                      NEW j \in (k + 1)..Len(w)
               PROVE  Place(Ahead(e[k + 1], 1)) \notin Passed(e[j], w[j])
    BY DEF Looks
  <2>1. k # 1
    BY <1>6, <1>7 DEF TurnKinds
  <2>2. /\ k \in 2..Len(u) /\ k + 1 \in 2..Len(u) /\ k + 1 \in 2..(Len(w) + 1)
        /\ j \in 2..Len(u) /\ j \in 2..(Len(w) + 1) /\ k \in 1..(Len(u) - 1)
        /\ j \in (k + 1)..Len(u)
    BY <1>4, <1>5, <1>6, <2>1
  <2>3. w[k] = u[k] /\ w[k + 1] = u[k + 1] /\ w[j] = u[j] /\ e[k + 1] = t[k + 1] /\ e[j] = t[j]
    BY <1>6, <1>15, <2>2
  <2>4. Looks(t, u, k)
    BY <1>1, <2>2 DEF IsCourse
  <2>5. QED
    BY <2>2, <2>3, <2>4 DEF Looks
<1>18. IsCourse(e, w, A)
  BY <1>6, <1>15, <1>16, <1>17 DEF IsCourse
<1>19. e[Len(w) + 1] = q
  BY <1>1, <1>4, <1>5, <1>6, <1>15
<1>20. Place(v) \notin A
  BY <1>8, <1>13
<1>21. QED
  BY <1>15, <1>18, <1>19, <1>20 DEF Course, w, v

\* The sequences of a manual drive only turn.
LEMMA TurnsCourse ==
  ASSUME NEW r \in Inside, NEW A, NEW s \in {<<Right>>, <<Left, Left>>}
  PROVE  \E q : Course(r, s \o <<End>>, q, A) /\ Place(q) = Place(r)
<1>1. /\ End \in Sent /\ Right \in Sent /\ Left \in Sent
      /\ End.kind # "forward" /\ Right.kind # "forward" /\ Left.kind # "forward"
      /\ End.kind \notin TurnKinds
  BY DEF Sent, Orders, Moves, End, Right, Left, TurnKinds
<1>2. ASSUME NEW p \in Inside PROVE Course(p, <<End>>, p, A) /\ Place(p) = Place(p)
  <2>1. After(p, End) = p
    BY <1>1, SentKinds, InsideIs
  <2>2. Course(After(p, End), <<>>, p, A)
    BY <1>2, <2>1, NoCourse
  <2>3. Course(p, <<End>> \o <<>>, p, A)
    BY <1>1, <1>2, <2>2, CourseBefore
  <2>4. <<End>> \o <<>> = <<End>>
    OBVIOUS
  <2>5. QED
    BY <2>3, <2>4
<1>3. ASSUME NEW p \in Inside, NEW i \in {Right, Left}
      PROVE  After(p, i) \in Inside /\ Place(After(p, i)) = Place(p)
  <2>1. After(p, i) \in Inside
    BY <1>1, SentStaysInside
  <2>2. Place(After(p, i)) = Place(p)
    BY <1>1, TurnStays, InsideIs
  <2>3. QED
    BY <2>1, <2>2
<1>4. CASE s = <<Right>>
  <2>1. Course(After(r, Right), <<End>>, After(r, Right), A)
    BY <1>2, <1>3
  <2>2. \A k \in 1..Len(<<End>>) : <<End>>[k].kind # "forward"
    BY <1>1
  <2>3. Course(r, <<Right>> \o <<End>>, After(r, Right), A)
    BY <1>1, <2>1, <2>2, CourseBefore
  <2>4. QED
    BY <1>3, <1>4, <2>3
<1>5. CASE s = <<Left, Left>>
  <2> DEFINE p == After(r, Left)
             q == After(p, Left)
             u == <<Left>> \o <<End>>
  <2>1. p \in Inside /\ q \in Inside /\ Place(p) = Place(r) /\ Place(q) = Place(r)
    BY <1>3
  <2>2. Course(q, <<End>>, q, A)
    BY <1>2, <2>1
  <2>3. \A k \in 1..Len(<<End>>) : <<End>>[k].kind # "forward"
    BY <1>1
  <2>4. Course(p, u, q, A)
    BY <1>1, <2>1, <2>2, <2>3, CourseBefore
  <2>5. \A k \in 1..Len(u) : u[k].kind # "forward"
    BY <1>1
  <2> HIDE DEF u, q
  <2>6. Course(r, <<Left>> \o u, q, A)
    BY <1>1, <2>4, <2>5, CourseBefore
  <2>7. <<Left>> \o u = s \o <<End>>
    BY <1>5 DEF u
  <2>8. QED
    BY <2>1, <2>6, <2>7
<1>6. QED
  BY <1>4, <1>5

-----------------------------------------------------------------------------
(***************************************************************************)
(* A plan is a course: the instructions of a shortest path, made where the *)
(* rover is, keep it inside and pass over no obstacle of the map.          *)
(***************************************************************************)
LEMMA TrailInside ==
  ASSUME NEW s \in Seq(Moves), NEW t, IsTrail(t, s), t[1] \in Inside,
         NEW F, F \subseteq Inner, Over(t, s, F)
  PROVE  \A i \in 1..(Len(s) + 1) : t[i] \in Inside
<1> DEFINE n == Len(s)
           f == [i \in 0..n |-> t[i + 1]]
<1>1. n \in Nat
  BY LenProperties
<1>2. \A i \in 0..n : f[i] = t[i + 1]
  OBVIOUS
<1>3. f[0] \in Inside
  BY <1>1, <1>2
<1>4. ASSUME NEW i \in 1..n, f[i - 1] \in Inside PROVE f[i] \in Inside
  <2>1. f[i - 1] = t[i] /\ f[i] = t[i + 1]
    BY <1>1, <1>2
  <2>2. t[i + 1] = After(t[i], s[i]) /\ Passed(t[i], s[i]) \subseteq Inner /\ s[i] \in Moves
    BY DEF IsTrail, Over
  <2>3. QED
    BY <1>4, <2>1, <2>2, PassedInside
<1> HIDE DEF f, n
<1>5. \A i \in 1..n : f[i - 1] \in Inside => f[i] \in Inside
  BY <1>4
<1>6. \A i \in 0..n : f[i] \in Inside
  BY <1>1, <1>3, <1>5, StaysIn, Zenon
<1>7. ASSUME NEW i \in 1..(n + 1) PROVE t[i] \in Inside
  <2>1. i - 1 \in 0..n /\ (i - 1) + 1 = i
    BY <1>1
  <2>2. QED
    BY <1>2, <1>6, <2>1
<1>8. QED
  BY <1>7 DEF n

\* When the rover starts back, the first of its two turns faces a tile that is
\* not on the path.
LEMMA BackFacesOther ==
  ASSUME NEW r \in Inside, NEW p, IsPath(p), Len(p) > 1, p[1] = Place(r),
         \A k \in 3..Len(p) : p[k] \notin Neighbours(p[1]),
         TurnsBack(p, r.rotation)
  PROVE  Place(Ahead(After(r, Right), 1)) \notin Later(p)
<1> DEFINE v == After(r, Right)
           e == Ahead(v, 1)
           b == Direction(p[1], p[2])
<1>1. Len(p) \in Nat /\ p[1] \in Tiles /\ p[2] \in Neighbours(p[1]) /\ p[2] \in Tiles
  BY PathTiles DEF IsPath
<1>2. b = Heading(p, r.rotation, 1) /\ b \in Rotations
  BY <1>1, DirectionLeads DEF Heading
<1>3. /\ r \in Rovers /\ r.rotation \in Rotations /\ At(Place(r), r.rotation) = r
      /\ Column(Place(r)) = r.x /\ Row(Place(r)) = r.y /\ r.x \in Int /\ r.y \in Int
  BY InsideIs DEF Rovers
<1>4. Right \in Moves /\ Passed(r, Right) = {}
  BY DEF Moves, Passed, Right
<1>5. v \in Inside
  BY <1>4, PassedInside
<1>6. v.x = r.x /\ v.y = r.y /\ v.rotation = (r.rotation + 90) % 360
  <2>1. v = [r EXCEPT !.rotation = (@ + 90) % 360]
    BY <1>3, <1>4, AfterIs
  <2>2. QED
    BY <1>3, <2>1 DEF Rovers
<1>7. v.rotation \in Rotations
  BY <1>5, InsideIs
<1>8. e.x = v.x + 1 * Across(v.rotation) /\ e.y = v.y + 1 * Down(v.rotation)
  BY DEF Ahead
<1> HIDE DEF v
<1>9. /\ Place(e) \in Neighbours(Place(v)) /\ Column(Place(e)) = e.x /\ Row(Place(e)) = e.y
  BY <1>5, OneStep
<1>10. Place(v) = p[1]
  BY <1>6 DEF Place
<1>11. /\ Column(p[2]) = Column(p[1]) + 1 * Across(b)
       /\ Row(p[2]) = Row(p[1]) + 1 * Down(b)
  <2>1. Ahead(At(p[1], b), 1) = At(p[2], b)
    BY <1>1, DirectionLeads
  <2>2. QED
    BY <2>1 DEF Ahead, At
<1>12. (b - r.rotation) % 360 = 180
  BY <1>2 DEF TurnsBack
<1> HIDE DEF e, b
<1>13. Place(e) # p[2]
  <2>1. \/ r.rotation = 0 /\ b = 180 /\ v.rotation = 90
        \/ r.rotation = 90 /\ b = 270 /\ v.rotation = 180
        \/ r.rotation = 180 /\ b = 0 /\ v.rotation = 270
        \/ r.rotation = 270 /\ b = 90 /\ v.rotation = 0
    <3>1. PICK x \in {0, 90, 180, 270}, y \in {0, 90, 180, 270} : x = r.rotation /\ y = b
      BY <1>2, <1>3 DEF Rotations
    <3>2. (y - x) % 360 = 180
      BY <1>12, <3>1
    <3>3. \/ x = 0 /\ y = 180 /\ (x + 90) % 360 = 90
          \/ x = 90 /\ y = 270 /\ (x + 90) % 360 = 180
          \/ x = 180 /\ y = 0 /\ (x + 90) % 360 = 270
          \/ x = 270 /\ y = 90 /\ (x + 90) % 360 = 0
      BY <3>2
    <3>4. v.rotation = (x + 90) % 360
      BY <1>6, <3>1
    <3>5. QED
      BY <3>1, <3>3, <3>4
  <2>2. Across(v.rotation) # Across(b)
    BY <2>1 DEF Across
  <2>3. Across(v.rotation) \in Int /\ Across(b) \in Int
    BY DEF Across
  <2>4. e.x # Column(p[2])
    BY <1>3, <1>6, <1>8, <1>11, <2>2, <2>3
  <2>5. QED
    BY <1>9, <2>4
<1>14. ASSUME NEW k \in 2..Len(p), Place(e) = p[k] PROVE FALSE
  <2>1. k \in 3..Len(p)
    BY <1>1, <1>13, <1>14
  <2>2. QED
    BY <1>9, <1>10, <1>14, <2>1
<1>15. QED
  BY <1>14 DEF Later, e, v

\* Only inner tiles are free, and none of A is.
Walled(map, A) ==
  /\ \A t \in Tiles : map[t] <= Empty => t \in Inner
  /\ \A t \in A : ~ map[t] <= Empty

LEMMA PlanCourse ==
  ASSUME NEW r \in Inside, NEW map, NEW A, Walled(map, A), NEW to,
         NEW p \in ShortestPaths(map, Place(r), to),
         NEW mode \in {Simple, DestinationDiscovery}
  PROVE  \E q : Course(r, Instructions(p, r.rotation, mode) \o <<End>>, q, A) /\ Place(q) = to
<1> DEFINE a == r.rotation
           m == Len(p) - 1
           d == Drive(p, a, mode)[m]
           rest == Rotate(mode, DestinationDiscovery)
           s == Instructions(p, a, mode)
           u == s \o <<End>>
           last == p[m + 1]
           q == At(last, Direction(p[m], last))
           F == Later(p)
<1>1. /\ Place(r) \in Tiles /\ a \in Rotations /\ At(Place(r), a) = r
  BY InsideIs
<1>2. IsPath(p) /\ p[1] = Place(r) /\ p[Len(p)] = to /\ Len(p) > 1
  BY <1>1, ShortestPathsAreWalks, WalkIsPath
<1>3. /\ \A i \in 1..Len(p) : \A j \in 1..Len(p) : i # j => p[i] # p[j]
      /\ \A k \in 2..Len(p) : map[p[k]] <= Empty
      /\ \A k \in 3..Len(p) : p[k] \notin Neighbours(p[1])
  BY <1>1, <1>2, ShortestPathsAreStraight
<1>4. Len(p) \in Nat /\ m \in Nat \ {0} /\ m + 1 = Len(p)
  BY <1>2 DEF IsPath
<1>5. F \subseteq Inner /\ F \cap A = {}
  <2>1. \A k \in 2..Len(p) : p[k] \in Tiles
    BY <1>2, <1>4, PathTiles
  <2>2. QED
    BY <1>3, <2>1 DEF Later, Walled
<1>6. Leads(r, s, q, F)
  BY <1>1, <1>2, <1>4, InstructionsLead
<1>7. Place(q) = to
  <2>1. last \in Tiles /\ last \in Neighbours(p[m]) /\ p[m] \in Tiles /\ last = to
    BY <1>2, <1>4, PathTiles DEF IsPath
  <2>2. QED
    BY <2>1, DirectionLeads, AtIsRover
<1>8. mode # FullDiscovery
  BY DEF Simple, FullDiscovery, DestinationDiscovery
<1>9. d \in Seq(Moves) /\ IsBrisk(d, TurnsBack(p, a))
  <2>1. \A i \in 2..(Len(p) - 1) : p[i + 1] # p[i - 1]
    <3> SUFFICES ASSUME NEW i \in 2..(Len(p) - 1) PROVE p[i + 1] # p[i - 1]
      OBVIOUS
    <3>1. i + 1 \in 1..Len(p) /\ i - 1 \in 1..Len(p) /\ i + 1 # i - 1
      BY <1>4
    <3>2. QED
      BY <1>3, <3>1
  <2>2. QED
    BY <1>1, <1>2, <1>8, <2>1, DriveIsBrisk
<1>10. s = d \o rest /\ (rest = <<>> \/ rest = FullRotation)
  BY DEF Instructions, Rotate
<1>11. rest \in Seq(Moves) /\ \A k \in 1..Len(rest) : rest[k].kind # "forward"
  <2>1. FullRotation \in Seq(Moves)
    BY TurnsAreMoves
  <2>2. \A k \in 1..Len(FullRotation) : FullRotation[k].kind # "forward"
    BY DEF FullRotation, Right, Left
  <2>3. <<>> \in Seq(Moves) /\ \A k \in 1..Len(<<>>) : <<>>[k].kind # "forward"
    OBVIOUS
  <2> HIDE DEF rest
  <2>4. QED
    BY <1>10, <2>1, <2>2, <2>3
<1>12. PICK t \in [1..(Len(s) + 1) -> Rovers] :
         IsTrail(t, s) /\ Over(t, s, F) /\ t[1] = r /\ t[Len(s) + 1] = q
  BY <1>6 DEF Leads
<1>13. s \in Seq(Moves)
  BY <1>6 DEF Leads
<1> HIDE DEF s, d, rest, F, q, m, last
<1>14. \A i \in 1..(Len(s) + 1) : t[i] \in Inside
  BY <1>5, <1>12, <1>13, TrailInside
<1> DEFINE n == Len(s)
           e == [i \in 1..(n + 2) |-> IF i = n + 2 THEN q ELSE t[i]]
<1>15. n \in Nat /\ Moves \subseteq Sent /\ End \in Sent
  BY <1>13, LenProperties DEF Sent, Orders
<1>16. /\ u \in Seq(Sent) /\ Len(u) = n + 1 /\ u[n + 1] = End
       /\ \A i \in 1..n : u[i] = s[i]
  BY <1>13, <1>15
<1>17. /\ e[n + 2] = q /\ \A i \in 1..(n + 1) : e[i] = t[i]
       /\ e \in [1..(n + 2) -> Inside]
  <2>1. q \in Inside
    BY <1>12, <1>14, <1>15
  <2>2. n + 2 \in 1..(n + 2) /\ \A i \in 1..(n + 1) : i \in 1..(n + 2) /\ i # n + 2
    BY <1>15
  <2>3. \A i \in 1..(n + 2) : i = n + 2 \/ i \in 1..(n + 1)
    BY <1>15
  <2>4. QED
    BY <1>14, <2>1, <2>2, <2>3
<1> HIDE DEF u, e, n
<1>18. /\ \A i \in 1..n : i \in 1..(n + 1) /\ i + 1 \in 1..(n + 1)
       /\ n + 1 \in 1..(n + 1) /\ (n + 1) + 1 = n + 2
       /\ \A i \in 1..(n + 1) : i \in 1..n \/ i = n + 1
  BY <1>15
<1>19. ASSUME NEW i \in 1..n
       PROVE  e[i + 1] = After(e[i], u[i]) /\ Passed(e[i], u[i]) \subseteq F
  BY <1>12, <1>16, <1>17, <1>18, <1>19 DEF IsTrail, Over, n
<1>20. e[n + 2] = After(e[n + 1], u[n + 1]) /\ Passed(e[n + 1], u[n + 1]) = {}
  <2>1. e[n + 1] = q /\ q \in Inside
    BY <1>12, <1>14, <1>17, <1>18 DEF n
  <2>2. End.kind \notin TurnKinds \cup {"forward"}
    BY DEF End, TurnKinds
  <2>3. After(q, End) = q /\ Passed(q, End) = {}
    BY <1>15, <2>1, <2>2, SentKinds, InsideIs
  <2>4. QED
    BY <1>16, <1>17, <2>1, <2>3
<1>21. ASSUME NEW i \in 1..Len(u)
       PROVE  /\ e[i + 1] = After(e[i], u[i])
              /\ Passed(e[i], u[i]) \cap A = {}
              /\ Passed(e[i], u[i]) \subseteq F
  <2>1. CASE i = n + 1
    BY <1>18, <1>20, <2>1
  <2>2. CASE i \in 1..n
    BY <1>5, <1>19, <2>2
  <2>3. QED
    BY <1>16, <1>18, <2>1, <2>2
<1>22. /\ Len(d) \in Nat \ {0} /\ Len(d) <= n /\ d[Len(d)].kind = "forward"
       /\ \A i \in 1..Len(d) : u[i] = d[i]
       /\ \A i \in 1..Len(u) : i > Len(d) => u[i].kind # "forward"
  <2>1. PICK v \in Nat : d # <<>> /\ d[Len(d)] = Forward(v)
    BY <1>9 DEF IsBrisk, EndsForward
  <2>2. Len(d) \in Nat \ {0} /\ d[Len(d)].kind = "forward"
    BY <1>9, <2>1, EmptySeq, LenProperties DEF Forward
  <2>3. /\ n = Len(d) + Len(rest) /\ Len(rest) \in Nat
        /\ \A i \in 1..Len(d) : s[i] = d[i]
        /\ \A i \in 1..n : i > Len(d) => s[i] = rest[i - Len(d)] /\ i - Len(d) \in 1..Len(rest)
    BY <1>9, <1>10, <1>11 DEF n
  <2>4. \A i \in 1..n : i > Len(d) => u[i].kind # "forward"
    BY <1>11, <1>16, <2>3
  <2>5. u[n + 1].kind # "forward"
    BY <1>16 DEF End
  <2>6. QED
    BY <1>16, <1>18, <2>2, <2>3, <2>4, <2>5
<1>23. ASSUME NEW i \in 1..(Len(u) - 1) PROVE Looks(e, u, i)
  <2> SUFFICES ASSUME u[i].kind \in TurnKinds, u[i + 1].kind # "forward",
                      NEW j \in (i + 1)..Len(u)
               PROVE  Place(Ahead(e[i + 1], 1)) \notin Passed(e[j], u[j])
    BY DEF Looks
  <2>1. j \in 1..Len(u) /\ j \in Nat /\ i \in Nat
    BY <1>15, <1>16
  <2>2. CASE j > Len(d)
    BY <1>22, <2>1, <2>2 DEF Passed
  <2>3. CASE ~ j > Len(d)
    <3>1. i \in 1..(Len(d) - 1) /\ i + 1 \in 1..Len(d) /\ i \in 1..Len(d)
      BY <1>22, <2>1, <2>3
    <3>2. d[i].kind \in TurnKinds /\ d[i + 1].kind # "forward"
      BY <1>22, <3>1
    <3>3. i = 1 /\ d[1] = Right /\ TurnsBack(p, a)
      BY <1>9, <3>1, <3>2 DEF IsBrisk
    <3>4. e[i + 1] = After(r, Right)
      <4>1. e[i + 1] = After(e[i], u[i]) /\ e[i] = r /\ u[i] = Right
        BY <1>12, <1>15, <1>17, <1>18, <1>21, <1>22, <3>1, <3>3
      <4>2. QED
        BY <4>1
    <3>5. Place(Ahead(After(r, Right), 1)) \notin F
      BY <1>2, <1>3, <3>3, BackFacesOther DEF F
    <3>6. QED
      BY <1>21, <2>1, <3>4, <3>5
  <2>4. QED
    BY <2>2, <2>3
<1>24. IsCourse(e, u, A)
  <2>1. e \in [1..(Len(u) + 1) -> Inside]
    BY <1>15, <1>16, <1>17
  <2>2. QED
    BY <1>16, <1>21, <1>23, <2>1 DEF IsCourse
<1>25. e[1] = r /\ e[Len(u) + 1] = q
  BY <1>12, <1>15, <1>16, <1>17
<1>26. Course(r, u, q, A)
  BY <1>24, <1>25 DEF Course
<1>27. QED
  BY <1>7, <1>26 DEF u, s

-----------------------------------------------------------------------------
(***************************************************************************)
(* What the server knows: as in MissionProofs, and that its rover, too, is *)
(* inside, and that its map keeps the edge closed.                         *)
(***************************************************************************)
Fence(map) ==
  \A t \in Tiles : IF t \in Inner THEN map[t] # Border ELSE ~ map[t] <= Empty

Fenced ==
  {b \in TrueBeliefs : b.rover \in Inside /\ Expected(b) \in Inside /\ Fence(b.tiles)}

LEMMA FencedIs ==
  ASSUME NEW b \in Fenced
  PROVE  /\ b \in Beliefs /\ b \in TrueBeliefs /\ IsTrue(b.tiles)
         /\ b.rover \in Inside /\ Expected(b) \in Inside /\ Fence(b.tiles)
         /\ b.tiles \in Maps /\ b.stash \in Stashes /\ b.rover \in Rovers
BY BeliefIs DEF Fenced, TrueBeliefs

LEMMA ValuesAre ==
  ASSUME NEW v \in Values
  PROVE  /\ v <= Empty <=> v \in {Unknown, Empty}
         /\ v >= Obstacle <=> v \in 5..10
         /\ v = Border \/ v <= Empty \/ v >= Obstacle
         /\ v = Border => ~ v <= Empty /\ ~ v >= Obstacle
         /\ v >= Obstacle => ~ v <= Empty /\ v # Border
BY DEF Values, Unknown, Empty, Border, Obstacle

\* What a forward passes over.
LEMMA IndicesInside ==
  ASSUME NEW r \in Inside, NEW i \in Stashes, After(r, i) \in Inside
  PROVE  Indices(r, i) \subseteq Inner
<1>1. CASE i.kind # "forward"
  BY <1>1, IndicesAre
<1>2. CASE i.kind = "forward"
  <2>1. i.value \in Nat /\ Ahead(r, i.value) \in Inside
    BY <1>2, SentAre DEF After
  <2>2. \A k \in 0..i.value : Place(Ahead(r, k)) \in Inner
    BY <2>1, LineInside, InsideIs
  <2>3. QED
    BY <1>2, <2>2, IndicesAre
<1>3. QED
  BY <1>1, <1>2

LEMMA FenceDriven ==
  ASSUME NEW map \in Maps, Fence(map), NEW r, NEW i, Indices(r, i) \subseteq Inner
  PROVE  Fence(Driven(map, r, i))
<1>1. \A t \in Tiles : Driven(map, r, i)[t] = IF t \in Indices(r, i) THEN Empty ELSE map[t]
  BY DEF Driven
<1>2. Empty # Border
  BY DEF Empty, Border
<1>3. QED
  BY <1>1, <1>2 DEF Fence

LEMMA FenceMarked ==
  ASSUME NEW map \in Maps, Fence(map), NEW c \in Colours, NEW t
  PROVE  Fence([map EXCEPT ![t] = ObstacleValue(c)])
<1>1. ObstacleValue(c) \in 5..10
  BY ObstacleValueIs
<1>2. ~ ObstacleValue(c) <= Empty /\ ObstacleValue(c) # Border
  BY <1>1 DEF Empty, Border
<1>3. \A u \in Tiles : \/ [map EXCEPT ![t] = ObstacleValue(c)][u] = map[u]
                       \/ [map EXCEPT ![t] = ObstacleValue(c)][u] = ObstacleValue(c)
  BY DEF Maps
<1>4. QED
  BY <1>2, <1>3 DEF Fence

LEMMA FenceSeen ==
  ASSUME NEW map \in Maps, Fence(map), NEW r, NEW i, NEW c \in Colours \cup {NoColour}
  PROVE  Fence(SeenWhileTurning(map, r, i, c))
<1> DEFINE t == InFront(r, i)
           new == [map EXCEPT ![t] = ObstacleValue(c)]
<1>1. CASE SeenWhileTurning(map, r, i, c) = map
  BY <1>1
<1>2. CASE SeenWhileTurning(map, r, i, c) # map
  <2>1. SeenWhileTurning(map, r, i, c) = new /\ (c = NoColour => map[t] \in {Unknown, Empty})
    BY <1>2 DEF SeenWhileTurning
  <2>2. CASE c # NoColour
    BY <2>1, <2>2, FenceMarked
  <2>3. CASE c = NoColour
    <3>1. ObstacleValue(c) = Empty /\ map[t] <= Empty /\ Empty # Border
      <4>1. ObstacleValue(c) = Empty
        BY <2>3 DEF ObstacleValue, NoColour
      <4>2. map[t] \in {Unknown, Empty}
        BY <2>1, <2>3
      <4>3. QED
        BY <4>1, <4>2 DEF Unknown, Empty, Border
    <3>2. t \in Tiles => t \in Inner
      BY <3>1 DEF Fence
    <3>3. \A u \in Tiles : new[u] = IF u = t THEN Empty ELSE map[u]
      BY <3>1 DEF Maps
    <3> HIDE DEF new, t
    <3>4. Fence(new)
      BY <3>1, <3>2, <3>3 DEF Fence
    <3>5. QED
      BY <2>1, <3>4
  <2>4. QED
    BY <2>2, <2>3
<1>3. QED
  BY <1>1, <1>2

\* A report keeps the server's rover inside if the way it tells of does.
LEMMA HearsFenced ==
  ASSUME NEW b \in Fenced, NEW m \in Reports, IsTrue(Hears(b, m).tiles),
         m.kind = "forward" => After(Expected(b), m) \in Inside,
         m.kind = "SD" /\ m.value # -1 => b.stopData # NoColour
  PROVE  Hears(b, m) \in Fenced
<1> DEFINE d == Hears(b, m)
<1>1. /\ b \in Beliefs /\ b.rover \in Inside /\ Expected(b) \in Inside /\ Fence(b.tiles)
      /\ b.tiles \in Maps /\ b.stash \in Stashes
  BY FencedIs
<1>2. d \in Beliefs
  BY <1>1, HearsType
<1>3. Indices(b.rover, b.stash) \subseteq Inner
  BY <1>1, IndicesInside DEF Expected
<1>4. \A map \in Maps : Fence(map) => Fence(Driven(map, b.rover, b.stash))
  BY <1>3, FenceDriven
<1>5. NoColour \in Colours \cup {NoColour}
  OBVIOUS
<1>6. m.kind \in {"forward", "X", "S", "SD", "backward"} \cup TurnKinds
  BY SentAre DEF Reports, InstructionKinds, TurnKinds
<1>7. b.stopData \in Colours \cup {NoColour}
  BY <1>1, BeliefIs
<1>8. d.rover \in Inside /\ Expected(d) \in Inside
  <2>1. CASE m.kind = "forward"
    BY <1>1, <2>1, HeardRover DEF Expected
  <2>2. CASE m.kind \in TurnKinds
    <3>1. d.rover = Expected(b) /\ d.stash = m
      BY <1>1, <2>2, HeardRover
    <3>2. m \in Moves /\ m \in Sent /\ m.kind # "forward"
      BY <2>2, ReportKinds DEF Sent, Orders, TurnKinds
    <3>3. QED
      BY <1>1, <3>1, <3>2, SentStaysInside DEF Expected
  <2>3. CASE m.kind = "X" \/ m.kind = "SD"
    <3>1. d.rover \in Inside /\ (d.stash = Nothing \/ d.stash = Forward(0))
      BY <1>1, <2>3, HeardRover
    <3>2. d.rover \in Rovers
      BY <3>1, InsideIs
    <3>3. Expected(d) = d.rover
      BY <3>1, <3>2, NothingExpected
    <3>4. QED
      BY <3>1, <3>3
  <2>4. CASE m.kind \in {"S", "backward"}
    BY <1>1, <2>4, HeardRover DEF Expected
  <2>5. QED
    BY <1>6, <2>1, <2>2, <2>3, <2>4
<1>9. Fence(d.tiles)
  <2>1. CASE m.kind = "forward" \/ m.kind = "X"
    <3>1. d.tiles = Driven(b.tiles, b.rover, b.stash)
      BY <1>1, <2>1, HearsIs, UpdatedIs
    <3>2. QED
      BY <1>1, <1>4, <3>1
  <2>2. CASE m.kind \in TurnKinds
    <3> DEFINE seen == SeenWhileTurning(b.tiles, b.rover, b.stash, NoColour)
    <3>1. d.tiles = Driven(seen, b.rover, b.stash)
      BY <1>1, <2>2, HearsIs, UpdatedIs
    <3>2. seen \in Maps /\ Fence(seen)
      BY <1>1, <1>5, SeenType, FenceSeen
    <3> HIDE DEF seen
    <3>3. QED
      BY <1>4, <3>1, <3>2
  <2>3. CASE m.kind = "S"
    <3>1. d.tiles = b.tiles \/ d.tiles = SeenWhileTurning(b.tiles, b.rover, b.stash, m.value)
      BY <1>1, <2>3, HearsIs
    <3>2. m.value \in Colours
      BY <2>3, ReportKinds
    <3>3. Fence(SeenWhileTurning(b.tiles, b.rover, b.stash, m.value))
      BY <1>1, <3>2, FenceSeen
    <3>4. QED
      BY <1>1, <3>1, <3>3
  <2>4. CASE m.kind = "SD" /\ m.value = -1
    <3>1. d.tiles = Driven(b.tiles, b.rover, b.stash)
      BY <1>1, <2>4, HearsIs
    <3>2. QED
      BY <1>1, <1>4, <3>1
  <2>5. CASE m.kind = "SD" /\ m.value # -1
    <3> DEFINE driven == Driven(b.tiles, b.rover, Forward(0))
    <3>1. d.tiles = [driven EXCEPT ![InFront(b.rover, Nothing)] = ObstacleValue(b.stopData)]
      BY <1>1, <2>5, HearsIs DEF StopMarked
    <3>2. Forward(0) \in Stashes /\ After(b.rover, Forward(0)) = b.rover
      BY <1>1, MovesAre, AfterStash, InsideIs
    <3>3. Indices(b.rover, Forward(0)) \subseteq Inner
      BY <1>1, <3>2, IndicesInside
    <3>4. driven \in Maps /\ Fence(driven)
      BY <1>1, <3>3, FenceDriven, DrivenType
    <3>5. b.stopData \in Colours
      BY <1>7, <2>5
    <3> HIDE DEF driven
    <3>6. QED
      BY <3>1, <3>4, <3>5, FenceMarked, SMTT(30)
  <2>6. CASE m.kind = "backward"
    BY <1>1, <2>6, HearsIs
  <2>7. QED
    BY <1>6, <2>1, <2>2, <2>3, <2>4, <2>5, <2>6
<1>10. QED
  BY <1>2, <1>8, <1>9 DEF Fenced, TrueBeliefs

\* A report frees no tile.
LEMMA HearsFrees ==
  ASSUME NEW b \in Fenced, NEW m \in Reports, Hears(b, m) \in Fenced
  PROVE  \A t \in Tiles : Hears(b, m).tiles[t] <= Empty => b.tiles[t] <= Empty
<1> DEFINE d == Hears(b, m)
<1>1. /\ b \in Beliefs /\ IsTrue(b.tiles) /\ Fence(b.tiles) /\ b.tiles \in Maps
      /\ d \in Beliefs /\ IsTrue(d.tiles) /\ Fence(d.tiles) /\ d.tiles \in Maps
  BY FencedIs
<1>2. ASSUME NEW map \in Maps, NEW r, NEW i, NEW t \in Tiles, Driven(map, r, i)[t] = Unknown
      PROVE  map[t] = Unknown
  BY <1>2 DEF Driven, Unknown, Empty
<1>3. ASSUME NEW c, NEW map \in Maps, NEW u, NEW t \in Tiles,
             [map EXCEPT ![u] = ObstacleValue(c)][t] = Unknown
      PROVE  map[t] = Unknown
  <2>1. ObstacleValue(c) # Unknown
    BY DEF ObstacleValue, Unknown, Empty
  <2>2. QED
    BY <1>3, <2>1 DEF Maps
<1>4. ASSUME NEW c, NEW map \in Maps, NEW r, NEW i, NEW t \in Tiles,
             SeenWhileTurning(map, r, i, c)[t] = Unknown
      PROVE  map[t] = Unknown
  BY <1>3, <1>4 DEF SeenWhileTurning
<1>5. m.kind \in {"forward", "X", "S", "SD", "backward"} \cup TurnKinds
  BY SentAre DEF Reports, InstructionKinds, TurnKinds
<1>6. ASSUME NEW t \in Tiles, d.tiles[t] = Unknown PROVE b.tiles[t] = Unknown
  <2>1. CASE m.kind = "forward" \/ m.kind = "X" \/ (m.kind = "SD" /\ m.value = -1)
    <3>1. d.tiles = Driven(b.tiles, b.rover, b.stash)
      BY <1>1, <2>1, HearsIs, UpdatedIs
    <3>2. QED
      BY <1>1, <1>2, <1>6, <3>1
  <2>2. CASE m.kind \in TurnKinds
    <3> DEFINE seen == SeenWhileTurning(b.tiles, b.rover, b.stash, NoColour)
    <3>1. d.tiles = Driven(seen, b.rover, b.stash)
      BY <1>1, <2>2, HearsIs, UpdatedIs
    <3>2. seen \in Maps
      BY <1>1, SeenType
    <3>3. seen[t] = Unknown
      <4> HIDE DEF seen
      <4>1. QED
        BY <1>2, <1>6, <3>1, <3>2
    <3>4. QED
      BY <1>1, <1>4, <3>3
  <2>3. CASE m.kind = "S"
    <3>1. d.tiles = b.tiles \/ d.tiles = SeenWhileTurning(b.tiles, b.rover, b.stash, m.value)
      BY <1>1, <2>3, HearsIs
    <3>2. QED
      BY <1>1, <1>4, <1>6, <3>1
  <2>4. CASE m.kind = "SD" /\ m.value # -1
    <3> DEFINE driven == Driven(b.tiles, b.rover, Forward(0))
    <3>1. d.tiles = [driven EXCEPT ![InFront(b.rover, Nothing)] = ObstacleValue(b.stopData)]
      BY <1>1, <2>4, HearsIs DEF StopMarked
    <3>2. driven \in Maps
      BY <1>1, DrivenType
    <3>3. driven[t] = Unknown
      <4> HIDE DEF driven
      <4>1. QED
        BY <1>3, <1>6, <3>1, <3>2
    <3>4. QED
      BY <1>1, <1>2, <3>3
  <2>5. CASE m.kind = "backward"
    BY <1>1, <1>6, <2>5, HearsIs
  <2>6. QED
    BY <1>5, <2>1, <2>2, <2>3, <2>4, <2>5
<1> HIDE DEF d
<1>7. ASSUME NEW t \in Tiles, d.tiles[t] <= Empty PROVE b.tiles[t] <= Empty
  <2>1. d.tiles[t] \in Values /\ b.tiles[t] \in Values
    BY <1>1 DEF Maps
  <2>2. d.tiles[t] \in {Unknown, Empty}
    BY <1>7, <2>1, ValuesAre
  <2>3. CASE d.tiles[t] = Unknown
    BY <1>6, <2>1, <2>3, ValuesAre
  <2>4. CASE d.tiles[t] = Empty
    <3>1. t \notin DOMAIN world
      BY <1>1, <2>4 DEF IsTrue
    <3>2. ~ b.tiles[t] >= Obstacle
      BY <1>1, <3>1 DEF IsTrue
    <3>3. t \in Inner
      BY <1>1, <1>7 DEF Fence
    <3>4. b.tiles[t] # Border
      BY <1>1, <3>3 DEF Fence
    <3>5. QED
      BY <2>1, <3>2, <3>4, ValuesAre
  <2>5. QED
    BY <2>2, <2>3, <2>4
<1>8. QED
  BY <1>7 DEF d

\* The handler of a report does not panic.
LEMMA FencedNoPanic ==
  ASSUME Belief \in Fenced, NEW m
  PROVE  ~ Panics(m)
<1> DEFINE move == IF IsForwardStop(m) THEN Forward(Atoi(m.value)) ELSE stash
           moved == After(rover, move)
           driven == IF m.kind = "S" THEN {} ELSE Indices(rover, move)
           front == IF IsForwardStop(m) THEN {InFront(moved, Nothing)} ELSE {}
           faced == IF m.kind \in TurnKinds \cup {"S"} /\ stash.kind \in TurnKinds
                    THEN {InFront(rover, stash)} ELSE {}
<1>1. rover \in Inside /\ After(rover, stash) \in Inside /\ stash \in Stashes
  BY FencedIs DEF Belief, Expected
<1>2. Forward(0) \in Stashes /\ After(rover, Forward(0)) = rover /\ Atoi(m.value) = 0
  BY <1>1, MovesAre, AfterStash, InsideIs DEF Atoi
<1>3. move \in Stashes /\ moved \in Inside
  BY <1>1, <1>2
<1>4. Inner \subseteq Tiles
  BY DEF Inner
<1>5. \A r \in Inside : \A i \in Stashes :
        After(r, i) \in Inside /\ i.kind # "forward" => InFront(r, i) \in Tiles
  <2> SUFFICES ASSUME NEW r \in Inside, NEW i \in Stashes, After(r, i) \in Inside,
                      i.kind # "forward"
               PROVE  InFront(r, i) \in Tiles
    OBVIOUS
  <2>1. InFront(r, i) = Place(Ahead(After(r, i), 1))
    BY DEF InFront, After
  <2>2. QED
    BY <2>1, OneStep
<1>6. Nothing \in Stashes /\ Nothing.kind # "forward" /\ After(moved, Nothing) = moved
  BY <1>3, MovesAre, AfterStash, InsideIs DEF Nothing
<1> HIDE DEF move, moved
<1>7. driven \subseteq Tiles
  BY <1>1, <1>3, <1>4, IndicesInside DEF moved
<1>8. front \subseteq Tiles
  BY <1>3, <1>5, <1>6
<1>9. faced \subseteq Tiles
  <2>1. stash.kind \in TurnKinds => stash.kind # "forward"
    BY DEF TurnKinds
  <2>2. QED
    BY <1>1, <1>5, <2>1
<1>10. OnMap(moved)
  BY <1>3, InsideIs DEF OnMap
<1> HIDE DEF driven, front, faced
<1>11. (driven \cup front \cup faced) \subseteq Tiles
  BY <1>7, <1>8, <1>9
<1>12. QED
  BY <1>10, <1>11, Zenon DEF Panics, move, moved, driven, front, faced

\* A backward tells the server nothing.
LEMMA ToldBacks ==
  ASSUME NEW V, NEW b, NEW s \in Seq(Reports), NEW c, Told(V, b, s, c),
         NEW d \in Beliefs, b = d, \A i \in 1..Len(s) : s[i] = Back
  PROVE  c = b
<1>1. PICK t \in [1..(Len(s) + 1) -> V] :
        /\ t[1] = b /\ t[Len(s) + 1] = c
        /\ \A i \in 1..Len(s) : t[i + 1] = Hears(t[i], s[i])
  BY DEF Told
<1> DEFINE n == Len(s)
           f == [i \in 0..n |-> t[i + 1]]
<1>2. n \in Nat
  BY LenProperties
<1>3. f[0] \in {b}
  BY <1>1, <1>2
<1>4. ASSUME NEW i \in 1..n, f[i - 1] \in {b} PROVE f[i] \in {b}
  <2>1. f[i - 1] = t[i] /\ f[i] = t[i + 1]
    BY <1>2
  <2>2. t[i + 1] = Hears(t[i], s[i]) /\ s[i] = Back
    BY <1>1
  <2>3. Hears(b, Back) = b
    BY HearsIs DEF Back, Report
  <2>4. QED
    BY <1>4, <2>1, <2>2, <2>3
<1>5. f[n] = c
  BY <1>1, <1>2
<1> HIDE DEF f, n
<1>6. \A i \in 1..n : f[i - 1] \in {b} => f[i] \in {b}
  BY <1>4
<1>7. \A i \in 0..n : f[i] \in {b}
  BY <1>2, <1>3, <1>6, StaysIn, Zenon
<1>8. QED
  BY <1>2, <1>5, <1>7

Knows(c) == c \in Fenced /\ Told(Fenced, Belief, reports, c) /\ Agrees(c) /\ Sees(c)

\* The rover does or reports something: there is a new last belief.
LEMMA FieldKnows ==
  ASSUME Types, StopsAtOnce, NoCollision, NoCollision', Apart,
         StartNext \/ MoveNext, UNCHANGED <<rover, stash, tiles, stopData>>,
         NEW c, Knows(c),
         StartNext /\ Head(queue).kind = "forward" => After(body, Head(queue)) \in Inside
  PROVE  \E d : Follows(c, d) /\ Knows(d)'
<1>1. /\ c \in Beliefs /\ c \in TrueBeliefs /\ Agrees(c) /\ Sees(c)
      /\ Told(Fenced, Belief, reports, c) /\ c \in Fenced
  BY FencedIs DEF Knows
<1>2. PICK d \in Beliefs : Follows(c, d)
  BY <1>1, SomethingFollows
<1>3. Sees(d)' /\ IsTrue(d.tiles) /\ (SeeWhileTurning => Hears(c, Sighted) \in TrueBeliefs)
  BY <1>1, <1>2, FollowsSees
<1>4. Agrees(d)'
  BY <1>1, <1>2, FollowsAgrees
<1>5. /\ TurnEnds \in Reports /\ TurnEnds.kind = "SD" /\ TurnEnds.value = -1
      /\ Stopped \in Reports /\ Stopped.kind = "SD" /\ Sighted.kind = "S"
      /\ (InSight => Sighted \in Reports)
      /\ (queue # <<>> => Head(queue) \in Reports /\ Head(queue) \in Sent)
  BY SaidAre
<1>6. ASSUME SeeWhileTurning
      PROVE  Hears(c, Sighted) \in Fenced
  <2>1. InSight
    BY <1>6 DEF SeeWhileTurning
  <2>2. IsTrue(Hears(c, Sighted).tiles)
    BY <1>3, <1>6 DEF TrueBeliefs
  <2>3. QED
    BY <1>1, <1>5, <2>1, <2>2, HearsFenced
<1>7. d \in Fenced
  <2>1. CASE d = c
    BY <1>1, <2>1
  <2>2. CASE StartNext /\ d = Hears(c, Head(queue))
    <3>1. Head(queue) \in Reports /\ Head(queue) \in Sent /\ phase = "ready"
      BY <1>5, <2>2 DEF StartNext
    <3>2. Expected(c) = body
      BY <1>1, <3>1 DEF Agrees
    <3>3. Head(queue).kind # "SD"
      BY <3>1, SentAre DEF InstructionKinds
    <3>4. QED
      BY <1>1, <1>3, <2>2, <3>1, <3>2, <3>3, HearsFenced
  <2>3. CASE StopForward /\ d = Hears(c, Sighted)
    <3>1. InSight
      BY <2>3 DEF StopForward
    <3>2. QED
      BY <1>1, <1>3, <1>5, <2>3, <3>1, HearsFenced
  <2>4. CASE ReportDistance /\ d = Hears(c, Stopped)
    <3>1. c.stopData = world[Faced] /\ Faced \in DOMAIN world
      BY <1>1, <2>4 DEF ReportDistance, Sees
    <3>2. c.stopData # NoColour
      BY <3>1 DEF Types, FieldInv, Colours, NoColour
    <3>3. QED
      BY <1>1, <1>3, <1>5, <2>4, <3>2, HearsFenced
  <2>5. CASE SeeWhileTurning /\ d = Hears(c, Sighted)
    BY <1>6, <2>5
  <2>6. CASE SeeWhileTurning /\ d = Hears(Hears(c, Sighted), TurnEnds)
    BY <1>3, <1>5, <1>6, <2>6, HearsFenced
  <2>7. QED
    BY <1>2, <2>1, <2>2, <2>3, <2>4, <2>5, <2>6 DEF Follows
<1>8. Told(Fenced, Belief', reports', d)
  BY <1>1, <1>2, <1>6, <1>7, FollowsIsTold
<1>9. Fenced' = Fenced
  <2>1. world' = world
    BY DEF StartNext, MoveNext, Deliver, Advance, Arrive, StopForward, ReportDistance,
           SeeWhileTurning
  <2>2. QED
    BY <2>1 DEF Fenced, TrueBeliefs, IsTrue
<1>10. Knows(d)'
  <2>1. Told(Fenced, Belief, reports, d)'
    BY <1>8, <1>9 DEF Told
  <2>2. QED
    BY <1>3, <1>4, <1>7, <1>9, <2>1 DEF Knows
<1>11. QED
  BY <1>2, <1>10

-----------------------------------------------------------------------------
(***************************************************************************)
(* The operator waits until nothing goes on, and with a reset until the    *)
(* last instruction is on the map, a sequence has arrived before the rover *)
(* starts on it, targets are approached on a shortest path, the manual     *)
(* drives only turn, and the rover starts inside on a free tile.           *)
(***************************************************************************)
SafeModes == {Simple, DestinationDiscovery}

Guided ==
  /\ Patient /\ Prompt /\ Careful
  /\ Steps = {} /\ Modes \subseteq SafeModes

FreeStart ==
  /\ StartX \in 1..(Size - 2) /\ StartY \in 1..(Size - 2)
  /\ \A S \in Obstacles : \A o \in S : o.tile # Place(NewRover)

\* What comes from the server finds room in the queue.
RoomInQueue == topic # <<>> => Len(queue) < QueueLength

\* A target is not forgotten on the map and remembered by the server.
KeepsTarget == Reset => destination = NoDestination

-----------------------------------------------------------------------------
(***************************************************************************)
(* The inductive invariant.  The obstacle that vision will not send again, *)
(* what is being done, what is still to come, and a stop the server has    *)
(* not answered yet:                                                       *)
(***************************************************************************)
Avoided == {t \in DOMAIN world : world[t] = lastSent}

Now ==
  IF Driving THEN <<Forward(doing.value - gone)>>
  ELSE IF Turning THEN <<doing>> ELSE <<>>

Coming == queue \o (topic \o request.left)

Future == Now \o Coming

Halted == \E k \in 1..Len(reports) : reports[k].kind = "SD"

Calm == topic = <<>> /\ request = NoRequest

\* All that may be reported after a stop is the backward it leads to.
HaltsLast ==
  \A k \in 1..Len(reports) : reports[k].kind = "SD" =>
    \A j \in 1..Len(reports) : j > k => reports[j] = Back

\* A plan is under way only when no stop can cross it, and the last plan is
\* gone when a stop is answered.
Orderly ==
  /\ alive /\ ~ exploring
  /\ destination.mode \in SafeModes /\ request.mode \in SafeModes
  /\ Driving \/ phase = "stopping" \/ (Turning /\ InSight) => Calm
  /\ phase = "stopping" => queue = <<>> /\ ~ Halted
  /\ request # NoRequest =>
       phase = "ready" /\ reports = <<>> /\ request.then = destination
  /\ request.path # <<>> =>
       /\ queue = <<>> /\ topic = <<>> /\ request.left = <<>>
       /\ request.path \in ShortestPaths(tiles, Place(body), destination.tile)
       /\ rover = body
  /\ Halted => /\ Calm /\ ~ Driving /\ (Turning => ~ InSight)
               /\ queue \in {<<>>, <<Back>>}
  /\ HaltsLast

\* A stash is left only while a sequence goes on: its end clears it.
Settled(c) ==
  phase # "stopping" =>
    \/ Coming \in {<<>>, <<Back>>} /\ c.stash \in {Nothing, Forward(0)}
    \/ Coming # <<>> /\ Coming[Len(Coming)] = End

Aim(p) ==
  \/ destination = NoDestination \/ p = destination.tile
  \/ ShortestPaths(tiles, p, destination.tile) = {}

\* What is to come leads to the target, but for a stop to be answered, and a
\* plan of which no instructions have been made yet.
Aimed(g, q) ==
  g /\ ~ Halted /\ phase # "stopping" /\ request.path = <<>> => Aim(Place(q))

OnCourse(g) == \E q : Course(body, Future, q, Avoided) /\ Aimed(g, q)

Journey(g) ==
  /\ Apart /\ NoCollision
  /\ NewRover \in Inside /\ Place(NewRover) \notin DOMAIN world
  /\ Orderly
  /\ \E c : Knows(c) /\ Settled(c)
  /\ OnCourse(g)

LEMMA NewMapFenced == Fence(NewMap)
<1> SUFFICES ASSUME NEW t \in Tiles
             PROVE  IF t \in Inner THEN NewMap[t] # Border ELSE ~ NewMap[t] <= Empty
  BY DEF Fence
<1>1. Column(t) \in 0..(Size - 1) /\ Row(t) \in 0..(Size - 1) /\ Size \in Nat
  BY Grid
<1>2. NewMap[t] = IF {Column(t), Row(t)} \cap {0, Size - 1} = {} THEN Unknown ELSE Border
  BY DEF NewMap
<1>3. t \in Inner <=> {Column(t), Row(t)} \cap {0, Size - 1} = {}
  <2>1. ASSUME NEW x \in 0..(Size - 1)
        PROVE  x \in 1..(Size - 2) <=> x \notin {0, Size - 1}
    BY <1>1
  <2>2. /\ Column(t) \in 1..(Size - 2) <=> Column(t) \notin {0, Size - 1}
        /\ Row(t) \in 1..(Size - 2) <=> Row(t) \notin {0, Size - 1}
    BY <1>1, <2>1
  <2>3. {Column(t), Row(t)} \cap {0, Size - 1} = {}
          <=> Column(t) \notin {0, Size - 1} /\ Row(t) \notin {0, Size - 1}
    BY Zenon
  <2>4. QED
    BY <2>2, <2>3 DEF Inner
<1>4. Unknown # Border /\ ~ Border <= Empty
  BY DEF Unknown, Border, Empty
<1>5. QED
  BY <1>2, <1>3, <1>4

\* At the start nothing is known and nothing is to come.
NewStart ==
  /\ FieldInv /\ NewRover \in Inside
  /\ rover = NewRover /\ body = NewRover /\ stash = Nothing /\ tiles = NewMap
  /\ stopData \in Colours \cup {NoColour} /\ reports = <<>>
  /\ gone = 0 /\ phase = "ready" /\ lastSent = "none"

LEMMA NewKnown == NewStart => Knows(Belief)
<1> SUFFICES ASSUME NewStart PROVE Knows(Belief)
  OBVIOUS
<1> USE DEF NewStart
<1>1. Belief \in Beliefs
  BY NewIs, MovesAre DEF Belief, Beliefs
<1>2. /\ Belief.rover = NewRover /\ Belief.stash = Nothing /\ Belief.tiles = NewMap
      /\ Expected(Belief) = NewRover
  BY NewIs DEF Belief
<1>3. Belief \in Fenced
  BY <1>1, <1>2, NewMapTrue, NewMapFenced DEF Fenced, TrueBeliefs
<1>4. Told(Fenced, Belief, reports, Belief)
  BY <1>3, ToldNothing
<1>5. Agrees(Belief)
  BY <1>2 DEF Agrees
<1>6. Sees(Belief)
  BY <1>2, NothingSeen
<1>7. QED
  BY <1>3, <1>4, <1>5, <1>6 DEF Knows

LEMMA JourneyInit ==
  ASSUME NEW g, DistinctColours, FreeStart, Init
  PROVE  Journey(g)
<1>1. Types
  BY TypesInit
<1>2. /\ rover = NewRover /\ stash = Nothing /\ tiles = NewMap /\ reports = <<>>
      /\ topic = <<>> /\ queue = <<>> /\ request = NoRequest /\ destination = NoDestination
      /\ body = NewRover /\ gone = 0 /\ phase = "ready" /\ lastSent = "none"
      /\ alive /\ ~ exploring
  BY DEF Init, TopicsInit, ServerInit, FieldInit
<1>3. NewRover \in Inside
  BY NewIs DEF FreeStart, NewRover, Inside
<1>4. Apart
  BY MappedInit DEF Mapped
<1>5. Place(NewRover) \notin DOMAIN world
  <2>1. PICK S \in Obstacles :
          world = [t \in {o.tile : o \in S} |-> (CHOOSE o \in S : o.tile = t).colour]
    BY DEF Init
  <2>2. DOMAIN world = {o.tile : o \in S}
    BY <2>1
  <2>3. QED
    BY <2>2 DEF FreeStart
<1>6. Knows(Belief)
  BY <1>1, <1>2, <1>3, NewKnown DEF NewStart, Types, ServerInv
<1>7. Now = <<>> /\ Coming = <<>> /\ Future = <<>>
  BY <1>2 DEF Now, Driving, Turning, Coming, Future, NoRequest
<1>8. Settled(Belief)
  BY <1>2, <1>7 DEF Settled, Belief
<1>9. OnCourse(g)
  BY <1>2, <1>3, <1>7, NoCourse DEF OnCourse, Aimed, Aim
<1>10. Orderly
  BY <1>2
    DEF Orderly, HaltsLast, SafeModes, NoDestination, NoRequest, Driving, Turning, Halted
<1>11. QED
  BY <1>2, <1>3, <1>4, <1>5, <1>6, <1>8, <1>9, <1>10 DEF Journey, NoCollision

\* What an action has to show.
LEMMA JourneyGoesOn ==
  ASSUME NEW g, Journey(g), [Next]_vars, NoCollision', Orderly',
         \E c : (Knows(c) /\ Settled(c))', OnCourse(g)'
  PROVE  Journey(g)'
<1>1. world' = world
  BY WorldStays
<1>2. Apart'
  BY <1>1 DEF Apart, Journey
<1>3. NewRover' = NewRover
  BY DEF NewRover
<1>4. (NewRover \in Inside)' /\ (Place(NewRover) \notin DOMAIN world)'
  BY <1>1, <1>3 DEF Journey
<1>5. QED
  BY <1>2, <1>4 DEF Journey

\* A field action adds nothing to the server's knowledge but its report.
LEMMA FieldGoesOn ==
  ASSUME NEW g, Types, StopsAtOnce, Journey(g), [Next]_vars, NoCollision',
         StartNext \/ MoveNext, UNCHANGED <<rover, stash, tiles, stopData>>,
         StartNext /\ Head(queue).kind = "forward" => After(body, Head(queue)) \in Inside,
         \A c, d : Knows(c) /\ Settled(c) /\ Follows(c, d) => Settled(d)',
         Orderly', OnCourse(g)'
  PROVE  Journey(g)'
<1>1. PICK c : Knows(c) /\ Settled(c)
  BY DEF Journey
<1>2. PICK d : Follows(c, d) /\ Knows(d)'
  BY <1>1, FieldKnows DEF Journey
<1>3. Settled(d)'
  BY <1>1, <1>2
<1>4. QED
  BY <1>2, <1>3, JourneyGoesOn

LEMMA AimStays ==
  ASSUME NEW g, NEW q, Aimed(g, q), UNCHANGED <<tiles, destination>>,
         ~ Halted' => ~ Halted, phase' # "stopping" => phase # "stopping",
         request'.path = <<>> => request.path = <<>>
  PROVE  Aimed(g, q)'
BY DEF Aimed, Aim

LEMMA AvoidedStays == UNCHANGED <<world, lastSent>> => Avoided' = Avoided
BY DEF Avoided

LEMMA SequencesAre ==
  ASSUME Types
  PROVE  /\ queue \in Seq(Sent) /\ topic \in Seq(Orders) /\ request.left \in Seq(Orders)
         /\ topic \in Seq(Sent) /\ request.left \in Seq(Sent)
         /\ reports \in Seq(Reports) /\ body \in Rovers /\ QueueLength \in Nat \ {0}
BY FieldAssumption DEF Types, TopicsInv, ServerInv, FieldInv, IsRequest, Sent

LEMMA JourneyIs ==
  ASSUME NEW g, Types, Journey(g)
  PROVE  /\ body \in Inside /\ Place(body) \in Tiles
         /\ Future \in Seq(Sent) /\ Coming \in Seq(Sent)
         /\ phase = "ready" => gone = 0
         /\ Orderly
<1>1. PICK q : Course(body, Future, q, Avoided)
  BY DEF Journey, OnCourse
<1>2. body \in Inside /\ Future \in Seq(Sent)
  BY <1>1, CourseEnds
<1>3. Place(body) \in Tiles
  BY <1>2, InsideIs
<1>4. Coming \in Seq(Sent)
  BY SequencesAre, ConcatProperties DEF Coming
<1>5. phase = "ready" => gone = 0
  BY DEF Journey, Knows, Agrees
<1>6. QED
  BY <1>2, <1>3, <1>4, <1>5 DEF Journey

\* One more report: what is said after a stop.
LEMMA SaidMore ==
  ASSUME reports \in Seq(Reports), HaltsLast, NEW m \in Reports, Say(<<m>>),
         Halted => m = Back
  PROVE  HaltsLast' /\ (Halted' <=> Halted \/ m.kind = "SD")
<1>1. /\ Len(reports) \in Nat /\ Len(reports') = Len(reports) + 1
      /\ \A k \in 1..Len(reports) : reports'[k] = reports[k]
      /\ reports'[Len(reports) + 1] = m
  BY DEF Say
<1>2. Halted' <=> Halted \/ m.kind = "SD"
  BY <1>1 DEF Halted
<1>3. HaltsLast'
  <2> SUFFICES ASSUME NEW k \in 1..Len(reports'), reports'[k].kind = "SD",
                      NEW j \in 1..Len(reports'), j > k
               PROVE  reports'[j] = Back
    BY DEF HaltsLast
  <2>1. k \in 1..Len(reports) /\ reports[k].kind = "SD"
    BY <1>1
  <2>2. CASE j = Len(reports) + 1
    BY <1>1, <2>1, <2>2 DEF Halted
  <2>3. CASE j # Len(reports) + 1
    <3>1. j \in 1..Len(reports)
      BY <1>1, <2>3
    <3>2. QED
      BY <1>1, <2>1, <3>1 DEF HaltsLast
  <2>4. QED
    BY <2>2, <2>3
<1>4. QED
  BY <1>2, <1>3

\* All of a sequence but its first element has the same last element.
LEMMA LastOfTail ==
  ASSUME NEW X, NEW s \in Seq(X), s # <<>>
  PROVE  /\ Len(s) \in Nat \ {0} /\ Head(s) = s[1] /\ s = <<Head(s)>> \o Tail(s)
         /\ Tail(s) = <<>> => Len(s) = 1
         /\ Tail(s) # <<>> => Tail(s)[Len(Tail(s))] = s[Len(s)]
<1>1. Len(s) \in Nat /\ Len(s) # 0
  BY EmptySeq, LenProperties
<1>2. Head(s) = s[1]
  BY HeadTailProperties
<1>3. Len(Tail(s)) = Len(s) - 1 /\ \A i \in 1..(Len(s) - 1) : Tail(s)[i] = s[i + 1]
  BY <1>1
<1>4. Tail(s) \in Seq(X)
  BY HeadTailProperties
<1>5. Tail(s) = <<>> => Len(s) = 1
  <2>1. Tail(s) = <<>> => Len(Tail(s)) = 0
    BY <1>4, EmptySeq
  <2>2. QED
    BY <1>1, <1>3, <2>1
<1>6. ASSUME Tail(s) # <<>> PROVE Tail(s)[Len(Tail(s))] = s[Len(s)]
  <2>1. Len(Tail(s)) # 0
    BY <1>4, <1>6, EmptySeq
  <2>2. QED
    BY <1>1, <1>3, <2>1
<1>7. s = <<Head(s)>> \o Tail(s)
  BY <1>1
<1>8. QED
  BY <1>1, <1>2, <1>5, <1>6, <1>7

\* The next instruction is taken from the queue, when all of the plan is there.
LEMMA StartJourney ==
  ASSUME NEW g, Types, StopsAtOnce, Guided, Journey(g), Start
  PROVE  Journey(g)'
<1> DEFINE i == Head(queue)
           s == Tail(queue)
<1>1. /\ phase = "ready" /\ queue # <<>> /\ queue' = s /\ Say(<<i>>) /\ StartNext
      /\ IF i.kind = "X" THEN UNCHANGED <<doing, phase>>
         ELSE doing' = i /\ phase' = "moving"
      /\ UNCHANGED <<topic, world, body, gone, lastSent>>
      /\ UNCHANGED serverVars /\ topic = <<>> /\ request = NoRequest
  BY DEF Start, StartNext, Guided
<1>2. UNCHANGED <<alive, tiles, rover, stash, stopData, destination, exploring, request>>
  BY <1>1 DEF serverVars
<1>3. /\ queue \in Seq(Sent) /\ reports \in Seq(Reports) /\ body \in Rovers
      /\ i \in Sent /\ i \in Reports /\ s \in Seq(Sent)
  BY <1>1, SequencesAre, ReportsTail, SentAre
<1>4. /\ Orderly /\ gone = 0 /\ body \in Inside
  BY <1>1, JourneyIs
<1>5. queue = <<i>> \o s
  BY <1>1, <1>3, LastOfTail
<1>6. i.kind # "SD"
  BY <1>3, SentAre DEF InstructionKinds
<1>7. Halted => i = Back /\ s = <<>>
  <2>1. ASSUME Halted PROVE queue = <<Back>>
    BY <1>1, <1>4, <2>1 DEF Orderly
  <2>2. Head(<<Back>>) = Back /\ Tail(<<Back>>) = <<>>
    OBVIOUS
  <2>3. QED
    BY <2>1, <2>2
<1>8. HaltsLast' /\ (Halted' <=> Halted)
  BY <1>1, <1>3, <1>4, <1>6, <1>7, SaidMore DEF Orderly
<1>9. Coming = queue /\ Coming' = s
  <2>1. topic \o request.left = <<>> /\ topic' \o request'.left = <<>>
    BY <1>1, <1>2 DEF NoRequest
  <2>2. QED
    BY <1>1, <1>3, <2>1 DEF Coming
<1>10. Future = queue
  <2>1. Now = <<>>
    BY <1>1 DEF Now, Driving, Turning
  <2>2. QED
    BY <1>3, <1>9, <2>1 DEF Future
<1>11. PICK q : Course(body, queue, q, Avoided) /\ Aimed(g, q)
  BY <1>10 DEF Journey, OnCourse
<1>12. Course(After(body, i), s, q, Avoided) /\ After(body, i) \in Inside
  BY <1>1, <1>11, CourseTail, CourseEnds
<1>13. ~ (Driving' \/ Turning') \/ i.kind \in TurnKinds \cup {"forward"}
  BY <1>1 DEF Driving, Turning
<1> HIDE DEF i, s
<1>14. Course(body, Future', q, Avoided)
  <2>1. CASE i.kind = "forward"
    <3>1. i \in Moves /\ i.kind # "X"
      BY <1>3, <2>1, SentKinds
    <3>2. i = Forward(i.value) /\ i.value \in Nat
      BY <2>1, <3>1, DoingKinds DEF Stashes
    <3>3. Driving' /\ doing'.value - gone' = i.value
      BY <1>1, <1>4, <2>1, <3>1, <3>2 DEF Driving
    <3>4. Now' = <<i>>
      BY <3>2, <3>3 DEF Now
    <3>5. QED
      BY <1>5, <1>9, <1>11, <3>4 DEF Future
  <2>2. CASE i.kind \in TurnKinds
    <3>1. Turning' /\ ~ Driving' /\ doing' = i
      BY <1>1, <2>2 DEF Driving, Turning, TurnKinds
    <3>2. Now' = <<i>>
      BY <3>1 DEF Now
    <3>3. QED
      BY <1>5, <1>9, <1>11, <3>2 DEF Future
  <2>3. CASE i.kind \notin TurnKinds \cup {"forward"}
    <3>1. After(body, i) = body
      BY <1>3, <2>3, SentKinds
    <3>2. ~ Driving' /\ ~ Turning'
      BY <1>13, <2>3
    <3>3. Now' = <<>>
      BY <3>2 DEF Now
    <3>4. Future' = s
      BY <1>3, <1>9, <3>3 DEF Future
    <3>5. QED
      BY <1>12, <3>1, <3>4
  <2>4. QED
    BY <2>1, <2>2, <2>3
<1>15. OnCourse(g)'
  <2>1. Aimed(g, q)'
    BY <1>1, <1>2, <1>8, <1>11, AimStays
  <2>2. Avoided' = Avoided
    BY <1>1, AvoidedStays
  <2>3. QED
    BY <1>1, <1>14, <2>1, <2>2 DEF OnCourse
<1>16. Orderly'
  <2>1. phase' # "stopping" /\ topic' = <<>> /\ request' = NoRequest /\ NoRequest.path = <<>>
    BY <1>1, <1>2 DEF NoRequest
  <2>2. Halted' => ~ Driving' /\ ~ Turning' /\ queue' = <<>>
    <3>1. Back.kind \notin TurnKinds \cup {"forward"}
      BY DEF Back, Report, TurnKinds
    <3>2. QED
      BY <1>1, <1>7, <1>8, <1>13, <3>1
  <2>3. QED
    BY <1>2, <1>4, <1>8, <2>1, <2>2 DEF Orderly, Calm
<1>17. ASSUME NEW c, NEW d, Knows(c), Settled(c), Follows(c, d) PROVE Settled(d)'
  <2>1. c \in Beliefs
    BY <1>17, FencedIs DEF Knows
  <2>2. d = Hears(c, i)
    BY <1>1, <1>17 DEF Follows, Deliver, Advance, Advancing, Arrive, StopForward,
         ReportDistance, SeeWhileTurning, Turning, i
  <2>3. CASE queue \in {<<>>, <<Back>>} /\ c.stash \in {Nothing, Forward(0)}
    <3>1. queue = <<Back>>
      BY <1>1, <2>3
    <3>2. i = Back /\ s = <<>>
      BY <3>1 DEF i, s
    <3>3. d = c
      BY <2>1, <2>2, <3>2, HearsIs DEF Back, Report
    <3>4. QED
      BY <1>9, <2>3, <3>2, <3>3 DEF Settled
  <2>4. CASE queue[Len(queue)] = End
    <3>1. CASE s = <<>>
      <4>1. i = End
        BY <1>1, <1>3, <2>4, <3>1, LastOfTail DEF i, s
      <4>2. d.stash = Nothing
        BY <2>1, <2>2, <4>1, HeardRover DEF End
      <4>3. QED
        BY <1>9, <3>1, <4>2 DEF Settled
    <3>2. CASE s # <<>>
      <4>1. s[Len(s)] = End
        BY <1>1, <1>3, <2>4, <3>2, LastOfTail DEF s
      <4>2. QED
        BY <1>9, <3>2, <4>1 DEF Settled
    <3>3. QED
      BY <3>1, <3>2
  <2>5. QED
    BY <1>1, <1>9, <1>17, <2>3, <2>4 DEF Settled
<1>18. NoCollision'
  BY <1>1 DEF NoCollision, Journey
<1>19. [Next]_vars
  BY DEF Next
<1>20. StartNext /\ Head(queue).kind = "forward" => After(body, Head(queue)) \in Inside
  BY <1>12 DEF i
<1>21. UNCHANGED <<rover, stash, tiles, stopData>>
  BY <1>2
<1>22. QED
  BY <1>1, <1>15, <1>16, <1>17, <1>18, <1>19, <1>20, <1>21, FieldGoesOn

LEMMA FirstOfConcat ==
  ASSUME NEW X, NEW a, NEW s \in Seq(X)
  PROVE  <<a>> \o s # <<>> /\ Head(<<a>> \o s) = a /\ Tail(<<a>> \o s) = s
<1>1. s \in Seq(X \cup {a}) /\ <<a>> \in Seq(X \cup {a})
  BY SeqMonotonic
<1>2. /\ <<a>> \o s \in Seq(X \cup {a}) /\ Len(<<a>> \o s) = Len(s) + 1
      /\ \A i \in 1..Len(s) + 1 : (<<a>> \o s)[i] = IF i <= 1 THEN a ELSE s[i - 1]
  BY <1>1, ConcatProperties
<1>3. <<a>> \o s # <<>>
  BY <1>1, <1>2, EmptySeq, LenProperties
<1>4. QED
  BY <1>1, <1>2, <1>3

\* An element goes from one sequence to the one before it.
LEMMA HeadMoves ==
  ASSUME NEW X, NEW q \in Seq(X), NEW s \in Seq(X), s # <<>>, NEW u \in Seq(X)
  PROVE  Append(q, Head(s)) \o (Tail(s) \o u) = q \o (s \o u)
<1>1. Head(s) \in X /\ Tail(s) \in Seq(X) /\ s = <<Head(s)>> \o Tail(s)
  BY LastOfTail, HeadTailProperties
<1>2. PICK h \in X, v \in Seq(X) : h = Head(s) /\ v = Tail(s)
  BY <1>1
<1>3. Append(q, h) = q \o <<h>>
  BY AppendIsConcat
<1>4. <<h>> \in Seq(X) /\ v \o u \in Seq(X)
  BY ConcatProperties
<1>5. (q \o <<h>>) \o (v \o u) = q \o (<<h>> \o (v \o u))
  BY <1>4, ConcatAssociative, SMTT(30)
<1>6. <<h>> \o (v \o u) = (<<h>> \o v) \o u
  BY <1>4, ConcatAssociative, SMTT(30)
<1>7. QED
  BY <1>1, <1>2, <1>3, <1>5, <1>6

LEMMA DeliverJourney ==
  ASSUME NEW g, Types, StopsAtOnce, RoomInQueue, Journey(g), Move, Deliver
  PROVE  Journey(g)'
<1>1. /\ topic # <<>> /\ topic' = Tail(topic) /\ queue' = Append(queue, Head(topic))
      /\ UNCHANGED <<reports, world, body, doing, gone, phase, lastSent>>
  BY DEF Deliver, RoomInQueue
<1>2. UNCHANGED <<alive, tiles, rover, stash, stopData, destination, exploring, request>>
  BY DEF Move, serverVars
<1>3. Orderly
  BY JourneyIs
<1>4. /\ ~ Calm /\ ~ Driving /\ phase # "stopping" /\ ~ (Turning /\ InSight) /\ ~ Halted
      /\ request.path = <<>> /\ HaltsLast
  BY <1>1, <1>3 DEF Orderly, Calm
<1>5. /\ Driving' <=> Driving
      /\ Turning' <=> Turning
      /\ InSight' <=> InSight
      /\ Halted' <=> Halted
      /\ HaltsLast' <=> HaltsLast
      /\ Now' = Now
      /\ Avoided' = Avoided
  BY <1>1 DEF Driving, Turning, InSight, Faced, Halted, HaltsLast, Now, Avoided
<1>6. Coming' = Coming /\ Future' = Future
  <2>1. Coming' = Coming
    <3>1. Append(queue, Head(topic)) \o (Tail(topic) \o request.left)
            = queue \o (topic \o request.left)
      <4>1. PICK q \in Seq(Sent), s \in Seq(Sent), u \in Seq(Sent) :
              q = queue /\ s = topic /\ u = request.left
        BY SequencesAre
      <4>2. s # <<>>
        BY <1>1, <4>1
      <4>3. Append(q, Head(s)) \o (Tail(s) \o u) = q \o (s \o u)
        BY <4>2, HeadMoves
      <4>4. QED
        BY <4>1, <4>3
    <3>2. QED
      BY <1>1, <1>2, <3>1 DEF Coming
  <2>2. QED
    BY <1>5, <2>1 DEF Future
<1>7. OnCourse(g)'
  <2>1. PICK q : Course(body, Future, q, Avoided) /\ Aimed(g, q)
    BY DEF Journey, OnCourse
  <2>2. Aimed(g, q)'
    BY <1>1, <1>2, <1>5, <2>1, AimStays
  <2>3. QED
    BY <1>1, <1>5, <1>6, <2>1, <2>2 DEF OnCourse
<1>8. Orderly'
  BY <1>1, <1>2, <1>3, <1>4, <1>5 DEF Orderly
<1>9. ASSUME NEW c, NEW d, Knows(c), Settled(c), Follows(c, d) PROVE Settled(d)'
  <2>1. topic' # topic
    <3>1. topic \in Seq(Orders)
      BY SequencesAre
    <3>2. Len(Tail(topic)) # Len(topic)
      BY <1>1, <3>1
    <3>3. QED
      BY <1>1, <3>2
  <2>2. d = c
    BY <1>9, <2>1 DEF Follows, StartNext, StopForward, ReportDistance, SeeWhileTurning
  <2>3. QED
    BY <1>1, <1>6, <1>9, <2>2 DEF Settled
<1>10. NoCollision'
  BY <1>1 DEF NoCollision, Journey
<1>11. /\ [Next]_vars /\ MoveNext /\ UNCHANGED <<rover, stash, tiles, stopData>>
       /\ ~ StartNext
  BY <1>1, <1>2, <1>9 DEF Next, Move, StartNext
<1>12. QED
  BY <1>7, <1>8, <1>9, <1>10, <1>11, FieldGoesOn

LEMMA AdvanceJourney ==
  ASSUME NEW g, Types, StopsAtOnce, Journey(g), Move, Advance
  PROVE  Journey(g)'
<1>1. /\ phase = "moving" /\ doing.kind = "forward" /\ gone < doing.value /\ ~ InSight
      /\ body' = Ahead(body, 1) /\ gone' = gone + 1 /\ Driving /\ Driving'
      /\ UNCHANGED <<topic, reports, world, queue, doing, phase, lastSent>>
  BY DEF Advance, Advancing, Driving, topics
<1>2. UNCHANGED <<alive, tiles, rover, stash, stopData, destination, exploring, request>>
  BY DEF Move, serverVars
<1>3. body \in Inside /\ Orderly
  BY JourneyIs
<1>4. Calm /\ Calm' /\ ~ Halted
  BY <1>1, <1>2, <1>3 DEF Orderly, Calm
<1>5. /\ Halted' <=> Halted
      /\ HaltsLast' <=> HaltsLast
      /\ Coming' = Coming /\ Avoided' = Avoided
  BY <1>1, <1>2 DEF Halted, HaltsLast, Coming, Avoided
<1>6. PICK n \in Nat : n = doing.value - gone - 1
  <2>1. doing.value \in Nat /\ gone \in Nat
    BY <1>1, DoingKinds DEF Types, FieldInv
  <2>2. QED
    BY <1>1, <2>1
<1>7. Now = <<Forward(n + 1)>> /\ Now' = <<Forward(n)>>
  <2>1. doing.value - gone = n + 1 /\ doing'.value - gone' = n
    <3>1. doing.value \in Nat /\ gone \in Nat
      BY <1>1, DoingKinds DEF Types, FieldInv
    <3>2. QED
      BY <1>1, <1>6, <3>1
  <2>2. QED
    BY <1>1, <2>1 DEF Now
<1>8. PICK q : Course(body, <<Forward(n + 1)>> \o Coming, q, Avoided) /\ Aimed(g, q)
  BY <1>7 DEF Journey, OnCourse, Future
<1>9. Course(body', Future', q, Avoided) /\ Place(body') \notin Avoided
  BY <1>1, <1>5, <1>7, <1>8, CourseAdvance DEF Future
<1>10. OnCourse(g)'
  <2>1. Aimed(g, q)'
    BY <1>1, <1>2, <1>5, <1>8, AimStays
  <2>2. QED
    BY <1>5, <1>9, <2>1 DEF OnCourse
<1>11. NoCollision'
  <2>1. Faced = Place(body')
    <3>1. Faced = InFront(body, Nothing)
      BY <1>1, FacedIs
    <3>2. After(body, Nothing) = body
      BY <1>3, AfterStash, MovesAre, InsideIs
    <3>3. Nothing.kind # "forward"
      BY DEF Nothing
    <3>4. QED
      BY <1>1, <3>1, <3>2, <3>3 DEF InFront, After
  <2>2. Place(body') \in DOMAIN world => world[Place(body')] = lastSent
    BY <1>1, <2>1 DEF InSight
  <2>3. QED
    BY <1>1, <1>9, <2>2 DEF NoCollision, Avoided
<1>12. Orderly'
  <2>1. phase' # "stopping" /\ request' = NoRequest /\ NoRequest.path = <<>>
    BY <1>1, <1>2, <1>4 DEF Calm, NoRequest
  <2>2. QED
    BY <1>2, <1>3, <1>4, <1>5, <2>1 DEF Orderly
<1>13. ASSUME NEW c, NEW d, Knows(c), Settled(c), Follows(c, d) PROVE Settled(d)'
  <2>1. d = c
    BY <1>1, <1>13 DEF Follows, StartNext, StopForward, ReportDistance, SeeWhileTurning,
         Turning, TurnKinds
  <2>2. QED
    BY <1>1, <1>5, <1>13, <2>1 DEF Settled
<1>14. /\ [Next]_vars /\ MoveNext /\ UNCHANGED <<rover, stash, tiles, stopData>>
       /\ ~ StartNext
  BY <1>1, <1>2 DEF Next, Move, StartNext
<1>15. QED
  BY <1>10, <1>11, <1>12, <1>13, <1>14, FieldGoesOn

LEMMA ArriveJourney ==
  ASSUME NEW g, Types, StopsAtOnce, Journey(g), Move, Arrive
  PROVE  Journey(g)'
<1>1. /\ phase = "moving" /\ doing.kind = "forward" => gone = doing.value
      /\ body' = IF Turning THEN After(body, doing) ELSE body
      /\ phase' = "ready" /\ ~ Driving' /\ ~ Turning'
      /\ UNCHANGED <<topic, reports, world, queue, lastSent>>
  BY DEF Arrive, Complete, Driving, Turning, topics
<1>2. UNCHANGED <<alive, tiles, rover, stash, stopData, destination, exploring, request>>
  BY DEF Move, serverVars
<1>3. body \in Inside /\ Orderly /\ Coming \in Seq(Sent) /\ phase = "moving"
  BY JourneyIs DEF Arrive
<1>4. request = NoRequest /\ NoRequest.path = <<>>
  BY <1>3 DEF Orderly, NoRequest
<1>5. /\ Halted' <=> Halted
      /\ HaltsLast' <=> HaltsLast
      /\ Coming' = Coming /\ Avoided' = Avoided
      /\ Calm' <=> Calm
      /\ Future' = Coming
  <2>1. /\ Halted' <=> Halted
        /\ HaltsLast' <=> HaltsLast
        /\ Coming' = Coming /\ Avoided' = Avoided
        /\ Calm' <=> Calm
    BY <1>1, <1>2 DEF Halted, HaltsLast, Coming, Avoided, Calm
  <2>2. Now' = <<>>
    BY <1>1 DEF Now
  <2>3. QED
    BY <1>3, <2>1, <2>2 DEF Future
<1>6. PICK q : Course(body, Future, q, Avoided) /\ Aimed(g, q)
  BY DEF Journey, OnCourse
<1>7. Course(body', Coming, q, Avoided) /\ Place(body') = Place(body)
  <2>1. CASE Driving
    <3>1. ~ Turning /\ doing.kind = "forward" /\ doing.value \in Nat
      BY <2>1, DoingKinds DEF Driving, Turning, TurnKinds, Types, FieldInv
    <3>2. body' = body /\ Now = <<Forward(0)>>
      BY <1>1, <1>3, <2>1, <3>1 DEF Now, Arrive
    <3>3. Future = <<Forward(0)>> \o Coming
      BY <3>2 DEF Future
    <3>4. After(body, Forward(0)) = body
      BY <1>3, AfterStash, MovesAre, InsideIs
    <3>5. Head(Future) = Forward(0) /\ Tail(Future) = Coming /\ Future # <<>>
      BY <1>3, <3>3, FirstOfConcat
    <3>6. Course(After(body, Head(Future)), Tail(Future), q, Avoided)
      BY <1>6, <3>5, CourseTail
    <3>7. QED
      BY <3>2, <3>4, <3>5, <3>6
  <2>2. CASE Turning
    <3>1. ~ Driving /\ doing.kind # "forward"
      BY <2>2 DEF Driving, Turning, TurnKinds
    <3>2. Future = <<doing>> \o Coming
      BY <2>2, <3>1 DEF Now, Future
    <3>3. Head(Future) = doing /\ Tail(Future) = Coming /\ Future # <<>>
      BY <1>3, <3>2, FirstOfConcat
    <3>4. Course(After(body, Head(Future)), Tail(Future), q, Avoided)
      BY <1>6, <3>3, CourseTail
    <3>5. QED
      BY <1>1, <1>3, <2>2, <3>1, <3>3, <3>4, TurnStays, InsideIs
  <2>3. CASE ~ Driving /\ ~ Turning
    <3>1. Future = Coming
      BY <1>3, <2>3 DEF Now, Future
    <3>2. QED
      BY <1>1, <1>6, <2>3, <3>1
  <2>4. QED
    BY <2>1, <2>2, <2>3
<1>8. OnCourse(g)'
  <2>1. Aimed(g, q)'
    BY <1>2, <1>3, <1>5, <1>6, AimStays
  <2>2. QED
    BY <1>5, <1>7, <2>1 DEF OnCourse
<1>9. NoCollision'
  BY <1>1, <1>7 DEF NoCollision, Journey
<1>10. Orderly'
  BY <1>1, <1>2, <1>3, <1>4, <1>5 DEF Orderly
<1>11. ASSUME NEW c, NEW d, Knows(c), Settled(c), Follows(c, d) PROVE Settled(d)'
  <2>1. d = c
    BY <1>1, <1>3, <1>11 DEF Follows, StartNext, StopForward, ReportDistance, SeeWhileTurning,
         Turning
  <2>2. QED
    BY <1>1, <1>3, <1>5, <1>11, <2>1 DEF Settled
<1>12. /\ [Next]_vars /\ MoveNext /\ UNCHANGED <<rover, stash, tiles, stopData>>
       /\ ~ StartNext
  BY <1>2, <1>3 DEF Next, Move, StartNext
<1>13. QED
  BY <1>8, <1>9, <1>10, <1>11, <1>12, FieldGoesOn

LEMMA StopJourney ==
  ASSUME NEW g, Types, StopsAtOnce, Journey(g), Move, StopForward
  PROVE  Journey(g)'
<1>1. /\ phase = "moving" /\ Driving /\ InSight /\ queue' = <<>> /\ phase' = "stopping"
      /\ ~ Driving' /\ ~ Turning' /\ Say(<<Sighted>>)
      /\ UNCHANGED <<topic, world, body, doing, gone>>
  BY DEF StopForward, Advancing, Driving, Turning, Sighted
<1>2. UNCHANGED <<alive, tiles, rover, stash, stopData, destination, exploring, request>>
  BY DEF Move, serverVars
<1>3. body \in Inside /\ Orderly
  BY JourneyIs
<1>4. Calm /\ Calm' /\ ~ Halted /\ HaltsLast /\ request'.path = <<>> /\ request' = NoRequest
  BY <1>1, <1>2, <1>3 DEF Orderly, Calm, NoRequest
<1>5. ~ Halted' /\ HaltsLast'
  <2>1. Sighted \in Reports /\ Sighted.kind # "SD"
    BY <1>1, SaidAre
  <2>2. QED
    BY <1>1, <1>4, <2>1, SequencesAre, SaidMore
<1>6. Future' = <<>>
  <2>1. Now' = <<>>
    BY <1>1 DEF Now
  <2>2. Coming' = <<>>
    BY <1>1, <1>4 DEF Coming, Calm, NoRequest
  <2>3. QED
    BY <2>1, <2>2 DEF Future
<1>7. OnCourse(g)'
  <2>1. Course(body', Future', body', Avoided')
    BY <1>1, <1>3, <1>6, NoCourse
  <2>2. Aimed(g, body)'
    BY <1>1 DEF Aimed
  <2>3. QED
    BY <2>1, <2>2 DEF OnCourse
<1>8. Orderly'
  BY <1>1, <1>2, <1>3, <1>4, <1>5 DEF Orderly
<1>9. ASSUME NEW d PROVE Settled(d)'
  BY <1>1 DEF Settled
<1>10. NoCollision'
  BY <1>1 DEF NoCollision, Journey
<1>11. /\ [Next]_vars /\ MoveNext /\ UNCHANGED <<rover, stash, tiles, stopData>>
       /\ ~ StartNext
  BY <1>1, <1>2 DEF Next, Move, StartNext
<1>12. QED
  BY <1>7, <1>8, <1>9, <1>10, <1>11, FieldGoesOn

LEMMA DistanceJourney ==
  ASSUME NEW g, Types, StopsAtOnce, Journey(g), Move, ReportDistance
  PROVE  Journey(g)'
<1>1. /\ phase = "stopping" /\ phase' = "ready" /\ ~ Driving' /\ ~ Turning'
      /\ queue' = (IF Len(queue) < QueueLength THEN Append(queue, Back) ELSE queue)
      /\ Say(<<Stopped>>)
      /\ UNCHANGED <<topic, world, body, lastSent>>
  BY DEF ReportDistance, Complete, Driving, Turning, Stopped, Back
<1>2. UNCHANGED <<alive, tiles, rover, stash, stopData, destination, exploring, request>>
  BY DEF Move, serverVars
<1>3. body \in Inside /\ Orderly
  BY JourneyIs
<1>4. /\ Calm /\ Calm' /\ ~ Halted /\ HaltsLast /\ queue = <<>>
      /\ request'.path = <<>> /\ request' = NoRequest
  BY <1>1, <1>2, <1>3 DEF Orderly, Calm, NoRequest
<1>5. queue' = <<Back>>
  <2>1. Len(queue) = 0
    BY <1>4
  <2>2. QED
    BY <1>1, <1>4, <2>1, SequencesAre
<1>6. Halted' /\ HaltsLast'
  <2>1. Stopped \in Reports /\ Stopped.kind = "SD"
    BY SaidAre
  <2>2. QED
    BY <1>1, <1>4, <2>1, SequencesAre, SaidMore
<1>7. Coming' = <<Back>> /\ Future' = <<Back>>
  <2>1. Now' = <<>>
    BY <1>1 DEF Now
  <2>2. Coming' = <<Back>>
    BY <1>4, <1>5 DEF Coming, Calm, NoRequest
  <2>3. QED
    BY <2>1, <2>2 DEF Future
<1>8. OnCourse(g)'
  <2>1. Back \in Sent /\ Back.kind \notin TurnKinds \cup {"forward"}
    BY DEF Sent, Back, Report, TurnKinds
  <2>2. After(body, Back) = body
    BY <1>3, <2>1, SentKinds, InsideIs
  <2>3. Course(After(body, Back), <<>>, body, Avoided')
    BY <1>3, <2>2, NoCourse
  <2>4. Course(body, <<Back>> \o <<>>, body, Avoided')
    BY <1>3, <2>1, <2>3, CourseBefore
  <2>5. Course(body', Future', body', Avoided')
    BY <1>1, <1>7, <2>4
  <2>6. Aimed(g, body)'
    BY <1>6 DEF Aimed
  <2>7. QED
    BY <2>5, <2>6 DEF OnCourse
<1>9. Orderly'
  BY <1>1, <1>2, <1>3, <1>4, <1>5, <1>6 DEF Orderly
<1>10. ASSUME NEW c, NEW d, Knows(c), Settled(c), Follows(c, d) PROVE Settled(d)'
  <2>1. c \in Beliefs /\ Stopped.kind = "SD"
    BY <1>10, FencedIs, SaidAre DEF Knows
  <2>2. topic = <<>>
    BY <1>4 DEF Calm
  <2>3. d = Hears(c, Stopped)
    BY <1>1, <1>10, <2>2 DEF Follows, Deliver, Advance, Advancing, Arrive, StartNext,
         StopForward, SeeWhileTurning, Turning
  <2>4. d.stash = Forward(0)
    BY <2>1, <2>3, HeardRover
  <2>5. QED
    BY <1>7, <2>4 DEF Settled
<1>11. NoCollision'
  BY <1>1 DEF NoCollision, Journey
<1>12. /\ [Next]_vars /\ MoveNext /\ UNCHANGED <<rover, stash, tiles, stopData>>
       /\ ~ StartNext
  BY <1>1, <1>2 DEF Next, Move, StartNext
<1>13. QED
  BY <1>8, <1>9, <1>10, <1>11, <1>12, FieldGoesOn

\* An obstacle is seen during a turn: the rest of the plan, if it is kept,
\* does not lead there.
LEMMA LookJourney ==
  ASSUME NEW g, Types, Types', StopsAtOnce, Journey(g), Move, SeeWhileTurning
  PROVE  Journey(g)'
<1>1. /\ Turning /\ InSight /\ phase = "moving" /\ doing.kind \in TurnKinds
      /\ lastSent' = world[Faced]
      /\ UNCHANGED <<topic, world, body, doing, gone, phase>>
  BY DEF SeeWhileTurning, Turning
<1>2. UNCHANGED <<alive, tiles, rover, stash, stopData, destination, exploring, request>>
  BY DEF Move, serverVars
<1>3. /\ body \in Inside /\ Orderly /\ doing.kind # "forward" /\ doing \in Sent
      /\ queue \in Seq(Sent) /\ reports \in Seq(Reports)
  <2>1. doing \in Sent /\ doing.kind # "forward"
    BY <1>1, DoingKinds DEF Types, FieldInv, Sent, Orders, TurnKinds
  <2>2. QED
    BY <2>1, JourneyIs, SequencesAre
<1>4. Calm /\ Calm' /\ ~ Halted /\ HaltsLast /\ request' = NoRequest /\ NoRequest.path = <<>>
  BY <1>1, <1>2, <1>3 DEF Orderly, Calm, NoRequest
<1>5. Faced' = Faced /\ Driving' = FALSE /\ Turning' /\ ~ InSight'
  BY <1>1, <1>3 DEF Faced, InSight, Driving, Turning
<1>6. Avoided' = {Faced}
  <2>1. Faced \in DOMAIN world /\ Apart
    BY <1>1 DEF InSight, Journey
  <2>2. QED
    BY <1>1, <2>1 DEF Avoided, Apart
<1>7. Faced = Place(Ahead(After(body, doing), 1)) /\ After(body, doing) \in Inside
  <2>1. Faced = InFront(body, doing)
    BY FacedIs
  <2>2. QED
    BY <1>3, <2>1, SentStaysInside DEF InFront, After
<1>8. /\ Now = <<doing>> /\ Now' = <<doing>> /\ Coming = queue /\ Coming' = queue'
      /\ Future = <<doing>> \o queue /\ Future' = <<doing>> \o queue'
  <2>1. Now = <<doing>> /\ Now' = <<doing>>
    BY <1>1, <1>3, <1>5 DEF Now, Driving
  <2>2. topic \o request.left = <<>> /\ topic' \o request'.left = <<>>
    BY <1>1, <1>4 DEF Calm, NoRequest
  <2>3. queue' \in Seq(Sent)
    BY DEF Types, FieldInv
  <2>4. Coming = queue /\ Coming' = queue'
    BY <1>3, <2>2, <2>3 DEF Coming
  <2>5. QED
    BY <2>1, <2>4 DEF Future
<1>9. PICK q : Course(body, Future, q, Avoided) /\ Aimed(g, q)
  BY DEF Journey, OnCourse
<1>10. NoCollision'
  BY <1>1 DEF NoCollision, Journey
<1>11. /\ [Next]_vars /\ MoveNext /\ UNCHANGED <<rover, stash, tiles, stopData>>
       /\ ~ StartNext
  BY <1>1, <1>2 DEF Next, Move, MoveNext, StartNext
<1>12. /\ Sighted \in Reports /\ TurnEnds \in Reports
       /\ Sighted.kind = "S" /\ TurnEnds.kind = "SD"
  BY <1>1, SaidAre
<1>13. CASE Say(<<Sighted, TurnEnds>>) /\ queue' = <<>>
  <2>1. /\ Len(reports) \in Nat /\ Len(reports') = Len(reports) + 2
        /\ \A k \in 1..Len(reports) : reports'[k] = reports[k]
        /\ reports'[Len(reports) + 1] = Sighted /\ reports'[Len(reports) + 2] = TurnEnds
    <3>1. <<Sighted, TurnEnds>> \in Seq(Reports) /\ Len(<<Sighted, TurnEnds>>) = 2
      BY <1>12
    <3>2. QED
      BY <1>3, <1>12, <1>13, <3>1, ConcatProperties, LenProperties DEF Say
  <2>2. Halted'
    <3>1. Len(reports) + 2 \in 1..Len(reports')
      BY <2>1
    <3>2. QED
      BY <1>12, <2>1, <3>1 DEF Halted
  <2>3. HaltsLast'
    <3>1. ASSUME NEW k \in 1..Len(reports'), reports'[k].kind = "SD"
          PROVE  k = Len(reports')
      <4>1. k \notin 1..Len(reports)
        BY <1>4, <2>1, <3>1 DEF Halted
      <4>2. k # Len(reports) + 1
        BY <1>12, <2>1, <3>1
      <4>3. QED
        BY <2>1, <4>1, <4>2
    <3>2. QED
      BY <2>1, <3>1 DEF HaltsLast
  <2>4. OnCourse(g)'
    <3>1. Course(After(body, doing), <<>>, After(body, doing), Avoided')
      BY <1>7, NoCourse
    <3>2. Course(body, <<doing>> \o <<>>, After(body, doing), Avoided')
      BY <1>3, <1>6, <1>7, <3>1, CourseBefore
    <3>3. Course(body', Future', After(body', doing'), Avoided')
      BY <1>1, <1>8, <1>13, <3>2
    <3>4. Aimed(g, After(body, doing))'
      BY <2>2 DEF Aimed
    <3>5. QED
      BY <3>3, <3>4 DEF OnCourse
  <2>5. Orderly'
    BY <1>1, <1>2, <1>3, <1>4, <1>5, <1>13, <2>3 DEF Orderly
  <2>6. ASSUME NEW c, NEW d, Knows(c), Settled(c), Follows(c, d) PROVE Settled(d)'
    <3>1. c \in Beliefs
      BY <2>6, FencedIs DEF Knows
    <3>2. ~ Say(<<Sighted>>)
      <4>1. Say(<<Sighted>>) => Len(reports') = Len(reports) + 1
        BY <1>3, <1>12, ConcatProperties DEF Say
      <4>2. QED
        BY <2>1, <4>1
    <3>3. reports' # reports
      BY <2>1
    <3>4. d = Hears(Hears(c, Sighted), TurnEnds)
      BY <1>1, <2>6, <3>2, <3>3 DEF Follows, Deliver, Advance, Arrive, StartNext,
           StopForward, ReportDistance, topics
    <3>5. d.stash = Forward(0)
      BY <1>12, <3>1, <3>4, HearsType, HeardRover
    <3>6. QED
      BY <1>8, <1>13, <3>5 DEF Settled
  <2>7. QED
    BY <1>10, <1>11, <2>4, <2>5, <2>6, FieldGoesOn
<1>14. CASE /\ Say(<<Sighted>>) /\ queue' = queue
            /\ queue # <<>> => Head(queue).kind # "forward"
  <2>1. ~ Halted' /\ HaltsLast'
    BY <1>3, <1>4, <1>12, <1>14, SaidMore
  <2>2. Future' = Future
    BY <1>8, <1>14
  <2>3. OnCourse(g)'
    <3>1. Head(Future) = doing /\ Future # <<>>
      BY <1>3, <1>8, FirstOfConcat
    <3>2. Len(Future) > 1 => Future[2].kind # "forward"
      <4>1. Len(Future) = 1 + Len(queue) /\ (Len(queue) > 0 => Future[2] = queue[1])
        BY <1>3, <1>8
      <4>2. Len(queue) > 0 => queue # <<>> /\ Head(queue) = queue[1]
        BY <1>3
      <4>3. QED
        BY <1>3, <1>14, <4>1, <4>2, LenProperties
    <3>3. Course(body, Future, q, {Faced})
      BY <1>1, <1>7, <1>9, <3>1, <3>2, CourseSeen
    <3>4. Aimed(g, q)'
      BY <1>1, <1>2, <1>4, <1>9, <2>1, AimStays
    <3>5. QED
      BY <1>1, <1>6, <2>2, <3>3, <3>4 DEF OnCourse
  <2>4. Orderly'
    BY <1>1, <1>2, <1>3, <1>4, <1>5, <2>1 DEF Orderly
  <2>5. ASSUME NEW c, NEW d, Knows(c), Settled(c), Follows(c, d) PROVE Settled(d)'
    <3>1. c \in Beliefs
      BY <2>5, FencedIs DEF Knows
    <3>2. /\ Len(reports) \in Nat /\ Len(reports') = Len(reports) + 1
          /\ (Say(<<Sighted, TurnEnds>>) => Len(reports') = Len(reports) + 2)
      <4>1. <<Sighted, TurnEnds>> \in Seq(Reports) /\ Len(<<Sighted, TurnEnds>>) = 2
        BY <1>12
      <4>2. <<Sighted>> \in Seq(Reports) /\ Len(<<Sighted>>) = 1
        BY <1>12
      <4>3. QED
        BY <1>3, <1>14, <4>1, <4>2, ConcatProperties, LenProperties DEF Say
    <3>3. ~ Say(<<Sighted, TurnEnds>>) /\ reports' # reports
      BY <3>2
    <3>4. d = Hears(c, Sighted)
      BY <1>1, <2>5, <3>3 DEF Follows, Deliver, Advance, Arrive, StartNext,
           StopForward, ReportDistance, topics
    <3>5. d.stash = c.stash
      BY <1>12, <3>1, <3>4, HeardRover
    <3>6. QED
      BY <1>1, <1>8, <1>14, <2>5, <3>5 DEF Settled
  <2>6. QED
    BY <1>10, <1>11, <2>3, <2>4, <2>5, FieldGoesOn
<1>15. QED
  <2>1. PICK stops \in IF queue = <<>> THEN BOOLEAN ELSE {Head(queue).kind = "forward"} :
          IF stops THEN Say(<<Sighted, TurnEnds>>) /\ queue' = <<>>
          ELSE Say(<<Sighted>>) /\ queue' = queue
    BY DEF SeeWhileTurning, Sighted, TurnEnds
  <2>2. QED
    BY <1>13, <1>14, <2>1

LEMMA LastOfConcat ==
  ASSUME NEW X, NEW s \in Seq(X), NEW u \in Seq(X), u # <<>>
  PROVE  s \o u # <<>> /\ (s \o u)[Len(s \o u)] = u[Len(u)]
<1>1. Len(s) \in Nat /\ Len(u) \in Nat \ {0}
  BY LenProperties, EmptySeq
<1>2. /\ s \o u \in Seq(X) /\ Len(s \o u) = Len(s) + Len(u)
      /\ \A i \in 1..Len(s) + Len(u) : (s \o u)[i] = IF i <= Len(s) THEN s[i] ELSE u[i - Len(s)]
  BY ConcatProperties
<1>3. (s \o u)[Len(s) + Len(u)] = u[Len(u)]
  <2>1. Len(s) + Len(u) \in 1..Len(s) + Len(u) /\ ~ Len(s) + Len(u) <= Len(s)
    BY <1>1
  <2>2. (s \o u)[Len(s) + Len(u)] = u[Len(s) + Len(u) - Len(s)]
    BY <1>2, <2>1
  <2>3. QED
    BY <1>1, <2>2
<1>4. s \o u # <<>>
  BY <1>1, <1>2, EmptySeq
<1>5. QED
  BY <1>2, <1>3, <1>4

\* A plan ends with the end of its sequence.
LEMMA PlanEnds ==
  ASSUME NEW u \in Seq(Moves)
  PROVE  LET s == u \o <<End>>
         IN  s \in Seq(Sent) /\ s # <<>> /\ s[Len(s)] = End
<1>1. u \in Seq(Sent) /\ <<End>> \in Seq(Sent) /\ <<End>> # <<>>
  <2>1. Moves \subseteq Sent /\ End \in Sent
    BY DEF Sent, Orders
  <2>2. QED
    BY <2>1, SeqMonotonic
<1>2. <<End>>[Len(<<End>>)] = End
  OBVIOUS
<1>3. QED
  BY <1>1, <1>2, LastOfConcat, ConcatProperties

\* Where a plan that answers a stop leads.
LEMMA ReplanLeads ==
  ASSUME topic = <<>>, ~ exploring, destination.mode \in SafeModes,
         NEW r \in Inside, NEW map \in Maps, Fence(map), Replan(map, r),
         NEW A, \A t \in A : ~ map[t] <= Empty
  PROVE  /\ \E q : /\ Course(r, topic', q, A)
                   /\ \/ Place(q) = destination.tile
                      \/ ShortestPaths(map, Place(q), destination.tile) = {}
         /\ topic' \in Seq(Sent)
         /\ topic' # <<>> => topic'[Len(topic')] = End
<1> DEFINE paths == ShortestPaths(map, Place(r), destination.tile)
<1>1. PublishRoute(paths, r, destination.mode) /\ destination.mode # Explore
  <2>1. OnMap(r)
    BY InsideIs DEF OnMap
  <2>2. destination.mode # Explore
    BY DEF SafeModes, Simple, DestinationDiscovery, Explore
  <2>3. QED
    BY <2>1, <2>2 DEF Replan, Routes
<1>2. CASE paths = {}
  <2>1. topic' = <<>>
    BY <1>1, <1>2 DEF PublishRoute
  <2>2. Course(r, <<>>, r, A)
    BY NoCourse
  <2>3. <<>> \in Seq(Sent)
    BY EmptySeq
  <2>4. QED
    BY <1>2, <2>1, <2>2, <2>3
<1>3. CASE paths # {}
  <2> DEFINE plan(p) == Instructions(p, r.rotation, destination.mode)
  <2>1. PICK p \in paths : topic' = <<>> \o plan(p) \o <<End>>
    BY <1>1, <1>3 DEF PublishRoute
  <2>2. plan(p) \in Seq(Moves)
    <3>1. IsRoute(p)
      <4>1. OnMap(r) /\ r \in Rovers
        BY InsideIs DEF OnMap
      <4>2. p \in Routes(map, r, destination.tile)
        BY <2>1, <4>1 DEF Routes
      <4>3. QED
        BY <4>1, <4>2, RoutesAre
    <3>2. r.rotation \in Rotations
      BY InsideIs
    <3>3. QED
      BY <3>1, <3>2, RouteInstructions
  <2>3. \E q : Course(r, plan(p) \o <<End>>, q, A) /\ Place(q) = destination.tile
    <3>1. Walled(map, A)
      BY DEF Fence, Walled
    <3>2. destination.mode \in {Simple, DestinationDiscovery}
      BY DEF SafeModes
    <3>3. p \in ShortestPaths(map, Place(r), destination.tile)
      BY <2>1
    <3>4. QED
      BY <3>1, <3>2, <3>3, PlanCourse
  <2> HIDE DEF plan, paths
  <2>4. topic' = plan(p) \o <<End>>
    BY <2>1, <2>2, ConcatEmptySeq
  <2>5. QED
    BY <2>2, <2>3, <2>4, PlanEnds
<1>4. QED
  BY <1>2, <1>3

\* A report is handled: the server still knows.
LEMMA HandledKnows ==
  ASSUME Types, HandleReport, NEW c, Knows(c)
  PROVE  /\ Belief \in Fenced /\ reports # <<>> /\ reports' = Tail(reports) /\ ~ Panic
         /\ Belief' = Hears(Belief, Head(reports)) /\ Belief' \in Fenced
         /\ Told(Fenced, Belief', reports', c) /\ Knows(c)'
<1>1. ReportNext /\ UNCHANGED fieldVars
  BY DEF HandleReport
<1>2. UNCHANGED <<world, body, queue, doing, gone, phase, lastSent>>
  BY <1>1 DEF fieldVars
<1>3. ServerInv /\ reports \in Seq(Reports)
  BY DEF Types, TopicsInv
<1>4. Belief \in Fenced
  BY <1>3, ToldEnds DEF Knows
<1>5. ~ Panic
  BY <1>4, FencedNoPanic DEF Panic
<1>6. Belief' = Hears(Belief, Head(reports)) /\ reports # <<>> /\ reports' = Tail(reports)
  BY <1>1, <1>3, <1>5, HandlersHear
<1>7. Told(Fenced, Belief', reports', c)
  BY <1>1, <1>3, <1>5, ToldHandled DEF Knows
<1>8. Belief' \in Fenced
  <2>1. reports' \in Seq(Reports)
    BY <1>3, <1>6, ReportsTail
  <2>2. QED
    BY <1>7, <2>1, ToldEnds
<1>9. Knows(c)'
  <2>1. Fenced' = Fenced
    BY <1>2 DEF Fenced, TrueBeliefs, IsTrue
  <2>2. Told(Fenced, Belief, reports, c)'
    BY <1>7, <2>1 DEF Told
  <2>3. Agrees(c)' /\ Sees(c)'
    BY <1>2, AgreesStays, SeesStays DEF Knows
  <2>4. QED
    BY <2>1, <2>2, <2>3 DEF Knows
<1>10. QED
  BY <1>4, <1>5, <1>6, <1>7, <1>8, <1>9

LEMMA HandlersLeave ==
  ASSUME HandleReport, ~ Panic
  PROVE  /\ UNCHANGED <<alive, destination, exploring, request>>
         /\ UNCHANGED <<world, body, queue, doing, gone, phase, lastSent>>
         /\ ~ exploring /\ Head(reports).kind # "SD" => topic' = topic
         /\ Head(reports).kind = "SD" => Replan(tiles', rover')
<1>1. ReportNext /\ UNCHANGED fieldVars
  BY DEF HandleReport
<1>2. UNCHANGED <<world, body, queue, doing, gone, phase, lastSent>>
  BY <1>1 DEF fieldVars
<1>3. CASE HandleForward \/ HandleTurn \/ HandleStop
  BY <1>2, <1>3 DEF HandleForward, HandleTurn, HandleStop, Handle, Receive, TurnKinds
<1>4. CASE HandleEnd
  BY <1>2, <1>4 DEF HandleEnd, Handle, Receive
<1>5. CASE HandleTurnStop \/ HandleForwardStop
  BY <1>2, <1>5 DEF HandleTurnStop, HandleForwardStop, Handle, Receive
<1>6. CASE HandleBackward
  BY <1>2, <1>6 DEF HandleBackward, Receive, serverVars
<1>7. QED
  BY <1>1, <1>3, <1>4, <1>5, <1>6 DEF ReportNext

\* A report other than the second part of a stop.
LEMMA PlainReportJourney ==
  ASSUME NEW g, Types, Journey(g), HandleReport, Head(reports).kind # "SD"
  PROVE  Journey(g)'
<1>1. PICK c : Knows(c) /\ Settled(c)
  BY DEF Journey
<1>2. /\ Belief \in Fenced /\ reports # <<>> /\ reports' = Tail(reports) /\ ~ Panic
      /\ Belief' = Hears(Belief, Head(reports)) /\ Belief' \in Fenced /\ Knows(c)'
  BY <1>1, HandledKnows
<1>3. Orderly
  BY JourneyIs
<1>4. /\ UNCHANGED <<alive, destination, exploring, request, topic>>
      /\ UNCHANGED <<world, body, queue, doing, gone, phase, lastSent>>
  BY <1>2, <1>3, HandlersLeave DEF Orderly
<1>5. request = NoRequest /\ NoRequest.path = <<>>
  BY <1>2, <1>3 DEF Orderly, NoRequest
<1>6. /\ reports \in Seq(Reports) /\ reports # <<>>
      /\ Len(reports') = Len(reports) - 1 /\ Len(reports) \in Nat
      /\ \A k \in 1..Len(reports') : reports'[k] = reports[k + 1]
      /\ Head(reports) = reports[1]
  <2>1. reports \in Seq(Reports)
    BY SequencesAre
  <2>2. QED
    BY <1>2, <2>1, HeadTailProperties, LenProperties
<1>7. Halted' <=> Halted
  <2>1. ASSUME Halted PROVE Halted'
    <3>1. PICK k \in 1..Len(reports) : reports[k].kind = "SD"
      BY <2>1 DEF Halted
    <3>2. k - 1 \in 1..Len(reports') /\ reports'[k - 1] = reports[(k - 1) + 1]
      <4>1. k # 1
        BY <1>6, <3>1
      <4>2. k - 1 \in 1..Len(reports')
        BY <1>6, <4>1
      <4>3. QED
        BY <1>6, <4>2
    <3>3. reports'[k - 1].kind = "SD"
      BY <3>1, <3>2
    <3>4. QED
      BY <3>2, <3>3 DEF Halted
  <2>2. ASSUME Halted' PROVE Halted
    <3>1. PICK k \in 1..Len(reports') : reports'[k].kind = "SD"
      BY <2>2 DEF Halted
    <3>2. k + 1 \in 1..Len(reports) /\ reports[k + 1].kind = "SD"
      BY <1>6, <3>1
    <3>3. QED
      BY <3>2 DEF Halted
  <2>3. QED
    BY <2>1, <2>2
<1>8. HaltsLast'
  <2>1. HaltsLast
    BY <1>3 DEF Orderly
  <2>2. SUFFICES ASSUME NEW k \in 1..Len(reports'), reports'[k].kind = "SD",
                        NEW j \in 1..Len(reports'), j > k
                 PROVE  reports'[j] = Back
    BY DEF HaltsLast
  <2>3. k + 1 \in 1..Len(reports) /\ j + 1 \in 1..Len(reports) /\ j + 1 > k + 1
    <3>1. PICK n \in Nat : n = Len(reports)
      BY <1>6
    <3>2. k \in 1..(n - 1) /\ j \in 1..(n - 1)
      BY <1>6, <2>2, <3>1
    <3>3. k + 1 \in 1..n /\ j + 1 \in 1..n /\ j + 1 > k + 1
      BY <2>2, <3>2
    <3>4. QED
      BY <3>1, <3>3
  <2>4. reports'[k] = reports[k + 1] /\ reports'[j] = reports[j + 1]
    BY <1>6, <2>2
  <2>5. QED
    BY <2>1, <2>2, <2>3, <2>4 DEF HaltsLast
<1>9. /\ Driving' <=> Driving
      /\ Turning' <=> Turning
      /\ InSight' <=> InSight
      /\ Calm' <=> Calm
      /\ Avoided' = Avoided /\ Coming' = Coming /\ Future' = Future
  BY <1>4 DEF Driving, Turning, InSight, Faced, Calm, Avoided, Coming, Future, Now
<1>10. \A t \in Tiles : tiles'[t] <= Empty => tiles[t] <= Empty
  <2>1. Head(reports) \in Reports
    BY <1>6, ReportsTail
  <2>2. PICK b \in Fenced : b = Belief
    BY <1>2
  <2>3. Hears(b, Head(reports)) \in Fenced
    BY <1>2, <2>2
  <2>4. \A t \in Tiles : Hears(b, Head(reports)).tiles[t] <= Empty => b.tiles[t] <= Empty
    BY <2>1, <2>3, HearsFrees
  <2>5. b.tiles = tiles /\ Hears(b, Head(reports)).tiles = tiles'
    BY <1>2, <2>2 DEF Belief
  <2>6. QED
    BY <2>4, <2>5
<1>11. OnCourse(g)'
  <2>1. PICK q : Course(body, Future, q, Avoided) /\ Aimed(g, q)
    BY DEF Journey, OnCourse
  <2>2. Place(q) \in Tiles
    BY <2>1, CourseEnds, InsideIs
  <2>3. Aim(Place(q)) => Aim(Place(q))'
    <3>1. ASSUME ShortestPaths(tiles, Place(q), destination.tile) = {}
          PROVE  ShortestPaths(tiles', Place(q), destination'.tile) = {}
      <4>1. PICK from \in Tiles : from = Place(q)
        BY <2>2
      <4>2. ShortestPaths(tiles, from, destination.tile) = {}
        BY <3>1, <4>1
      <4>3. ShortestPaths(tiles', from, destination.tile) = {}
        BY <1>10, <4>2, NoWayStays
      <4>4. QED
        BY <1>4, <4>1, <4>3
    <3>2. QED
      BY <1>4, <3>1 DEF Aim
  <2>4. Aimed(g, q)'
    BY <1>4, <1>7, <2>1, <2>3 DEF Aimed
  <2>5. QED
    BY <1>4, <1>9, <2>1, <2>4 DEF OnCourse
<1>12. Orderly'
  BY <1>3, <1>4, <1>5, <1>7, <1>8, <1>9 DEF Orderly
<1>13. Settled(c)'
  BY <1>1, <1>4, <1>9 DEF Settled
<1>14. NoCollision'
  BY <1>4 DEF NoCollision, Journey
<1>15. [Next]_vars
  BY DEF Next
<1>16. QED
  BY <1>2, <1>11, <1>12, <1>13, <1>14, <1>15, JourneyGoesOn

\* The second part of a stop: the server plans from where the rover is, and
\* marks what has been seen.
LEMMA StopReportJourney ==
  ASSUME NEW g, Types, Types', Journey(g), HandleReport, Head(reports).kind = "SD"
  PROVE  Journey(g)'
<1>1. PICK c : Knows(c) /\ Settled(c)
  BY DEF Journey
<1>2. /\ Belief \in Fenced /\ reports # <<>> /\ reports' = Tail(reports) /\ ~ Panic
      /\ Belief' = Hears(Belief, Head(reports)) /\ Belief' \in Fenced
      /\ Told(Fenced, Belief', reports', c) /\ Knows(c)'
  BY <1>1, HandledKnows
<1>3. Orderly /\ body \in Inside
  BY JourneyIs
<1>4. /\ UNCHANGED <<alive, destination, exploring, request>>
      /\ UNCHANGED <<world, body, queue, doing, gone, phase, lastSent>>
      /\ Replan(tiles', rover')
  BY <1>2, HandlersLeave
<1>5. /\ reports \in Seq(Reports) /\ reports # <<>> /\ reports' \in Seq(Reports)
      /\ Len(reports') = Len(reports) - 1 /\ Len(reports) \in Nat \ {0}
      /\ \A k \in 1..Len(reports') : reports'[k] = reports[k + 1]
      /\ Head(reports) = reports[1]
  <2>1. reports \in Seq(Reports)
    BY SequencesAre
  <2>2. QED
    BY <1>2, <2>1, HeadTailProperties, LenProperties, EmptySeq
<1>6. Halted
  BY <1>5 DEF Halted
<1>7. /\ Calm /\ ~ Driving /\ (Turning => ~ InSight) /\ phase # "stopping"
      /\ queue \in {<<>>, <<Back>>} /\ request.path = <<>>
  BY <1>3, <1>6 DEF Orderly, Calm, NoRequest
<1>8. \A k \in 1..Len(reports') : reports'[k] = Back
  <2> SUFFICES ASSUME NEW k \in 1..Len(reports') PROVE reports'[k] = Back
    OBVIOUS
  <2>1. PICK n \in Nat \ {0} : n = Len(reports)
    BY <1>5
  <2>2. 1 \in 1..n /\ k + 1 \in 1..n /\ k + 1 > 1
    <3>1. k \in 1..(n - 1)
      BY <1>5, <2>1
    <3>2. QED
      BY <3>1
  <2>3. reports[k + 1] = Back
    BY <1>3, <1>5, <2>1, <2>2 DEF Orderly, HaltsLast
  <2>4. QED
    BY <1>5, <2>3
<1>9. ~ Halted' /\ HaltsLast'
  <2>1. Back.kind # "SD"
    BY DEF Back, Report
  <2>2. \A k \in 1..Len(reports') : reports'[k].kind # "SD"
    BY <1>8, <2>1
  <2>3. QED
    BY <2>2 DEF Halted, HaltsLast
<1>10. PICK b \in Fenced : b = Belief'
  BY <1>2
<1>11. c = b
  <2>1. PICK s \in Seq(Reports) : s = reports'
    BY <1>5
  <2>2. Told(Fenced, b, s, c) /\ b \in Beliefs /\ \A k \in 1..Len(s) : s[k] = Back
    BY <1>2, <1>8, <1>10, <2>1, FencedIs
  <2>3. QED
    BY <2>2, ToldBacks
<1>12. /\ c \in Fenced /\ c.rover = rover' /\ c.tiles = tiles' /\ c.stash = stash'
       /\ Agrees(c) /\ Sees(c)
  BY <1>1, <1>10, <1>11 DEF Knows, Belief
<1>13. c.stash = Forward(0)
  <2>1. PICK a \in Fenced : a = Belief
    BY <1>2
  <2>2. c = Hears(a, Head(reports))
    BY <1>2, <1>10, <1>11, <2>1
  <2>3. QED
    BY <2>1, <2>2, FencedIs, HeardRover
<1>14. Expected(c) = c.rover /\ c.rover \in Inside /\ c.tiles \in Maps /\ Fence(c.tiles)
  BY <1>12, <1>13, FencedIs, NothingExpected
<1>15. \A t \in Avoided : t \in DOMAIN world /\ ~ c.tiles[t] <= Empty
  <2> SUFFICES ASSUME NEW t \in Avoided PROVE t \in DOMAIN world /\ ~ c.tiles[t] <= Empty
    OBVIOUS
  <2>1. t \in DOMAIN world /\ world[t] = lastSent
    BY DEF Avoided
  <2>2. c.tiles[t] >= Obstacle /\ t \in Tiles
    BY <1>7, <1>12, <2>1 DEF Sees, Known, Types, FieldInv
  <2>3. c.tiles[t] \in Values
    BY <1>14, <2>2 DEF Maps
  <2>4. QED
    BY <2>1, <2>2, <2>3, ValuesAre
<1>16. PICK q : /\ Course(c.rover, topic', q, Avoided)
                /\ \/ Place(q) = destination.tile
                   \/ ShortestPaths(c.tiles, Place(q), destination.tile) = {}
  <2>1. Replan(c.tiles, c.rover)
    BY <1>4, <1>12
  <2>2. topic = <<>> /\ ~ exploring /\ destination.mode \in SafeModes
    BY <1>3, <1>7 DEF Orderly, Calm
  <2>3. QED
    BY <1>14, <1>15, <2>1, <2>2, ReplanLeads
<1>17. topic' \in Seq(Sent) /\ (topic' # <<>> => topic'[Len(topic')] = End)
  <2>1. Replan(c.tiles, c.rover)
    BY <1>4, <1>12
  <2>2. topic = <<>> /\ ~ exploring /\ destination.mode \in SafeModes
    BY <1>3, <1>7 DEF Orderly, Calm
  <2>3. QED
    BY <1>14, <1>15, <2>1, <2>2, ReplanLeads
<1>18. Coming' = queue \o topic' /\ queue \in Seq(Sent)
  <2>1. topic' \o request'.left = topic'
    BY <1>4, <1>7, <1>17, ConcatEmptySeq DEF Calm, NoRequest
  <2>2. QED
    BY <1>4, <2>1, SequencesAre DEF Coming
<1>19. Course(c.rover, Coming', q, Avoided)
  <2>1. CASE queue = <<>>
    BY <1>16, <1>17, <1>18, <2>1, ConcatEmptySeq
  <2>2. CASE queue = <<Back>>
    <3>1. Back \in Sent /\ Back.kind \notin TurnKinds \cup {"forward"}
      BY DEF Sent, Back, Report, TurnKinds
    <3>2. After(c.rover, Back) = c.rover
      BY <1>14, <3>1, SentKinds, InsideIs
    <3>3. QED
      BY <1>14, <1>16, <1>18, <2>2, <3>1, <3>2, CourseBefore
  <2>3. QED
    BY <1>7, <2>1, <2>2
<1>20. Course(body, Future', q, Avoided)
  <2>1. Now' = Now
    BY <1>4 DEF Now, Driving, Turning
  <2>2. Coming' \in Seq(Sent)
    BY <1>17, <1>18, ConcatProperties
  <2>3. CASE Turning
    <3>1. doing \in Sent /\ doing.kind # "forward" /\ doing.kind \in TurnKinds /\ phase = "moving"
      BY <2>3, DoingKinds DEF Types, FieldInv, Sent, Orders, TurnKinds, Turning
    <3>2. c.rover = After(body, doing)
      BY <1>12, <1>14, <3>1 DEF Agrees
    <3>3. Faced \in Avoided
      <4>1. c.stash # doing
        BY <1>13, <3>1 DEF Forward
      <4>2. QED
        BY <1>12, <2>3, <4>1 DEF Sees, Avoided
    <3>4. Place(Ahead(After(body, doing), 1)) \in Avoided
      <4>1. Faced = InFront(body, doing)
        BY FacedIs
      <4>2. QED
        BY <3>1, <3>3, <4>1 DEF InFront, After
    <3>5. Future' = <<doing>> \o Coming'
      BY <1>7, <2>1, <2>3 DEF Future, Now
    <3>6. QED
      BY <1>3, <1>19, <3>1, <3>2, <3>4, <3>5, CourseBefore
  <2>4. CASE ~ Turning
    <3>1. Future' = Coming'
      BY <1>7, <2>1, <2>2, <2>4 DEF Future, Now
    <3>2. c.rover = body
      BY <1>7, <1>12, <1>14, <2>4 DEF Agrees, Driving, Turning, Types, FieldInv
    <3>3. QED
      BY <1>19, <3>1, <3>2
  <2>5. QED
    BY <2>3, <2>4
<1>21. OnCourse(g)'
  <2>1. Aimed(g, q)'
    BY <1>4, <1>12, <1>16 DEF Aimed, Aim
  <2>2. Avoided' = Avoided
    BY <1>4, AvoidedStays
  <2>3. QED
    BY <1>4, <1>20, <2>1, <2>2 DEF OnCourse
<1>22. Orderly'
  <2>1. /\ ~ Driving' /\ (Turning' => ~ InSight') /\ phase' # "stopping"
        /\ request' = NoRequest /\ NoRequest.path = <<>>
    BY <1>4, <1>7 DEF Driving, Turning, InSight, Faced, Calm, NoRequest
  <2>2. QED
    BY <1>3, <1>4, <1>9, <2>1 DEF Orderly
<1>23. Settled(c)'
  <2>1. CASE topic' = <<>>
    <3>1. Coming' = queue
      BY <1>18, <2>1, ConcatEmptySeq
    <3>2. QED
      BY <1>7, <1>13, <3>1 DEF Settled
  <2>2. CASE topic' # <<>>
    <3>1. Coming' # <<>> /\ Coming'[Len(Coming')] = End
      BY <1>17, <1>18, <2>2, LastOfConcat
    <3>2. QED
      BY <3>1 DEF Settled
  <2>3. QED
    BY <2>1, <2>2
<1>24. NoCollision'
  BY <1>4 DEF NoCollision, Journey
<1>25. [Next]_vars
  BY DEF Next
<1>26. QED
  BY <1>2, <1>21, <1>22, <1>23, <1>24, <1>25, JourneyGoesOn

-----------------------------------------------------------------------------
\* What the operator and the requests do the reports do not tell.
LEMMA KnowsStays ==
  ASSUME UNCHANGED <<rover, stash, tiles, stopData, reports>>, UNCHANGED fieldVars,
         NEW c, Knows(c)
  PROVE  Knows(c)'
<1>1. UNCHANGED <<world, body, queue, doing, gone, phase, lastSent>>
  BY DEF fieldVars
<1>2. Fenced' = Fenced
  BY <1>1 DEF Fenced, TrueBeliefs, IsTrue
<1>3. Belief' = Belief /\ reports' = reports
  BY DEF Belief
<1>4. Told(Fenced, Belief, reports, c)'
  BY <1>2, <1>3 DEF Told, Knows
<1>5. Agrees(c)' /\ Sees(c)'
  BY <1>1, AgreesStays, SeesStays DEF Knows
<1>6. QED
  BY <1>2, <1>4, <1>5 DEF Knows

\* When nothing is reported and nothing is done, the server's rover is the
\* rover, once its last sequence has ended.
LEMMA ReadyIs ==
  ASSUME Types, reports = <<>>, phase = "ready", NEW c, Knows(c)
  PROVE  /\ Expected(c) = body
         /\ c.rover = rover /\ c.tiles = tiles /\ c.stash = stash
         /\ tiles \in Maps /\ Fence(tiles)
         /\ \A t \in Avoided : ~ tiles[t] <= Empty
         /\ c.stash \in {Nothing, Forward(0)} => rover = body
<1>1. /\ c = Belief /\ c \in Fenced /\ Sees(c)
      /\ Expected(c) = body
  <2>1. reports \in Seq(Reports)
    BY SequencesAre
  <2>2. QED
    BY <2>1, ToldEnds DEF Knows, Agrees
<1>2. c.rover = rover /\ c.tiles = tiles /\ c.stash = stash
  BY <1>1 DEF Belief
<1>3. tiles \in Maps /\ Fence(tiles) /\ rover \in Rovers
  BY <1>1, <1>2, FencedIs
<1>4. ASSUME NEW t \in Avoided PROVE ~ tiles[t] <= Empty
  <2>1. t \in DOMAIN world /\ world[t] = lastSent
    BY <1>4 DEF Avoided
  <2>2. tiles[t] >= Obstacle /\ t \in Tiles
    BY <1>1, <1>2, <2>1 DEF Sees, Known, Types, FieldInv
  <2>3. tiles[t] \in Values
    BY <1>3, <2>2 DEF Maps
  <2>4. QED
    BY <2>2, <2>3, ValuesAre
<1>5. c.stash \in {Nothing, Forward(0)} => rover = body
  BY <1>1, <1>2, <1>3, NothingExpected
<1>6. QED
  BY <1>1, <1>2, <1>3, <1>4, <1>5

LEMMA QuietIs ==
  ASSUME NEW g, Types, Journey(g), Quiet
  PROVE  /\ request = NoRequest /\ topic = <<>> /\ reports = <<>> /\ queue = <<>>
         /\ phase = "ready" /\ NoRequest.path = <<>> /\ NoRequest.left = <<>>
         /\ ~ Driving /\ ~ Turning /\ ~ Halted
         /\ Now = <<>> /\ Coming = <<>> /\ Future = <<>>
         /\ g => Aim(Place(body))
         /\ rover = body
<1>1. /\ request = NoRequest /\ topic = <<>> /\ reports = <<>> /\ queue = <<>>
      /\ phase = "ready" /\ NoRequest.path = <<>> /\ NoRequest.left = <<>>
      /\ ~ Driving /\ ~ Turning /\ ~ Halted
  BY DEF Quiet, NoRequest, Driving, Turning, Halted
<1>2. Now = <<>> /\ Coming = <<>> /\ Future = <<>>
  BY <1>1 DEF Now, Coming, Future
<1>3. g => Aim(Place(body))
  <2>1. PICK q : Course(body, Future, q, Avoided) /\ Aimed(g, q)
    BY DEF Journey, OnCourse
  <2>2. q = body
    BY <1>2, <2>1, CourseEnds
  <2>3. QED
    BY <1>1, <2>1, <2>2 DEF Aimed
<1>4. rover = body
  <2>1. PICK c : Knows(c) /\ Settled(c)
    BY DEF Journey
  <2>2. c.stash \in {Nothing, Forward(0)}
    BY <1>1, <1>2, <2>1 DEF Settled
  <2>3. QED
    BY <1>1, <2>1, <2>2, ReadyIs
<1>5. QED
  BY <1>1, <1>2, <1>3, <1>4

\* What the server does when the rover is ready and all is reported.
LEMMA ServerGoesOn ==
  ASSUME NEW g, Types, Journey(g), [Next]_vars, UNCHANGED fieldVars,
         UNCHANGED <<alive, rover, stash, tiles, stopData, exploring, reports>>,
         phase = "ready", reports = <<>>,
         destination'.mode \in SafeModes, request'.mode \in SafeModes,
         request' # NoRequest => request'.then = destination',
         request'.path # <<>> =>
           /\ queue = <<>> /\ topic' = <<>> /\ request'.left = <<>>
           /\ request'.path \in ShortestPaths(tiles, Place(body), destination'.tile)
           /\ rover = body,
         \A c : Settled(c) => Settled(c)',
         \E q : Course(body, Coming', q, Avoided) /\ Aimed(g, q)'
  PROVE  Journey(g)'
<1>1. UNCHANGED <<world, body, queue, doing, gone, phase, lastSent>>
  BY DEF fieldVars
<1>2. body \in Inside /\ Orderly
  BY JourneyIs
<1>3. ~ Driving' /\ ~ Turning' /\ ~ Halted' /\ HaltsLast' /\ phase' # "stopping"
  <2>1. reports' = <<>> /\ phase' = "ready"
    BY <1>1
  <2>2. QED
    BY <2>1 DEF Driving, Turning, Halted, HaltsLast
<1>4. PICK q : Course(body, Coming', q, Avoided) /\ Aimed(g, q)'
  OBVIOUS
<1>5. Course(body', Future', q, Avoided')
  <2>1. Coming' \in Seq(Sent)
    BY <1>4, CourseEnds
  <2>2. Future' = Coming'
    BY <1>3, <2>1 DEF Future, Now
  <2>3. QED
    BY <1>1, <1>4, <2>2, AvoidedStays
<1>6. OnCourse(g)'
  BY <1>4, <1>5 DEF OnCourse
<1>7. Orderly'
  BY <1>1, <1>2, <1>3 DEF Orderly
<1>8. NoCollision'
  BY <1>1 DEF NoCollision, Journey
<1>9. \E c : (Knows(c) /\ Settled(c))'
  <2>1. PICK c : Knows(c) /\ Settled(c)
    BY DEF Journey
  <2>2. Knows(c)' /\ Settled(c)'
    BY <2>1, KnowsStays
  <2>3. QED
    BY <2>2
<1>10. QED
  BY <1>6, <1>7, <1>8, <1>9, JourneyGoesOn

LEMMA AskJourney ==
  ASSUME NEW g, Types, Guided, Journey(g), AskForTarget
  PROVE  Journey(g)'
<1>1. Quiet /\ UNCHANGED fieldVars
  BY DEF AskForTarget, Guided
<1>2. PICK t \in Targets, m \in Modes : TargetCoords(t, m) /\ m \in SafeModes
  BY DEF AskForTarget, Guided, SafeModes, Simple, DestinationDiscovery, Explore
<1>3. /\ request = NoRequest /\ topic = <<>> /\ reports = <<>> /\ queue = <<>>
      /\ phase = "ready" /\ NoRequest.path = <<>> /\ NoRequest.left = <<>>
      /\ Coming = <<>> /\ rover = body
  BY <1>1, QuietIs
<1>4. body \in Inside /\ body \in Rovers
  BY JourneyIs, InsideIs
<1>5. /\ UNCHANGED <<alive, rover, stash, tiles, stopData, exploring, reports>>
      /\ topic' = topic /\ queue' = queue /\ phase' = phase
      /\ destination' = [tile |-> t, mode |-> m]
  BY <1>1, <1>2 DEF TargetCoords, topics, fieldVars
<1>6. destination'.tile = t /\ destination'.mode = m
  BY <1>5
<1> DEFINE paths == ShortestPaths(tiles, Place(body), t)
<1>7. /\ Routes(tiles, rover, t) = paths
      /\ IF paths = {} THEN request' = request ELSE FindPath(paths, m, destination')
  <2>1. OnMap(rover)
    BY <1>3, <1>4, InsideIs DEF OnMap
  <2>2. Routes(tiles, rover, t) = paths
    BY <1>3, <2>1 DEF Routes
  <2>3. QED
    BY <1>2, <2>2 DEF TargetCoords
<1>8. \/ paths = {} /\ request' = NoRequest
      \/ \E p \in paths :
           request' = [NoRequest EXCEPT !.path = p, !.mode = m, !.then = destination']
  BY <1>3, <1>7 DEF FindPath
<1>9. /\ request'.left = <<>> /\ request'.mode \in SafeModes
      /\ request' # NoRequest => request'.then = destination'
      /\ request'.path # <<>> => request'.path \in paths
      /\ request'.path = <<>> => paths = {}
  <2>1. CASE paths = {} /\ request' = NoRequest
    BY <2>1 DEF NoRequest, SafeModes
  <2>2. ASSUME NEW p \in paths,
               request' = [NoRequest EXCEPT !.path = p, !.mode = m, !.then = destination']
        PROVE  /\ request'.left = <<>> /\ request'.mode \in SafeModes
               /\ request' # NoRequest => request'.then = destination'
               /\ request'.path # <<>> => request'.path \in paths
               /\ request'.path = <<>> => paths = {}
    <3>1. /\ request'.path = p /\ request'.mode = m /\ request'.left = <<>>
          /\ request'.then = destination'
      BY <2>2 DEF NoRequest
    <3>2. p # <<>>
      <4>1. p \in Routes(tiles, rover, t)
        BY <1>7
      <4>2. IsRoute(p)
        BY <1>3, <1>4, <4>1, RoutesAre
      <4>3. QED
        BY <4>2 DEF IsRoute, IsPath
    <3>3. QED
      BY <1>2, <2>2, <3>1, <3>2
  <2>3. QED
    BY <1>8, <2>1, <2>2
<1>10. Coming' = <<>>
  BY <1>3, <1>5, <1>9 DEF Coming
<1>11. PICK q : q = body
  OBVIOUS
<1>12. Course(body, Coming', q, Avoided) /\ Aimed(g, q)'
  <2>1. Course(body, Coming', q, Avoided)
    BY <1>4, <1>10, <1>11, NoCourse
  <2>2. Aimed(g, q)'
    BY <1>5, <1>6, <1>9, <1>11 DEF Aimed, Aim
  <2>3. QED
    BY <2>1, <2>2
<1>13. ASSUME NEW c, Settled(c) PROVE Settled(c)'
  BY <1>3, <1>5, <1>10, <1>13 DEF Settled
<1>14. [Next]_vars
  BY DEF Next
<1>15. /\ destination'.mode \in SafeModes /\ request'.mode \in SafeModes
       /\ request' # NoRequest => request'.then = destination'
       /\ request'.path # <<>> =>
            /\ queue = <<>> /\ topic' = <<>> /\ request'.left = <<>>
            /\ request'.path \in ShortestPaths(tiles, Place(body), destination'.tile)
            /\ rover = body
  BY <1>2, <1>3, <1>5, <1>6, <1>9
<1> HIDE DEF paths
<1>16. \E z : Course(body, Coming', z, Avoided) /\ Aimed(g, z)'
  BY <1>12
<1>17. QED
  BY <1>1, <1>3, <1>5, <1>13, <1>14, <1>15, <1>16, ServerGoesOn

LEMMA ManualJourney ==
  ASSUME NEW g, Types, Guided, Journey(g), DriveManually
  PROVE  Journey(g)'
<1>1. Quiet /\ UNCHANGED fieldVars
  BY DEF DriveManually, Guided
<1>2. PICK s \in {<<Right>>, <<Left, Left>>} : ManualDrive(s)
  BY DEF DriveManually, Guided
<1>3. /\ request = NoRequest /\ topic = <<>> /\ reports = <<>> /\ queue = <<>>
      /\ phase = "ready" /\ NoRequest.path = <<>> /\ NoRequest.left = <<>>
      /\ (g => Aim(Place(body)))
  BY <1>1, QuietIs
<1>4. body \in Inside /\ Orderly
  BY JourneyIs
<1>5. s \in Seq(Moves)
  <2>1. Right \in Moves /\ Left \in Moves
    BY TurnsAreMoves DEF Moves
  <2>2. <<Right>> \in Seq(Moves) /\ <<Left, Left>> \in Seq(Moves)
    BY <2>1
  <2>3. QED
    BY <2>2
<1>6. s \o <<End>> \in Seq(Sent) /\ s \o <<End>> # <<>>
      /\ (s \o <<End>>)[Len(s \o <<End>>)] = End
  BY <1>5, PlanEnds
<1>7. /\ UNCHANGED <<alive, rover, stash, tiles, stopData, exploring, reports>>
      /\ destination' = destination /\ request' = request /\ queue' = queue
      /\ topic' = s \o <<End>>
  <2>1. topic' = (topic \o s) \o <<End>> /\ UNCHANGED <<reports, serverVars>>
    BY <1>2 DEF ManualDrive
  <2>2. topic \o s = s
    BY <1>3, <1>5, ConcatEmptySeq
  <2>3. QED
    BY <1>1, <2>1, <2>2 DEF serverVars, fieldVars
<1>8. Coming' = s \o <<End>>
  <2>1. PICK u \in Seq(Sent) : u = s \o <<End>>
    BY <1>6
  <2>2. <<>> \o (u \o <<>>) = u
    BY <2>1, ConcatEmptySeq
  <2>3. QED
    BY <1>3, <1>7, <2>1, <2>2 DEF Coming
<1>9. PICK q : Course(body, s \o <<End>>, q, Avoided) /\ Place(q) = Place(body)
  BY <1>4, TurnsCourse
<1>10. Aimed(g, q)'
  <2>1. g => Aim(Place(q))'
    BY <1>3, <1>7, <1>9 DEF Aim
  <2>2. QED
    BY <2>1 DEF Aimed
<1>11. ASSUME NEW c PROVE Settled(c)'
  BY <1>6, <1>8 DEF Settled
<1>12. [Next]_vars
  BY DEF Next
<1>13. /\ destination'.mode \in SafeModes /\ request'.mode \in SafeModes
       /\ request' = NoRequest
  BY <1>3, <1>4, <1>7 DEF Orderly
<1>14. QED
  BY <1>1, <1>3, <1>7, <1>8, <1>9, <1>10, <1>11, <1>12, <1>13, ServerGoesOn

LEMMA MakeJourney ==
  ASSUME NEW g, Types, Journey(g), HandleRequest, MakeInstructions
  PROVE  Journey(g)'
<1> DEFINE u == Instructions(request.path, rover.rotation, request.mode)
<1>1. /\ request.path # <<>> /\ UNCHANGED fieldVars
      /\ request' = [request EXCEPT !.path = <<>>, !.left = u \o <<End>>]
      /\ UNCHANGED <<alive, rover, stash, tiles, stopData, exploring, reports>>
      /\ UNCHANGED <<topic, destination>>
  BY DEF MakeInstructions, HandleRequest, topics
<1>2. body \in Inside /\ Orderly
  BY JourneyIs
<1>3. /\ queue = <<>> /\ topic = <<>> /\ rover = body
      /\ request.path \in ShortestPaths(tiles, Place(body), destination.tile)
      /\ phase = "ready" /\ reports = <<>> /\ request.then = destination
      /\ request.mode \in SafeModes /\ destination.mode \in SafeModes
  <2>1. request # NoRequest
    BY <1>1 DEF NoRequest
  <2>2. QED
    BY <1>1, <1>2, <2>1 DEF Orderly
<1>4. u \in Seq(Moves)
  <2>1. IsRoute(request.path) /\ rover.rotation \in Rotations
    BY <1>1, <1>2, <1>3, InsideIs DEF Types, ServerInv, IsRequest
  <2>2. QED
    BY <2>1, RouteInstructions
<1>5. PICK q : Course(body, u \o <<End>>, q, Avoided) /\ Place(q) = destination.tile
  <2>1. PICK c : Knows(c)
    BY DEF Journey
  <2>2. tiles \in Maps /\ Fence(tiles) /\ \A t \in Avoided : ~ tiles[t] <= Empty
    BY <1>3, <2>1, ReadyIs
  <2>3. Walled(tiles, Avoided)
    BY <2>2 DEF Fence, Walled
  <2>4. request.mode \in {Simple, DestinationDiscovery}
    BY <1>3 DEF SafeModes
  <2>5. \E q : /\ Course(body, Instructions(request.path, body.rotation, request.mode)
                                \o <<End>>, q, Avoided)
               /\ Place(q) = destination.tile
    BY <1>2, <1>3, <2>3, <2>4, PlanCourse
  <2>6. QED
    BY <1>3, <2>5
<1> HIDE DEF u
<1>6. /\ request'.path = <<>> /\ request'.left = u \o <<End>>
      /\ request'.mode = request.mode /\ request'.then = request.then
  <2>1. request = [path |-> request.path, mode |-> request.mode,
                   left |-> request.left, then |-> request.then]
    BY DEF Types, ServerInv, IsRequest
  <2>2. QED
    BY <1>1, <2>1
<1>7. /\ u \o <<End>> \in Seq(Sent) /\ u \o <<End>> # <<>>
      /\ (u \o <<End>>)[Len(u \o <<End>>)] = End
  BY <1>4, PlanEnds
<1>8. Coming' = u \o <<End>>
  <2>1. PICK s \in Seq(Sent) : s = u \o <<End>>
    BY <1>7
  <2>2. <<>> \o (<<>> \o s) = s
    BY ConcatEmptySeq
  <2>3. queue' = queue
    BY <1>1 DEF fieldVars
  <2>4. QED
    BY <1>1, <1>3, <1>6, <2>1, <2>2, <2>3 DEF Coming
<1>9. Aimed(g, q)'
  BY <1>1, <1>5 DEF Aimed, Aim
<1>10. ASSUME NEW c PROVE Settled(c)'
  BY <1>7, <1>8 DEF Settled
<1>11. [Next]_vars
  BY DEF Next
<1>12. QED
  BY <1>1, <1>3, <1>5, <1>6, <1>8, <1>9, <1>10, <1>11, ServerGoesOn

LEMMA PublishJourney ==
  ASSUME NEW g, Types, Journey(g), HandleRequest, PublishNext
  PROVE  Journey(g)'
<1>1. /\ request.left # <<>> /\ UNCHANGED fieldVars
      /\ topic' = Append(topic, Head(request.left))
      /\ \/ Len(request.left) = 1 /\ request' = NoRequest /\ destination' = request.then
         \/ request' = [request EXCEPT !.left = Tail(@)] /\ UNCHANGED destination
      /\ UNCHANGED <<alive, rover, stash, tiles, stopData, exploring, reports>>
  BY DEF PublishNext, HandleRequest
<1>2. body \in Inside /\ Orderly
  BY JourneyIs
<1>3. /\ phase = "ready" /\ reports = <<>> /\ request.then = destination
      /\ request.path = <<>> /\ request # NoRequest
      /\ request.mode \in SafeModes /\ destination.mode \in SafeModes
  <2>1. request # NoRequest
    BY <1>1 DEF NoRequest
  <2>2. QED
    BY <1>1, <1>2, <2>1 DEF Orderly
<1>4. /\ queue' = queue
      /\ UNCHANGED <<body, phase>>
  BY <1>1 DEF fieldVars
<1>5. /\ request'.path = <<>> /\ request'.left = Tail(request.left)
      /\ request'.mode \in SafeModes /\ destination' = destination
      /\ request' # NoRequest => request'.then = destination
  <2>1. CASE Len(request.left) = 1 /\ request' = NoRequest /\ destination' = request.then
    <3>1. Tail(request.left) = <<>>
      <4>1. request.left \in Seq(Orders)
        BY SequencesAre
      <4>2. Len(Tail(request.left)) = 0 /\ Tail(request.left) \in Seq(Orders)
        BY <1>1, <2>1, <4>1, HeadTailProperties
      <4>3. QED
        BY <4>2, EmptySeq
    <3>2. QED
      BY <1>3, <2>1, <3>1 DEF NoRequest, SafeModes
  <2>2. CASE request' = [request EXCEPT !.left = Tail(@)] /\ UNCHANGED destination
    <3>1. request = [path |-> request.path, mode |-> request.mode,
                     left |-> request.left, then |-> request.then]
      BY DEF Types, ServerInv, IsRequest
    <3>2. QED
      BY <1>3, <2>2, <3>1
  <2>3. QED
    BY <1>1, <2>1, <2>2
<1>6. Coming' = Coming
  <2>1. PICK s \in Seq(Sent), u \in Seq(Sent) : s = topic /\ u = request.left
    BY SequencesAre
  <2>2. Append(s, Head(u)) \o (Tail(u) \o <<>>) = s \o (u \o <<>>)
    <3>1. PICK e \in Seq(Sent) : e = <<>>
      BY EmptySeq
    <3>2. u # <<>>
      BY <1>1, <2>1
    <3>3. Append(s, Head(u)) \o (Tail(u) \o e) = s \o (u \o e)
      BY <3>2, HeadMoves
    <3>4. QED
      BY <3>1, <3>3
  <2>3. u \o <<>> = u /\ Tail(u) \o <<>> = Tail(u)
    BY <1>1, <2>1, HeadTailProperties, ConcatEmptySeq
  <2>4. topic' \o request'.left = topic \o request.left
    BY <1>1, <1>5, <2>1, <2>2, <2>3
  <2>5. QED
    BY <1>4, <2>4 DEF Coming
<1>7. PICK q : Course(body, Coming, q, Avoided) /\ Aimed(g, q)
  <2>1. Future = Coming
    <3>1. Now = <<>> /\ Coming \in Seq(Sent)
      BY <1>3, JourneyIs DEF Now, Driving, Turning
    <3>2. QED
      BY <3>1, ConcatEmptySeq DEF Future
  <2>2. QED
    BY <2>1 DEF Journey, OnCourse
<1>8. Aimed(g, q)'
  <2>1. Halted' <=> Halted
    BY <1>1 DEF Halted
  <2>2. QED
    BY <1>1, <1>3, <1>4, <1>5, <1>7, <2>1, AimStays
<1>9. ASSUME NEW c, Settled(c) PROVE Settled(c)'
  BY <1>4, <1>6, <1>9 DEF Settled
<1>10. [Next]_vars
  BY DEF Next
<1>11. QED
  BY <1>1, <1>3, <1>5, <1>6, <1>7, <1>8, <1>9, <1>10, ServerGoesOn

\* The rover and the map are put back to the start.
LEMMA ResetJourney ==
  ASSUME NEW g, Types, Types', Guided, Journey(g), Reset,
         [KeepsMap]_vars, g => [KeepsTarget]_vars
  PROVE  Journey(g)'
<1>1. /\ Quiet /\ stash = Nothing /\ Act
      /\ tiles' = NewMap /\ rover' = NewRover /\ body' = NewRover
      /\ UNCHANGED <<topic, reports, alive, stash, stopData, destination, exploring, request>>
      /\ UNCHANGED <<world, queue, doing, gone, phase, lastSent>>
  BY DEF Reset, ResetMap, Guided, topics
<1>2. /\ request = NoRequest /\ topic = <<>> /\ reports = <<>> /\ queue = <<>>
      /\ phase = "ready" /\ NoRequest.path = <<>> /\ NoRequest.left = <<>>
  BY <1>1, QuietIs
<1>3. lastSent = "none" /\ (g => destination = NoDestination)
  <2>1. acts' # acts
    BY <1>1 DEF Act, Types
  <2>2. QED
    BY <2>1 DEF KeepsMap, KeepsTarget, vars
<1>4. gone = 0 /\ Orderly
  BY <1>2, JourneyIs
<1>5. NewRover' = NewRover /\ NewMap' = NewMap /\ NewRover \in Inside
      /\ Place(NewRover) \notin DOMAIN world
  BY DEF NewRover, NewMap, Journey
<1>6. Knows(Belief)'
  <2>1. NewStart'
    BY <1>1, <1>2, <1>3, <1>4, <1>5 DEF NewStart, Types, ServerInv
  <2>2. QED
    BY <2>1, NewKnown, PTL
<1>7. /\ ~ Driving' /\ ~ Turning' /\ ~ Halted' /\ HaltsLast' /\ phase' # "stopping"
      /\ request' = NoRequest
  BY <1>1, <1>2 DEF Driving, Turning, Halted, HaltsLast
<1>8. Coming' = <<>> /\ Future' = <<>>
  <2>1. Now' = <<>>
    BY <1>7 DEF Now
  <2>2. Coming' = <<>>
    BY <1>1, <1>2 DEF Coming
  <2>3. QED
    BY <2>1, <2>2 DEF Future
<1>9. \E c : (Knows(c) /\ Settled(c))'
  <2>1. PICK b : b = Belief'
    OBVIOUS
  <2>2. Knows(b)'
    BY <1>6, <2>1
  <2>3. b.stash = Nothing
    BY <1>1, <2>1 DEF Belief
  <2>4. Settled(b)'
    BY <1>8, <2>3 DEF Settled
  <2>5. QED
    BY <2>2, <2>4
<1>10. OnCourse(g)'
  <2>1. PICK q : q = NewRover
    OBVIOUS
  <2>2. Course(body', Future', q, Avoided')
    BY <1>1, <1>5, <1>8, <2>1, NoCourse
  <2>3. Aimed(g, q)'
    BY <1>1, <1>3 DEF Aimed, Aim
  <2>4. QED
    BY <2>2, <2>3 DEF OnCourse
<1>11. Orderly'
  BY <1>1, <1>2, <1>4, <1>7 DEF Orderly
<1>12. NoCollision'
  BY <1>1, <1>5 DEF NoCollision
<1>13. [Next]_vars
  BY DEF Next
<1>14. QED
  BY <1>9, <1>10, <1>11, <1>12, <1>13, JourneyGoesOn

LEMMA JourneyStays ==
  ASSUME NEW g, Types, Journey(g), UNCHANGED vars
  PROVE  Journey(g)'
<1>1. /\ UNCHANGED <<topic, reports>>
      /\ UNCHANGED <<alive, tiles, rover, stash, stopData, destination, exploring, request>>
      /\ UNCHANGED <<world, body, queue, doing, gone, phase, lastSent>> /\ UNCHANGED fieldVars
  BY DEF vars, topics, serverVars, fieldVars
<1>2. Orderly
  BY JourneyIs
<1>3. /\ (Driving' <=> Driving) /\ (Turning' <=> Turning) /\ (InSight' <=> InSight)
      /\ (Calm' <=> Calm) /\ (Halted' <=> Halted) /\ (HaltsLast' <=> HaltsLast)
      /\ Avoided' = Avoided /\ Coming' = Coming /\ Future' = Future
  BY <1>1 DEF Driving, Turning, InSight, Faced, Calm, Halted, HaltsLast, Avoided, Coming,
    Future, Now
<1>4. Orderly'
  BY <1>1, <1>2, <1>3 DEF Orderly
<1>5. OnCourse(g)'
  <2>1. PICK q : Course(body, Future, q, Avoided) /\ Aimed(g, q)
    BY DEF Journey, OnCourse
  <2>2. Aimed(g, q)'
    BY <1>1, <1>3, <2>1, AimStays
  <2>3. QED
    BY <1>1, <1>3, <2>1, <2>2 DEF OnCourse
<1>6. \E c : (Knows(c) /\ Settled(c))'
  <2>1. PICK c : Knows(c) /\ Settled(c)
    BY DEF Journey
  <2>2. Knows(c)'
    BY <1>1, <2>1, KnowsStays
  <2>3. Settled(c)'
    BY <1>1, <1>3, <2>1 DEF Settled
  <2>4. QED
    BY <2>2, <2>3
<1>7. NoCollision'
  BY <1>1 DEF NoCollision, Journey
<1>8. QED
  BY <1>4, <1>5, <1>6, <1>7, JourneyGoesOn

LEMMA JourneyStep ==
  ASSUME NEW g, Guided
  PROVE  /\ Types /\ Types' /\ StopsAtOnce /\ RoomInQueue /\ Journey(g)
         /\ [Next]_vars /\ [KeepsMap]_vars /\ (g => [KeepsTarget]_vars)
         => Journey(g)'
<1> SUFFICES ASSUME Types, Types', StopsAtOnce, RoomInQueue, Journey(g),
                    [Next]_vars, [KeepsMap]_vars, g => [KeepsTarget]_vars
             PROVE  Journey(g)'
  OBVIOUS
<1>1. CASE AskForTarget
  BY <1>1, AskJourney
<1>2. CASE DriveManually
  BY <1>2, ManualJourney
<1>3. CASE EndExploration
  BY <1>3, JourneyIs DEF EndExploration, Orderly
<1>4. CASE Reset
  BY <1>4, ResetJourney
<1>5. CASE HandleReport
  <2>1. CASE Head(reports).kind = "SD"
    BY <1>5, <2>1, StopReportJourney
  <2>2. CASE Head(reports).kind # "SD"
    BY <1>5, <2>2, PlainReportJourney
  <2>3. QED
    BY <2>1, <2>2
<1>6. CASE HandleRequest
  BY <1>6, MakeJourney, PublishJourney DEF HandleRequest, RequestNext
<1>7. CASE Start
  BY <1>7, StartJourney
<1>8. CASE Move
  <2>1. MoveNext
    BY <1>8 DEF Move
  <2>2. CASE Deliver
    BY <1>8, <2>2, DeliverJourney
  <2>3. CASE Advance
    BY <1>8, <2>3, AdvanceJourney
  <2>4. CASE Arrive
    BY <1>8, <2>4, ArriveJourney
  <2>5. CASE StopForward
    BY <1>8, <2>5, StopJourney
  <2>6. CASE ReportDistance
    BY <1>8, <2>6, DistanceJourney
  <2>7. CASE SeeWhileTurning
    BY <1>8, <2>7, LookJourney
  <2>8. QED
    BY <2>1, <2>2, <2>3, <2>4, <2>5, <2>6, <2>7 DEF MoveNext
<1>9. CASE UNCHANGED vars
  BY <1>9, JourneyStays
<1>10. QED
  BY <1>1, <1>2, <1>3, <1>4, <1>5, <1>6, <1>7, <1>8, <1>9 DEF Next

LEMMA JourneyKnows ==
  ASSUME NEW g, Types, Journey(g)
  PROVE  NoCollision /\ MapIsTrue /\ DeadReckoning /\ alive
<1>1. PICK c : Knows(c)
  BY DEF Journey
<1>2. reports \in Seq(Reports)
  BY SequencesAre
<1>3. Belief \in TrueBeliefs
  BY <1>1, <1>2, ToldEnds DEF Knows, Fenced
<1>4. MapIsTrue
  BY <1>3, TrueMap
<1>5. DeadReckoning
  <2>1. SUFFICES ASSUME reports = <<>>, phase = "ready"
                 PROVE  After(rover, stash) = body
    BY DEF DeadReckoning
  <2>2. Expected(c) = body /\ c.rover = rover /\ c.stash = stash
    BY <1>1, <2>1, ReadyIs
  <2>3. QED
    BY <2>2 DEF Expected
<1>6. NoCollision /\ alive
  BY DEF Journey, Orderly
<1>7. QED
  BY <1>4, <1>5, <1>6

LEMMA JourneyReaches ==
  ASSUME NEW g, g, Types, Journey(g)
  PROVE  TargetReached
<1>1. SUFFICES ASSUME Quiet, destination # NoDestination
               PROVE  \/ Place(body) = destination.tile
                      \/ ShortestPaths(tiles, Place(body), destination.tile) = {}
  BY DEF TargetReached
<1>2. QED
  BY <1>1, QuietIs DEF Aim

(***************************************************************************)
(* The rover never drives into an obstacle (map_general.go:220 and         *)
(* main.c:268), the server does not panic, and knows the map and the       *)
(* rover's place, in any order of reports, plans and moves: if targets are *)
(* asked for when nothing goes on, in the modes that do not explore, the   *)
(* manual drives only turn, a plan has arrived before the rover starts on  *)
(* it and finds room in its queue, obstacles differ in colour, none stands *)
(* where the rover starts, a stop comes before the rover has left its      *)
(* tile, and the map is reset only when all is over and on it, and vision  *)
(* has sent no obstacle.                                                   *)
(***************************************************************************)
THEOREM NeverCollides ==
  ASSUME DistinctColours, Guided, FreeStart
  PROVE  Spec /\ []StopsAtOnce /\ []RoomInQueue /\ [][KeepsMap]_vars
         => [](NoCollision /\ MapIsTrue /\ DeadReckoning /\ alive)
<1>1. Init => Journey(FALSE)
  BY JourneyInit
<1>2. /\ Types /\ Types' /\ StopsAtOnce /\ RoomInQueue /\ Journey(FALSE)
      /\ [Next]_vars /\ [KeepsMap]_vars
      => Journey(FALSE)'
  BY JourneyStep
<1>3. Types /\ Journey(FALSE) => NoCollision /\ MapIsTrue /\ DeadReckoning /\ alive
  BY JourneyKnows
<1>4. QED
  BY <1>1, <1>2, <1>3, TypesInvariant, PTL DEF Spec

(***************************************************************************)
(* Under the same conditions, and if the map is not reset under a target   *)
(* that the server remembers, the rover is at its target whenever all is   *)
(* quiet, or the map shows that there is no way: no stop, however it falls *)
(* between reports and plans, leaves the rover elsewhere.                  *)
(***************************************************************************)
THEOREM TargetsAreReached ==
  ASSUME DistinctColours, Guided, FreeStart
  PROVE  /\ Spec /\ []StopsAtOnce /\ []RoomInQueue
         /\ [][KeepsMap]_vars /\ [][KeepsTarget]_vars
         => []TargetReached
<1>1. Init => Journey(TRUE)
  BY JourneyInit
<1>2. /\ Types /\ Types' /\ StopsAtOnce /\ RoomInQueue /\ Journey(TRUE)
      /\ [Next]_vars /\ [KeepsMap]_vars /\ [KeepsTarget]_vars
      => Journey(TRUE)'
  BY JourneyStep
<1>3. Types /\ Journey(TRUE) => TargetReached
  BY JourneyReaches
<1>4. QED
  BY <1>1, <1>2, <1>3, TypesInvariant, PTL DEF Spec

=============================================================================
