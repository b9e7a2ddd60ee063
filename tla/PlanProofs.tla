------------------------------ MODULE PlanProofs ------------------------------
(***************************************************************************)
(* What the operators of Plans compute, for every size of the map: the     *)
(* instructions made from a path lead along the path, and ShortestPaths    *)
(* are the shortest walks.  Both are defined by recursion; induction is    *)
(* over sets of naturals, from the least element of a set.                 *)
(***************************************************************************)
EXTENDS Plans, SequenceTheorems, WellFoundedInduction, TLAPS

-----------------------------------------------------------------------------
LEMMA NatLeast ==
  ASSUME NEW T, T \subseteq Nat, T # {}
  PROVE  \E n \in T : \A m \in T : n <= m
<1> DEFINE R == OpToRel(<, Nat)
<1>1. IsWellFoundedOn(R, Nat)
  BY NatLessThanWellFounded
<1>2. ASSUME NEW a \in Nat, NEW b \in Nat, a < b
      PROVE  <<a, b>> \in R
  BY <1>2 DEF OpToRel
<1> HIDE DEF R
<1>3. \E n \in T : \A m \in T : ~ (<<m, n>> \in R)
  BY <1>1, WFMin
<1>4. PICK n \in T : \A m \in T : ~ (<<m, n>> \in R)
  BY <1>3
<1>5. ASSUME NEW m \in T PROVE n <= m
  <2>1. n \in Nat /\ m \in Nat
    OBVIOUS
  <2>2. ~ (m < n)
    BY <1>2, <1>4, <2>1, Zenon
  <2>3. QED
    BY <2>1, <2>2
<1>6. QED
  BY <1>5

LEMMA NatSetInduction ==
  ASSUME NEW S, 0 \in S, \A n \in Nat : n \in S => n + 1 \in S
  PROVE  Nat \subseteq S
<1>1. SUFFICES ASSUME Nat \ S # {} PROVE FALSE
  OBVIOUS
<1>2. PICK n \in Nat \ S : \A m \in Nat \ S : n <= m
  BY <1>1, NatLeast
<1>3. n - 1 \in Nat
  BY <1>2
<1>4. n - 1 \in S
  BY <1>2, <1>3
<1>5. QED
  BY <1>2, <1>3, <1>4

\* A value for each step of a loop: c first, then what G[i] makes of the
\* value before.
StepsStay(V, m, G) == \A i \in 1..m : \A v \in V : G[i][v] \in V

Iterates(g, V, c, m, G) ==
  /\ g \in [0..m -> V]
  /\ g[0] = c
  /\ \A i \in 1..m : g[i] = G[i][g[i - 1]]

LEMMA Iteration ==
  ASSUME NEW V, NEW c \in V, NEW m \in Nat, NEW G, StepsStay(V, m, G)
  PROVE  \E g : Iterates(g, V, c, m, G)
<1> USE DEF StepsStay
<1> DEFINE Upto(n, g) == g[0] = c /\ \A i \in 1..n : g[i] = G[i][g[i - 1]]
           S == {n \in Nat : n <= m => \E g \in [0..n -> V] : Upto(n, g)}
<1>1. 0 \in S
  <2> DEFINE h == [i \in 0..0 |-> c]
  <2>1. h \in [0..0 -> V] /\ Upto(0, h)
    OBVIOUS
  <2>2. QED
    BY <2>1
<1>2. ASSUME NEW n \in Nat, n \in S PROVE n + 1 \in S
  <2>1. SUFFICES ASSUME n + 1 <= m
                 PROVE  \E h \in [0..(n + 1) -> V] : Upto(n + 1, h)
    OBVIOUS
  <2>2. PICK g \in [0..n -> V] : Upto(n, g)
    BY <1>2, <2>1
  <2> DEFINE h == [i \in 0..(n + 1) |-> IF i = n + 1 THEN G[n + 1][g[n]] ELSE g[i]]
  <2>3. h \in [0..(n + 1) -> V] /\ h[0] = c
    BY <2>1, <2>2
  <2>4. ASSUME NEW i \in 1..(n + 1) PROVE h[i] = G[i][h[i - 1]]
    <3>1. CASE i = n + 1
      BY <3>1
    <3>2. CASE i # n + 1
      <4>1. h[i] = g[i] /\ h[i - 1] = g[i - 1] /\ i \in 1..n
        BY <3>2
      <4>2. QED
        BY <4>1, <2>2
    <3>3. QED
      BY <3>1, <3>2
  <2>5. QED
    BY <2>3, <2>4
<1> HIDE DEF S
<1>3. m \in S
  BY <1>1, <1>2, NatSetInduction
<1>4. QED
  BY <1>3 DEF S, Iterates

-----------------------------------------------------------------------------
(***************************************************************************)
(* Tiles, their neighbours and the direction from one to the other.        *)
(***************************************************************************)
LEMMA Grid ==
  ASSUME NEW t \in Tiles
  PROVE  /\ t \in Nat /\ Size \in Nat
         /\ Column(t) \in 0..(Size - 1) /\ Row(t) \in 0..(Size - 1)
         /\ t = Column(t) + Row(t) * Size
BY SizeAssumption DEF Tiles, Column, Row

LEMMA GridInverse ==
  ASSUME NEW x \in 0..(Size - 1), NEW y \in 0..(Size - 1)
  PROVE  /\ Tile(x, y) \in Tiles
         /\ Column(Tile(x, y)) = x /\ Row(Tile(x, y)) = y
BY SizeAssumption DEF Tiles, Column, Row, Tile

LEMMA Beside ==
  ASSUME NEW t \in Tiles, NEW u \in Tiles
  PROVE  u \in Neighbours(t) <=>
           \/ Row(u) = Row(t) /\ Column(u) = Column(t) + 1
           \/ Row(u) = Row(t) /\ Column(u) = Column(t) - 1
           \/ Row(u) = Row(t) + 1 /\ Column(u) = Column(t)
           \/ Row(u) = Row(t) - 1 /\ Column(u) = Column(t)
<1>1. u \in Neighbours(t) <=>
        u \in {t - Size, t + Size, t - 1, t + 1} /\ Distance(t, u) = 1
  BY DEF Neighbours
<1>2. Distance(t, u) = 1 <=>
        \/ Row(u) = Row(t) /\ Column(u) = Column(t) + 1
        \/ Row(u) = Row(t) /\ Column(u) = Column(t) - 1
        \/ Row(u) = Row(t) + 1 /\ Column(u) = Column(t)
        \/ Row(u) = Row(t) - 1 /\ Column(u) = Column(t)
  <2>1. /\ Column(t) \in Nat /\ Row(t) \in Nat
        /\ Column(u) \in Nat /\ Row(u) \in Nat
    BY Grid
  <2>2. QED
    BY <2>1 DEF Distance
<1>3. /\ Row(u) = Row(t) /\ Column(u) = Column(t) + 1 => u = t + 1
      /\ Row(u) = Row(t) /\ Column(u) = Column(t) - 1 => u = t - 1
      /\ Row(u) = Row(t) + 1 /\ Column(u) = Column(t) => u = t + Size
      /\ Row(u) = Row(t) - 1 /\ Column(u) = Column(t) => u = t - Size
  BY Grid
<1>4. Distance(t, u) = 1 => u \in {t - Size, t + Size, t - 1, t + 1}
  BY <1>2, <1>3
<1>5. QED
  BY <1>1, <1>2, <1>4

LEMMA NeighboursAreTiles ==
  ASSUME NEW t PROVE Neighbours(t) \subseteq Tiles
BY DEF Neighbours

Rovers == [x : Int, y : Int, rotation : Rotations]

At(t, a) == [x |-> Column(t), y |-> Row(t), rotation |-> a]

LEMMA AheadIs ==
  ASSUME NEW r \in Rovers, NEW n \in Int
  PROVE  /\ Across(r.rotation) \in {-1, 0, 1} /\ Down(r.rotation) \in {-1, 0, 1}
         /\ n * Across(r.rotation) \in Int /\ n * Down(r.rotation) \in Int
         /\ Ahead(r, n) \in Rovers
<1>1. Across(r.rotation) \in {-1, 0, 1} /\ Down(r.rotation) \in {-1, 0, 1}
  BY DEF Across, Down
<1>2. n * Across(r.rotation) \in Int /\ n * Down(r.rotation) \in Int
  BY <1>1
<1>3. QED
  BY <1>1, <1>2 DEF Rovers, Ahead

LEMMA AtIsRover ==
  ASSUME NEW t \in Tiles, NEW a \in Rotations
  PROVE  At(t, a) \in Rovers /\ Place(At(t, a)) = t
BY Grid DEF At, Rovers, Place, Tile

LEMMA DirectionLeads ==
  ASSUME NEW t \in Tiles, NEW u \in Neighbours(t)
  PROVE  /\ Direction(t, u) \in Rotations
         /\ Ahead(At(t, Direction(t, u)), 1) = At(u, Direction(t, u))
<1>1. u \in Tiles
  BY NeighboursAreTiles
<1>2. Direction(t, u) \in Rotations
  BY DEF Direction, Rotations
<1>3. Ahead(At(t, Direction(t, u)), 1) =
        [x |-> Column(t) + Across(Direction(t, u)),
         y |-> Row(t) + Down(Direction(t, u)), rotation |-> Direction(t, u)]
  <2>1. At(t, Direction(t, u)) \in Rovers
    BY <1>2, AtIsRover
  <2>2. QED
    BY <2>1, AheadIs DEF Ahead, At
<1>4. Size > 1
  BY <1>1, Beside, Grid, SizeAssumption
<1>5. CASE Row(u) = Row(t) /\ Column(u) = Column(t) + 1
  <2>1. u = t + 1
    BY <1>1, <1>5, Grid
  <2>2. Direction(t, u) = 0
    BY <1>4, <2>1, Grid DEF Direction
  <2>3. QED
    BY <1>1, <1>2, <1>3, <1>5, <2>2, Grid DEF At, Across, Down
<1>6. CASE Row(u) = Row(t) /\ Column(u) = Column(t) - 1
  <2>1. u = t - 1
    BY <1>1, <1>6, Grid
  <2>2. Direction(t, u) = 180
    BY <1>4, <2>1, Grid DEF Direction
  <2>3. QED
    BY <1>1, <1>2, <1>3, <1>6, <2>2, Grid DEF At, Across, Down
<1>7. CASE Row(u) = Row(t) + 1 /\ Column(u) = Column(t)
  <2>1. u = t + Size
    BY <1>1, <1>7, Grid
  <2>2. Direction(t, u) = 90
    BY <1>4, <2>1, Grid DEF Direction
  <2>3. QED
    BY <1>1, <1>2, <1>3, <1>7, <2>2, Grid DEF At, Across, Down
<1>8. CASE Row(u) = Row(t) - 1 /\ Column(u) = Column(t)
  <2>1. u = t - Size
    BY <1>1, <1>8, Grid
  <2>2. Direction(t, u) = 270
    BY <1>4, <2>1, Grid DEF Direction
  <2>3. QED
    BY <1>1, <1>2, <1>3, <1>8, <2>2, Grid DEF At, Across, Down
<1>9. QED
  BY <1>1, <1>5, <1>6, <1>7, <1>8, Beside

-----------------------------------------------------------------------------
(***************************************************************************)
(* Where a sequence of instructions leads: the rovers t[1], t[2], ...      *)
(* before, between and after the instructions s; the tiles passed over,    *)
(* but for those they start from, are in F.                                *)
(***************************************************************************)
Moves == {Forward(n) : n \in Nat} \cup {Right, Left}

IsTrail(t, s) ==
  /\ t \in [1..(Len(s) + 1) -> Rovers]
  /\ \A i \in 1..Len(s) : t[i + 1] = After(t[i], s[i])

Passed(r, i) ==
  IF i.kind = "forward" THEN Swept(r, i.value) \ {Place(r)} ELSE {}

Over(t, s, F) == \A i \in 1..Len(s) : Passed(t[i], s[i]) \subseteq F

Leads(r, s, q, F) ==
  /\ s \in Seq(Moves)
  /\ \E t \in [1..(Len(s) + 1) -> Rovers] :
       /\ IsTrail(t, s) /\ Over(t, s, F)
       /\ t[1] = r /\ t[Len(s) + 1] = q

LEMMA MoveKinds ==
  ASSUME NEW i \in Moves
  PROVE  /\ i = Right \/ i = Left \/ (i = Forward(i.value) /\ i.value \in Nat)
         /\ i.kind = "forward" <=> i = Forward(i.value)
         /\ i.value \in Nat
BY DEF Moves, Forward, Right, Left

LEMMA AfterIs ==
  ASSUME NEW r \in Rovers, NEW i \in Moves
  PROVE  /\ After(r, i) \in Rovers
         /\ i = Right => After(r, i) = [r EXCEPT !.rotation = (@ + 90) % 360]
         /\ i = Left => After(r, i) = [r EXCEPT !.rotation = (@ - 90) % 360]
         /\ \A n : i = Forward(n) => After(r, i) = Ahead(r, n)
<1>1. i = Right => After(r, i) = [r EXCEPT !.rotation = (@ + 90) % 360]
  BY DEF Right, After, Turned, ChangeInRotation
<1>2. i = Left => After(r, i) = [r EXCEPT !.rotation = (@ - 90) % 360]
  BY DEF Left, After, Turned, ChangeInRotation, Rovers, Rotations
<1>3. \A n : i = Forward(n) => After(r, i) = Ahead(r, n)
  BY DEF Forward, After
<1>4. (r.rotation + 90) % 360 \in Rotations /\ (r.rotation - 90) % 360 \in Rotations
  BY DEF Rovers, Rotations
<1>5. After(r, i) \in Rovers
  <2>0. \A a \in Rotations : [r EXCEPT !.rotation = a] \in Rovers
    BY DEF Rovers
  <2>1. CASE i = Right \/ i = Left
    <3>1. /\ [r EXCEPT !.rotation = (r.rotation + 90) % 360] \in Rovers
          /\ [r EXCEPT !.rotation = (r.rotation - 90) % 360] \in Rovers
      BY <1>4, <2>0
    <3>2. QED
      BY <1>1, <1>2, <2>1, <3>1, Zenon
  <2>2. CASE i = Forward(i.value) /\ i.value \in Nat
    <3>1. After(r, i) = Ahead(r, i.value)
      BY <1>3, <2>2, Zenon
    <3>2. i.value \in Int
      BY <2>2
    <3>3. QED
      BY <3>1, <3>2, AheadIs
  <2>3. QED
    BY <2>1, <2>2, MoveKinds
<1>6. QED
  BY <1>1, <1>2, <1>3, <1>5

LEMMA LeadsNowhere ==
  ASSUME NEW r \in Rovers, NEW F
  PROVE  Leads(r, <<>>, r, F)
<1> DEFINE t == [i \in 1..1 |-> r]
<1>1. <<>> \in Seq(Moves) /\ Len(<<>>) = 0 /\ 1..0 = {}
  OBVIOUS
<1>2. t \in [1..1 -> Rovers] /\ t[1] = r
  OBVIOUS
<1> HIDE DEF t
<1>3. IsTrail(t, <<>>) /\ Over(t, <<>>, F)
  BY <1>1, <1>2 DEF IsTrail, Over
<1>4. QED
  BY <1>1, <1>2, <1>3 DEF Leads

LEMMA LeadsByOne ==
  ASSUME NEW r \in Rovers, NEW i \in Moves, NEW F, Passed(r, i) \subseteq F
  PROVE  Leads(r, <<i>>, After(r, i), F)
<1> DEFINE t == [k \in 1..2 |-> IF k = 1 THEN r ELSE After(r, i)]
<1>1. <<i>> \in Seq(Moves) /\ Len(<<i>>) = 1 /\ <<i>>[1] = i
  OBVIOUS
<1>2. t \in [1..2 -> Rovers] /\ t[1] = r /\ t[2] = After(r, i)
  BY AfterIs
<1> HIDE DEF t
<1>3. IsTrail(t, <<i>>) /\ Over(t, <<i>>, F)
  BY <1>1, <1>2 DEF IsTrail, Over
<1>4. QED
  BY <1>1, <1>2, <1>3 DEF Leads

LEMMA LeadsOn ==
  ASSUME NEW r, NEW s, NEW q, NEW F, Leads(r, s, q, F),
         NEW u, NEW p, Leads(q, u, p, F)
  PROVE  Leads(r, s \o u, p, F)
<1>1. /\ s \in Seq(Moves) /\ u \in Seq(Moves) /\ s \o u \in Seq(Moves)
      /\ Len(s) \in Nat /\ Len(u) \in Nat /\ Len(s \o u) = Len(s) + Len(u)
      /\ \A i \in 1..Len(s) : (s \o u)[i] = s[i]
      /\ \A i \in 1..Len(u) : (s \o u)[Len(s) + i] = u[i]
  BY ConcatProperties, LenProperties DEF Leads
<1>2. PICK a \in [1..(Len(s) + 1) -> Rovers] :
        IsTrail(a, s) /\ Over(a, s, F) /\ a[1] = r /\ a[Len(s) + 1] = q
  BY DEF Leads
<1>3. PICK b \in [1..(Len(u) + 1) -> Rovers] :
        IsTrail(b, u) /\ Over(b, u, F) /\ b[1] = q /\ b[Len(u) + 1] = p
  BY DEF Leads
<1> DEFINE m == Len(s) + Len(u)
           t == [i \in 1..(m + 1) |-> IF i <= Len(s) THEN a[i] ELSE b[i - Len(s)]]
<1>4. t \in [1..(m + 1) -> Rovers]
  <2>1. ASSUME NEW i \in 1..(m + 1), i <= Len(s) PROVE a[i] \in Rovers
    BY <1>1, <1>2, <2>1
  <2>2. ASSUME NEW i \in 1..(m + 1), ~ (i <= Len(s)) PROVE b[i - Len(s)] \in Rovers
    BY <1>1, <1>3, <2>2
  <2>3. QED
    BY <2>1, <2>2
<1>5. /\ \A i \in 1..(Len(s) + 1) : t[i] = a[i]
      /\ \A i \in 1..(Len(u) + 1) : t[Len(s) + i] = b[i]
  BY <1>1, <1>2, <1>3
<1> HIDE DEF t
<1>6. ASSUME NEW i \in 1..m
      PROVE  /\ t[i + 1] = After(t[i], (s \o u)[i])
             /\ Passed(t[i], (s \o u)[i]) \subseteq F
  <2>1. CASE i <= Len(s)
    <3>1. i \in 1..Len(s) /\ i + 1 \in 1..(Len(s) + 1)
      BY <1>1, <2>1
    <3>2. QED
      BY <1>1, <1>2, <1>5, <3>1 DEF IsTrail, Over
  <2>2. CASE i > Len(s)
    <3>0. i - Len(s) \in 1..Len(u) /\ i = Len(s) + (i - Len(s))
      BY <1>1, <2>2
    <3>1. PICK k \in 1..Len(u) : i = Len(s) + k
      BY <3>0
    <3>2. t[i] = b[k] /\ (s \o u)[i] = u[k] /\ t[i + 1] = b[k + 1]
      <4>1. i + 1 = Len(s) + (k + 1) /\ k + 1 \in 1..(Len(u) + 1)
        BY <1>1, <3>1
      <4>2. QED
        BY <1>1, <1>5, <3>1, <4>1
    <3>3. QED
      BY <1>3, <3>2 DEF IsTrail, Over
  <2>3. QED
    BY <1>1, <2>1, <2>2
<1>7. t[1] = r /\ t[m + 1] = p
  <2>1. m + 1 = Len(s) + (Len(u) + 1)
    BY <1>1
  <2>2. QED
    BY <1>1, <1>2, <1>3, <1>5, <2>1
<1>8. QED
  BY <1>1, <1>4, <1>6, <1>7 DEF Leads, IsTrail, Over

\* A forward that goes one tile further.
LEMMA LeadsFarther ==
  ASSUME NEW r, NEW s, NEW q, NEW F, Leads(r, s, q, F),
         s # <<>>, NEW v \in Nat, s[Len(s)] = Forward(v),
         Place(Ahead(q, 1)) \in F
  PROVE  Leads(r, [s EXCEPT ![Len(s)] = Forward(v + 1)], Ahead(q, 1), F)
<1> DEFINE n == Len(s)
           u == [s EXCEPT ![n] = Forward(v + 1)]
<1>1. s \in Seq(Moves) /\ n \in Nat \ {0}
  BY EmptySeq, LenProperties DEF Leads
<1>2. Forward(v + 1) \in Moves
  BY DEF Moves
<1>3. /\ u \in Seq(Moves) /\ Len(u) = n /\ u[n] = Forward(v + 1)
      /\ \A i \in 1..n : i # n => u[i] = s[i]
  BY <1>1, <1>2, ExceptSeq
<1>4. PICK a \in [1..(n + 1) -> Rovers] :
        IsTrail(a, s) /\ Over(a, s, F) /\ a[1] = r /\ a[n + 1] = q
  BY DEF Leads
<1> HIDE DEF u
<1> DEFINE t == [a EXCEPT ![n + 1] = Ahead(q, 1)]
<1>5. q \in Rovers /\ a[n] \in Rovers
  BY <1>1, <1>4
<1>6. /\ t \in [1..(n + 1) -> Rovers]
      /\ t[n + 1] = Ahead(q, 1) /\ \A i \in 1..n : t[i] = a[i]
  <2>1. Ahead(q, 1) \in Rovers
    BY <1>5, AheadIs
  <2>2. QED
    BY <1>1, <1>4, <2>1
<1> HIDE DEF t
<1>7. q = Ahead(a[n], v)
  <2>1. q = After(a[n], Forward(v))
    BY <1>1, <1>4 DEF IsTrail
  <2>2. QED
    BY <2>1 DEF After, Forward
<1>8. Ahead(q, 1) = Ahead(a[n], v + 1)
  <2>1. /\ a[n].x \in Int /\ a[n].y \in Int
        /\ Across(a[n].rotation) \in Int /\ Down(a[n].rotation) \in Int
    BY <1>5 DEF Rovers, Across, Down
  <2>2. QED
    BY <1>7, <2>1 DEF Ahead
<1>9. After(t[n], u[n]) = t[n + 1]
  BY <1>1, <1>3, <1>6, <1>8 DEF After, Forward
<1>10. Passed(t[n], u[n]) \subseteq F
  <2>1. Passed(a[n], Forward(v)) \subseteq F
    BY <1>1, <1>4 DEF Over
  <2>2. Swept(a[n], v) \ {Place(a[n])} \subseteq F
    BY <2>1 DEF Passed, Forward
  <2>3. ASSUME NEW k \in 0..(v + 1)
        PROVE  Place(Ahead(a[n], k)) \in F \cup {Place(a[n])}
    <3>1. CASE k = v + 1
      BY <1>8, <3>1
    <3>2. CASE k # v + 1
      <4>1. k \in 0..v
        BY <3>2
      <4>2. QED
        BY <2>2, <4>1 DEF Swept
    <3>3. QED
      BY <3>1, <3>2
  <2>4. Swept(a[n], v + 1) \ {Place(a[n])} \subseteq F
    BY <2>3 DEF Swept
  <2>5. t[n] = a[n] /\ u[n] = Forward(v + 1)
    BY <1>1, <1>3, <1>6
  <2>6. QED
    BY <2>4, <2>5 DEF Passed, Forward
<1>11. ASSUME NEW i \in 1..n, i # n
       PROVE  t[i + 1] = After(t[i], u[i]) /\ Passed(t[i], u[i]) \subseteq F
  <2>1. t[i + 1] = a[i + 1] /\ t[i] = a[i] /\ u[i] = s[i]
    BY <1>1, <1>3, <1>6, <1>11
  <2>2. QED
    BY <1>4, <2>1 DEF IsTrail, Over
<1>12. IsTrail(t, u) /\ Over(t, u, F)
  BY <1>1, <1>3, <1>6, <1>9, <1>10, <1>11 DEF IsTrail, Over
<1>13. t[1] = r
  BY <1>1, <1>4, <1>6
<1>14. QED
  BY <1>3, <1>6, <1>12, <1>13 DEF Leads, u

-----------------------------------------------------------------------------
(***************************************************************************)
(* Turning on a tile.                                                      *)
(***************************************************************************)
LEMMA TurnAt ==
  ASSUME NEW t \in Tiles, NEW a \in Rotations, NEW F
  PROVE  /\ (a + 90) % 360 \in Rotations /\ (a - 90) % 360 \in Rotations
         /\ After(At(t, a), Right) = At(t, (a + 90) % 360)
         /\ After(At(t, a), Left) = At(t, (a - 90) % 360)
         /\ Leads(At(t, a), <<Right>>, At(t, (a + 90) % 360), F)
         /\ Leads(At(t, a), <<Left>>, At(t, (a - 90) % 360), F)
<1>1. Right \in Moves /\ Left \in Moves /\ At(t, a) \in Rovers
  BY AtIsRover DEF Moves
<1>2. After(At(t, a), Right) = At(t, (a + 90) % 360)
  BY <1>1, AfterIs DEF At
<1>3. After(At(t, a), Left) = At(t, (a - 90) % 360)
  BY <1>1, AfterIs DEF At
<1>4. Passed(At(t, a), Right) = {} /\ Passed(At(t, a), Left) = {}
  BY DEF Passed, Right, Left
<1>5. (a + 90) % 360 \in Rotations /\ (a - 90) % 360 \in Rotations
  BY DEF Rotations
<1>6. QED
  BY <1>1, <1>2, <1>3, <1>4, <1>5, LeadsByOne

LEMMA TurnsAreMoves ==
  ASSUME NEW a, NEW b
  PROVE  /\ Turns(a, b) \in Seq(Moves)
         /\ Right \in Moves /\ Left \in Moves
         /\ FullRotation \in Seq(Moves) /\ FullRotation # <<>>
<1>1. Right \in Moves /\ Left \in Moves
  BY DEF Moves
<1>2. QED
  BY <1>1 DEF Turns, FullRotation

LEMMA TurnsLead ==
  ASSUME NEW t \in Tiles, NEW a \in Rotations, NEW b \in Rotations, NEW F
  PROVE  Leads(At(t, a), Turns(a, b), At(t, b), F)
<1>1. CASE (b - a) % 360 = 90
  <2>1. Turns(a, b) = <<Right>> /\ b = (a + 90) % 360
    BY <1>1 DEF Turns, Rotations
  <2>2. QED
    BY <2>1, TurnAt
<1>2. CASE (b - a) % 360 = 270
  <2>1. Turns(a, b) = <<Left>> /\ b = (a - 90) % 360
    BY <1>2 DEF Turns, Rotations
  <2>2. QED
    BY <2>1, TurnAt
<1>3. CASE (b - a) % 360 = 180
  <2> DEFINE c == (a + 90) % 360
  <2>1. Turns(a, b) = <<Right, Right>> /\ b = (c + 90) % 360 /\ c \in Rotations
    BY <1>3 DEF Turns, Rotations
  <2>2. <<Right, Right>> = <<Right>> \o <<Right>>
    OBVIOUS
  <2> HIDE DEF c
  <2>3. Leads(At(t, a), <<Right>>, At(t, c), F) /\ Leads(At(t, c), <<Right>>, At(t, b), F)
    BY <2>1, TurnAt DEF c
  <2>4. QED
    BY <2>1, <2>2, <2>3, LeadsOn
<1>4. CASE (b - a) % 360 = 0
  <2>1. Turns(a, b) = <<>> /\ a = b
    BY <1>4 DEF Turns, Rotations
  <2>2. QED
    BY <2>1, AtIsRover, LeadsNowhere
<1>5. (b - a) % 360 \in Rotations
  BY DEF Rotations
<1>6. QED
  BY <1>1, <1>2, <1>3, <1>4, <1>5 DEF Rotations

LEMMA FullRotationLeads ==
  ASSUME NEW t \in Tiles, NEW a \in Rotations, NEW F
  PROVE  Leads(At(t, a), FullRotation, At(t, a), F)
<1> DEFINE right == (a + 90) % 360
           left == (a - 90) % 360
<1>1. /\ right \in Rotations /\ left \in Rotations
      /\ (right - 90) % 360 = a /\ (left + 90) % 360 = a
  BY DEF Rotations
<1>2. FullRotation = ((<<Right>> \o <<Left>>) \o <<Left>>) \o <<Right>>
  BY DEF FullRotation
<1>3. /\ Leads(At(t, a), <<Right>>, At(t, right), F)
      /\ Leads(At(t, right), <<Left>>, At(t, a), F)
      /\ Leads(At(t, a), <<Left>>, At(t, left), F)
      /\ Leads(At(t, left), <<Right>>, At(t, a), F)
  <2> HIDE DEF right, left
  <2>1. QED
    BY <1>1, TurnAt DEF right, left
<1> HIDE DEF right, left
<1>4. Leads(At(t, a), <<Right>> \o <<Left>>, At(t, a), F)
  BY <1>3, LeadsOn
<1>5. Leads(At(t, a), (<<Right>> \o <<Left>>) \o <<Left>>, At(t, left), F)
  BY <1>3, <1>4, LeadsOn
<1>6. QED
  BY <1>2, <1>3, <1>5, LeadsOn

-----------------------------------------------------------------------------
(***************************************************************************)
(* The instructions made from a path lead from its first tile to its last, *)
(* over the tiles of the path.                                             *)
(***************************************************************************)
LEMMA HeadingType ==
  ASSUME NEW p, NEW a \in Rotations, NEW i
  PROVE  Heading(p, a, i) \in Rotations
BY DEF Heading, Direction, Rotations

LEMMA WithLegType ==
  ASSUME NEW p, NEW a, NEW mode, NEW d \in Seq(Moves), NEW i
  PROVE  WithLeg(p, a, mode, d, i) \in Seq(Moves)
<1> DEFINE before == Heading(p, a, i - 1)
           now == Heading(p, a, i)
<1>1. CASE mode # FullDiscovery /\ i > 1 /\ now = before
  <2>1. WithLeg(p, a, mode, d, i) = [d EXCEPT ![Len(d)] = Forward(d[Len(d)].value + 1)]
    BY <1>1 DEF WithLeg
  <2>2. CASE d = <<>>
    <3>1. [d EXCEPT ![Len(d)] = Forward(d[Len(d)].value + 1)] = d
      BY <2>2
    <3>2. QED
      BY <2>1, <3>1
  <2>3. CASE d # <<>>
    <3>1. Len(d) \in 1..Len(d) /\ d[Len(d)] \in Moves
      BY <2>3, EmptySeq, LenProperties, ElementOfSeq
    <3>2. Forward(d[Len(d)].value + 1) \in Moves
      <4>1. d[Len(d)].value + 1 \in Nat
        BY <3>1, MoveKinds
      <4>2. QED
        BY <4>1 DEF Moves
    <3>3. QED
      BY <2>1, <3>1, <3>2, ExceptSeq
  <2>4. QED
    BY <2>2, <2>3
<1>2. CASE ~ (mode # FullDiscovery /\ i > 1 /\ now = before)
  <2>1. WithLeg(p, a, mode, d, i) =
          d \o Turns(before, now) \o <<Forward(1)>> \o Rotate(mode, FullDiscovery)
    BY <1>2 DEF WithLeg
  <2>2. Turns(before, now) \in Seq(Moves) /\ Rotate(mode, FullDiscovery) \in Seq(Moves)
    BY TurnsAreMoves DEF Rotate
  <2>3. <<Forward(1)>> \in Seq(Moves)
    BY DEF Moves
  <2>4. d \o Turns(before, now) \in Seq(Moves)
    BY <2>2, ConcatProperties
  <2>5. d \o Turns(before, now) \o <<Forward(1)>> \in Seq(Moves)
    BY <2>3, <2>4, ConcatProperties
  <2>6. QED
    BY <2>1, <2>2, <2>5, ConcatProperties
<1>3. QED
  BY <1>1, <1>2

LEMMA DriveIs ==
  ASSUME NEW p, Len(p) \in Nat \ {0}, NEW a, NEW mode
  PROVE  /\ Drive(p, a, mode) \in [0..(Len(p) - 1) -> Seq(Moves)]
         /\ Drive(p, a, mode)[0] = <<>>
         /\ \A i \in 1..(Len(p) - 1) :
              Drive(p, a, mode)[i] = WithLeg(p, a, mode, Drive(p, a, mode)[i - 1], i)
<1> DEFINE V == Seq(Moves)
           m == Len(p) - 1
           G == [i \in 1..m |-> [d \in V |-> WithLeg(p, a, mode, d, i)]]
           Legs(g) == [i \in 0..m |-> IF i = 0 THEN <<>> ELSE WithLeg(p, a, mode, g[i - 1], i)]
<1>1. \A i \in 1..m : \A d \in V : G[i][d] = WithLeg(p, a, mode, d, i)
  OBVIOUS
<1>2. StepsStay(V, m, G)
  BY <1>1, WithLegType DEF StepsStay
<1>3. m \in Nat /\ <<>> \in V
  OBVIOUS
<1> HIDE DEF G, V, m
<1>4. PICK g : Iterates(g, V, <<>>, m, G)
  BY <1>2, <1>3, Iteration
<1>5. ASSUME NEW i \in 1..m PROVE g[i] = WithLeg(p, a, mode, g[i - 1], i)
  <2>1. g[i - 1] \in V
    BY <1>3, <1>4 DEF Iterates
  <2>2. QED
    BY <1>1, <1>4, <2>1 DEF Iterates
<1>6. g = Legs(g)
  BY <1>3, <1>4, <1>5 DEF Iterates
<1>7. Drive(p, a, mode) = CHOOSE f : f = Legs(f)
  BY DEF Drive, m
<1>8. Drive(p, a, mode) = Legs(Drive(p, a, mode))
  <2> HIDE DEF Legs
  <2>1. QED
    BY <1>6, <1>7, Zenon
<1> HIDE DEF Legs
<1>9. \A i \in 1..m : Drive(p, a, mode)[i] = WithLeg(p, a, mode, Drive(p, a, mode)[i - 1], i)
  BY <1>3, <1>8 DEF Legs
<1>10. Drive(p, a, mode)[0] = <<>>
  BY <1>3, <1>8 DEF Legs
<1>11. Drive(p, a, mode) \in [0..m -> V]
  <2> DEFINE D == Drive(p, a, mode)
             S == {i \in Nat : i <= m => D[i] \in V}
  <2>1. 0 \in S
    BY <1>3, <1>10
  <2>2. ASSUME NEW i \in Nat, i \in S PROVE i + 1 \in S
    <3>1. SUFFICES ASSUME i + 1 <= m PROVE D[i + 1] \in V
      OBVIOUS
    <3>2. D[i] \in V /\ i + 1 \in 1..m /\ (i + 1) - 1 = i
      BY <1>3, <2>2, <3>1
    <3>3. D[i + 1] = WithLeg(p, a, mode, D[i], i + 1)
      BY <1>9, <3>2
    <3>4. QED
      BY <3>2, <3>3, WithLegType DEF V
  <2> HIDE DEF S
  <2>3. Nat \subseteq S
    BY <2>1, <2>2, NatSetInduction
  <2>4. \A i \in 0..m : D[i] \in V
    BY <1>3, <2>3 DEF S
  <2>5. D = [i \in 0..m |-> D[i]]
    <3>1. D = Legs(D)
      BY <1>8
    <3>2. QED
      BY <3>1 DEF Legs
  <2>6. QED
    BY <2>4, <2>5
<1>12. QED
  BY <1>9, <1>10, <1>11 DEF m, V

\* A path as the search finds it.
IsPath(p) ==
  /\ p \in Seq(Tiles)
  /\ Len(p) \in Nat \ {0}
  /\ \A i \in 1..(Len(p) - 1) : p[i + 1] \in Neighbours(p[i])

Later(p) == {p[k] : k \in 2..Len(p)}

LEMMA PathTiles ==
  ASSUME NEW p, IsPath(p), NEW i \in 1..Len(p)
  PROVE  p[i] \in Tiles
BY ElementOfSeq DEF IsPath

LEMMA OneForwardLeads ==
  ASSUME NEW t \in Tiles, NEW u \in Neighbours(t), NEW F, u \in F
  PROVE  Leads(At(t, Direction(t, u)), <<Forward(1)>>, At(u, Direction(t, u)), F)
<1> DEFINE r == At(t, Direction(t, u))
<1>1. r \in Rovers /\ Place(r) = t /\ Ahead(r, 1) = At(u, Direction(t, u))
  BY DirectionLeads, AtIsRover
<1>2. Place(At(u, Direction(t, u))) = u
  BY NeighboursAreTiles, DirectionLeads, AtIsRover
<1> HIDE DEF r
<1>3. Ahead(r, 0) = r
  <2>1. /\ r = [x |-> r.x, y |-> r.y, rotation |-> r.rotation]
        /\ r.x \in Int /\ r.y \in Int
        /\ Across(r.rotation) \in Int /\ Down(r.rotation) \in Int
    BY <1>1 DEF Rovers, Across, Down
  <2>2. QED
    BY <2>1 DEF Ahead
<1>4. Passed(r, Forward(1)) \subseteq F
  <2>1. Swept(r, 1) \subseteq {t, u}
    BY <1>1, <1>2, <1>3 DEF Swept
  <2>2. QED
    BY <1>1, <2>1 DEF Passed, Forward
<1>5. After(r, Forward(1)) = At(u, Direction(t, u)) /\ Forward(1) \in Moves
  BY <1>1 DEF After, Forward, Moves
<1>6. Leads(r, <<Forward(1)>>, After(r, Forward(1)), F)
  BY <1>1, <1>4, <1>5, LeadsByOne
<1>7. QED
  BY <1>5, <1>6 DEF r

LEMMA RotateLeads ==
  ASSUME NEW t \in Tiles, NEW a \in Rotations, NEW mode, NEW m, NEW F
  PROVE  Leads(At(t, a), Rotate(mode, m), At(t, a), F)
BY FullRotationLeads, LeadsNowhere, AtIsRover DEF Rotate

EndsForward(s) == s # <<>> /\ \E v \in Nat : s[Len(s)] = Forward(v)

\* The i-th leg, if the ones before lead to its first tile.
LEMMA LegLeads ==
  ASSUME NEW p, IsPath(p), NEW a \in Rotations, NEW mode, NEW r, NEW d,
         NEW i \in 1..(Len(p) - 1),
         Leads(r, d, At(p[i], Heading(p, a, i - 1)), Later(p)),
         mode # FullDiscovery /\ i > 1 => EndsForward(d)
  PROVE  LET e == WithLeg(p, a, mode, d, i)
         IN  /\ Leads(r, e, At(p[i + 1], Heading(p, a, i)), Later(p))
             /\ mode # FullDiscovery => EndsForward(e)
<1> DEFINE before == Heading(p, a, i - 1)
           now == Heading(p, a, i)
           e == WithLeg(p, a, mode, d, i)
           F == Later(p)
<1>1. /\ p[i] \in Tiles /\ p[i + 1] \in Tiles /\ p[i + 1] \in Neighbours(p[i])
      /\ p[i + 1] \in F
  BY PathTiles DEF IsPath, Later
<1>2. now = Direction(p[i], p[i + 1]) /\ now \in Rotations /\ before \in Rotations
  BY HeadingType DEF Heading
<1>3. Ahead(At(p[i], now), 1) = At(p[i + 1], now) /\ Place(At(p[i + 1], now)) = p[i + 1]
  BY <1>1, <1>2, DirectionLeads, AtIsRover
<1>4. d \in Seq(Moves)
  BY DEF Leads
<1>5. CASE mode # FullDiscovery /\ i > 1 /\ now = before
  <2>1. PICK v \in Nat : d # <<>> /\ d[Len(d)] = Forward(v)
    BY <1>5 DEF EndsForward
  <2>2. e = [d EXCEPT ![Len(d)] = Forward(v + 1)]
    <3>1. e = [d EXCEPT ![Len(d)] = Forward(d[Len(d)].value + 1)]
      BY <1>5 DEF WithLeg
    <3>2. d[Len(d)].value = v
      BY <2>1 DEF Forward
    <3>3. QED
      BY <3>1, <3>2
  <2>3. Leads(r, d, At(p[i], now), F) /\ Place(Ahead(At(p[i], now), 1)) \in F
    BY <1>1, <1>3, <1>5
  <2> HIDE DEF e, F, now
  <2>4. Leads(r, e, Ahead(At(p[i], now), 1), F)
    BY <2>1, <2>2, <2>3, LeadsFarther
  <2>5. e # <<>> /\ e[Len(e)] = Forward(v + 1) /\ v + 1 \in Nat
    <3>1. Forward(v + 1) \in Moves /\ Len(d) \in 1..Len(d)
      BY <1>4, <2>1, EmptySeq, LenProperties DEF Moves
    <3>2. QED
      BY <1>4, <2>1, <2>2, <3>1, ExceptSeq
  <2>6. QED
    BY <1>3, <2>4, <2>5 DEF e, F, now, EndsForward
<1>6. CASE ~ (mode # FullDiscovery /\ i > 1 /\ now = before)
  <2> DEFINE turns == Turns(before, now)
             rest == Rotate(mode, FullDiscovery)
  <2>1. e = ((d \o turns) \o <<Forward(1)>>) \o rest
    BY <1>6 DEF WithLeg
  <2>2. Leads(At(p[i], before), turns, At(p[i], now), F)
    BY <1>1, <1>2, TurnsLead
  <2>3. Leads(At(p[i], now), <<Forward(1)>>, At(p[i + 1], now), F)
    BY <1>1, <1>2, OneForwardLeads
  <2>4. Leads(At(p[i + 1], now), rest, At(p[i + 1], now), F)
    BY <1>1, <1>2, RotateLeads
  <2>5. Leads(r, d, At(p[i], before), F)
    OBVIOUS
  <2>6. mode # FullDiscovery => rest = <<>>
    BY DEF Rotate
  <2>7. turns \in Seq(Moves) /\ rest \in Seq(Moves)
    BY <2>2, <2>4 DEF Leads
  <2> HIDE DEF e, F, now, before, turns, rest
  <2>8. Leads(r, d \o turns, At(p[i], now), F)
    BY <2>2, <2>5, LeadsOn
  <2>9. Leads(r, (d \o turns) \o <<Forward(1)>>, At(p[i + 1], now), F)
    BY <2>3, <2>8, LeadsOn
  <2>10. Leads(r, e, At(p[i + 1], now), F)
    BY <2>1, <2>4, <2>9, LeadsOn
  <2>11. ASSUME mode # FullDiscovery
         PROVE  e # <<>> /\ e[Len(e)] = Forward(1)
    <3> DEFINE s == d \o turns
    <3>1. s \in Seq(Moves) /\ <<Forward(1)>> \in Seq(Moves)
      BY <1>4, <2>7, ConcatProperties DEF Moves
    <3> HIDE DEF s
    <3>2. e = (s \o <<Forward(1)>>) \o <<>>
      BY <2>1, <2>6, <2>11 DEF s
    <3>3. e = Append(s, Forward(1))
      BY <3>1, <3>2
    <3>4. QED
      BY <3>1, <3>3, AppendProperties, LenProperties
  <2>12. QED
    BY <2>10, <2>11 DEF e, F, now, EndsForward
<1>7. QED
  BY <1>5, <1>6

LEMMA DriveLeads ==
  ASSUME NEW p, IsPath(p), NEW a \in Rotations, NEW mode,
         NEW n \in 0..(Len(p) - 1)
  PROVE  Leads(At(p[1], a), Drive(p, a, mode)[n],
               At(p[n + 1], Heading(p, a, n)), Later(p))
<1> DEFINE D == Drive(p, a, mode)
           Good(i) ==
             /\ Leads(At(p[1], a), D[i], At(p[i + 1], Heading(p, a, i)), Later(p))
             /\ mode # FullDiscovery /\ i > 0 => EndsForward(D[i])
           S == {i \in Nat : i < Len(p) => Good(i)}
<1>1. Len(p) \in Nat \ {0}
  BY DEF IsPath
<1>2. /\ D[0] = <<>>
      /\ \A i \in 1..(Len(p) - 1) : D[i] = WithLeg(p, a, mode, D[i - 1], i)
  BY <1>1, DriveIs
<1> HIDE DEF D
<1>3. Good(0)
  <2>1. At(p[1], a) \in Rovers
    BY <1>1, PathTiles, AtIsRover
  <2>2. Heading(p, a, 0) = a
    BY DEF Heading
  <2>3. QED
    BY <1>2, <2>1, <2>2, LeadsNowhere
<1>4. ASSUME NEW i \in Nat, Good(i), i + 1 < Len(p) PROVE Good(i + 1)
  <2> DEFINE j == i + 1
  <2>1. j \in 1..(Len(p) - 1) /\ j - 1 = i
    BY <1>1, <1>4
  <2>2. D[j] = WithLeg(p, a, mode, D[j - 1], j)
    BY <1>2, <2>1
  <2> HIDE DEF j
  <2>3. /\ Leads(At(p[1], a), D[j - 1], At(p[j], Heading(p, a, j - 1)), Later(p))
        /\ mode # FullDiscovery /\ j > 1 => EndsForward(D[j - 1])
    BY <1>4, <2>1 DEF j
  <2>4. Good(j)
    BY <2>1, <2>2, <2>3, LegLeads
  <2>5. QED
    BY <2>4 DEF j
<1>5. 0 \in S
  BY <1>3
<1>6. ASSUME NEW i \in Nat, i \in S PROVE i + 1 \in S
  <2> HIDE DEF Good
  <2>1. QED
    BY <1>1, <1>4, <1>6
<1>7. n \in S
  <2> HIDE DEF S
  <2>1. Nat \subseteq S
    BY <1>5, <1>6, NatSetInduction
  <2>2. QED
    BY <1>1, <2>1
<1>8. QED
  BY <1>1, <1>7 DEF D

\* At the end of a discovery the rover turns to all sides.
LEMMA InstructionsLead ==
  ASSUME NEW p, IsPath(p), Len(p) > 1, NEW a \in Rotations, NEW mode
  PROVE  LET before == p[Len(p) - 1]
             last   == p[Len(p)]
             q      == At(last, Direction(before, last))
             s      == Instructions(p, a, mode)
         IN  /\ Leads(At(p[1], a), s, q, Later(p))
             /\ mode \in {FullDiscovery, DestinationDiscovery} =>
                  \E d : Leads(At(p[1], a), d, q, Later(p)) /\ s = d \o FullRotation
<1> DEFINE m == Len(p) - 1
           before == p[m]
           last == p[m + 1]
           q == At(last, Direction(before, last))
           s == Instructions(p, a, mode)
           D == Drive(p, a, mode)
           F == Later(p)
           rest == Rotate(mode, DestinationDiscovery)
<1>1. m \in Nat \ {0} /\ m + 1 = Len(p)
  BY DEF IsPath
<1>2. Heading(p, a, m) = Direction(before, last) /\ Heading(p, a, m) \in Rotations
  BY <1>1, HeadingType DEF Heading
<1>3. Leads(At(p[1], a), D[m], q, F)
  <2>1. Leads(At(p[1], a), D[m], At(p[m + 1], Heading(p, a, m)), F)
    <3>1. m \in 0..(Len(p) - 1)
      BY <1>1
    <3>2. QED
      BY <3>1, DriveLeads
  <2>2. QED
    BY <1>2, <2>1
<1>4. last \in Tiles /\ before \in Tiles
  BY <1>1, PathTiles
<1>5. Leads(q, rest, q, F)
  BY <1>2, <1>4, RotateLeads
<1>6. s = D[m] \o rest
  BY DEF Instructions
<1>7. ASSUME mode = FullDiscovery
      PROVE  \E d : Leads(At(p[1], a), d, q, F) /\ s = d \o FullRotation
  <2> DEFINE turns == Turns(Heading(p, a, m - 1), Heading(p, a, m))
             d == (D[m - 1] \o turns) \o <<Forward(1)>>
  <2>1. D[m] = d \o FullRotation
    <3>1. D[m] = WithLeg(p, a, mode, D[m - 1], m)
      BY <1>1, DriveIs
    <3>2. QED
      BY <1>7, <3>1 DEF WithLeg, Rotate
  <2>2. rest = <<>>
    BY <1>7 DEF Rotate, FullDiscovery, DestinationDiscovery
  <2>3. /\ Leads(At(p[1], a), D[m - 1], At(p[m], Heading(p, a, m - 1)), F)
        /\ Heading(p, a, m - 1) \in Rotations
    <3>1. m - 1 \in 0..(Len(p) - 1) /\ (m - 1) + 1 = m
      BY <1>1
    <3>2. QED
      BY <3>1, DriveLeads, HeadingType
  <2>4. Leads(At(p[m], Heading(p, a, m - 1)), turns, At(p[m], Heading(p, a, m)), F)
    BY <1>2, <1>4, <2>3, TurnsLead
  <2>5. Leads(At(p[m], Heading(p, a, m)), <<Forward(1)>>, q, F)
    <3>1. last \in Neighbours(before) /\ last \in F
      BY <1>1 DEF IsPath, Later
    <3>2. QED
      BY <1>2, <1>4, <3>1, OneForwardLeads
  <2>6. Leads(At(p[1], a), d, q, F)
    <3> HIDE DEF turns, F, q
    <3>1. Leads(At(p[1], a), D[m - 1] \o turns, At(p[m], Heading(p, a, m)), F)
      BY <2>3, <2>4, LeadsOn
    <3>2. QED
      BY <2>5, <3>1, LeadsOn
  <2>7. s = d \o FullRotation
    <3>1. d \o FullRotation \in Seq(Moves)
      BY <2>6, TurnsAreMoves, ConcatProperties DEF Leads
    <3> HIDE DEF d
    <3>2. (d \o FullRotation) \o <<>> = d \o FullRotation
      BY <3>1
    <3>3. QED
      BY <1>6, <2>1, <2>2, <3>2
  <2>8. QED
    BY <2>6, <2>7
<1>8. ASSUME mode = DestinationDiscovery
      PROVE  \E d : Leads(At(p[1], a), d, q, F) /\ s = d \o FullRotation
  <2>1. rest = FullRotation
    BY <1>8 DEF Rotate
  <2>2. QED
    BY <1>3, <1>6, <2>1
<1>9. Leads(At(p[1], a), s, q, F)
  BY <1>3, <1>5, <1>6, LeadsOn
<1>10. QED
  BY <1>1, <1>7, <1>8, <1>9

-----------------------------------------------------------------------------
(***************************************************************************)
(* ShortestPaths, the reference of the search.  Stage n of Nearest has the *)
(* walks of n steps that come to tiles no shorter walk comes to.           *)
(***************************************************************************)
LEMMA StaysIn ==
  ASSUME NEW V, NEW f, NEW m \in Nat, f[0] \in V,
         \A i \in 1..m : f[i - 1] \in V => f[i] \in V
  PROVE  \A i \in 0..m : f[i] \in V
<1> DEFINE S == {i \in Nat : i <= m => f[i] \in V}
<1>1. 0 \in S
  OBVIOUS
<1>2. ASSUME NEW i \in Nat, i \in S PROVE i + 1 \in S
  <2>1. SUFFICES ASSUME i + 1 <= m PROVE f[i + 1] \in V
    OBVIOUS
  <2>2. f[i] \in V /\ i + 1 \in 1..m /\ (i + 1) - 1 = i
    BY <1>2, <2>1
  <2>3. QED
    BY <2>2
<1> HIDE DEF S
<1>3. Nat \subseteq S
  BY <1>1, <1>2, NatSetInduction
<1>4. QED
  BY <1>3 DEF S

LEMMA FartherIsAppended ==
  ASSUME NEW map, NEW s \in Stages, NEW q \in Farther(map, s)
  PROVE  \E p \in s.paths : \E t \in FreeNeighbours(map, p[Len(p)]) :
           /\ p \in Seq(Tiles) /\ Len(p) \in Nat /\ t \in Tiles /\ t \notin s.near
           /\ q = Append(p, t) /\ q \in Seq(Tiles) /\ Len(q) = Len(p) + 1
           /\ q[Len(q)] = t /\ \A i \in 1..Len(p) : q[i] = p[i]
<1>1. PICK p \in s.paths : \E t \in FreeNeighbours(map, p[Len(p)]) \ s.near : q = Append(p, t)
  BY DEF Farther
<1>2. PICK t \in FreeNeighbours(map, p[Len(p)]) \ s.near : q = Append(p, t)
  BY <1>1
<1>3. p \in Seq(Tiles) /\ t \in Tiles
  BY <1>1, NeighboursAreTiles DEF Stages, FreeNeighbours
<1>4. /\ q \in Seq(Tiles) /\ Len(q) = Len(p) + 1 /\ q[Len(p) + 1] = t
      /\ \A i \in 1..Len(p) : q[i] = p[i]
  BY <1>2, <1>3, AppendProperties
<1>5. Len(p) \in Nat
  BY <1>3, LenProperties
<1>6. QED
  BY <1>1, <1>2, <1>3, <1>4, <1>5

\* What follows a stage.
NextStage(map, to, s) ==
  IF to \in s.near
  THEN s
  ELSE [paths |-> Farther(map, s),
        near  |-> s.near \cup {p[Len(p)] : p \in Farther(map, s)}]

LEMMA NextStageType ==
  ASSUME NEW map, NEW to, NEW s \in Stages
  PROVE  NextStage(map, to, s) \in Stages
<1>1. \A q \in Farther(map, s) : q \in Seq(Tiles) /\ q[Len(q)] \in Tiles
  BY FartherIsAppended
<1>2. s.near \subseteq Tiles
  BY DEF Stages
<1>3. Farther(map, s) \subseteq Seq(Tiles)
  BY <1>1
<1>4. s.near \cup {p[Len(p)] : p \in Farther(map, s)} \subseteq Tiles
  BY <1>1, <1>2
<1>5. QED
  BY <1>3, <1>4 DEF NextStage, Stages

LEMMA SizeSquared == Size * Size \in Nat /\ Size * Size > 0
BY SizeAssumption

LEMMA NearestIs ==
  ASSUME NEW map, NEW from \in Tiles, NEW to
  PROVE  LET N == Nearest(map, from, to)
         IN  /\ N[0] = [paths |-> {<<from>>}, near |-> {from}]
             /\ \A n \in 0..(Size * Size) : N[n] \in Stages
             /\ \A n \in 1..(Size * Size) : N[n] = NextStage(map, to, N[n - 1])
<1> DEFINE m == Size * Size
           c == [paths |-> {<<from>>}, near |-> {from}]
           N == Nearest(map, from, to)
           next == [s \in Stages |->
                      IF to \in s.near
                      THEN s
                      ELSE [paths |-> Farther(map, s),
                            near  |-> s.near \cup {p[Len(p)] : p \in Farther(map, s)}]]
           G == [i \in 1..m |-> next]
           Body(g) == [n \in 0..m |-> IF n = 0 THEN c ELSE next[g[n - 1]]]
<1>1. m \in Nat
  BY SizeSquared
<1>2. c \in Stages
  <2>1. <<from>> \in Seq(Tiles)
    OBVIOUS
  <2>2. QED
    BY <2>1 DEF Stages
<1>3. N = CHOOSE f : f = Body(f)
  BY DEF Nearest
<1>4. \A s \in Stages : next[s] = NextStage(map, to, s)
  BY DEF NextStage
<1>5. \A s \in Stages : next[s] \in Stages
  <2> HIDE DEF next
  <2>1. QED
    BY <1>4, NextStageType
<1>6. \A i \in 1..m : G[i] = next
  OBVIOUS
<1> HIDE DEF m, c, N, next, G
<1>7. StepsStay(Stages, m, G)
  BY <1>5, <1>6 DEF StepsStay
<1>8. PICK g : Iterates(g, Stages, c, m, G)
  BY <1>1, <1>2, <1>7, Iteration
<1>9. g = Body(g)
  BY <1>1, <1>6, <1>8 DEF Iterates
<1>10. N = Body(N)
  <2> HIDE DEF Body
  <2>1. QED
    BY <1>3, <1>9, Zenon
<1>11. N[0] = c /\ \A n \in 1..m : N[n] = next[N[n - 1]]
  <2> HIDE DEF Body
  <2>1. Body(N)[0] = c /\ \A n \in 1..m : Body(N)[n] = next[N[n - 1]]
    BY <1>1 DEF Body
  <2>2. QED
    BY <1>10, <2>1
<1>12. \A n \in 0..m : N[n] \in Stages
  <2>1. N[0] \in Stages /\ \A n \in 1..m : N[n - 1] \in Stages => N[n] \in Stages
    BY <1>2, <1>5, <1>11
  <2>2. QED
    BY <1>1, <2>1, StaysIn
<1>13. \A n \in 1..m : N[n] = NextStage(map, to, N[n - 1])
  <2>1. ASSUME NEW n \in 1..m PROVE N[n - 1] \in Stages
    BY <1>1, <1>12
  <2>2. QED
    BY <1>4, <1>11, <2>1
<1>14. QED
  BY <1>11, <1>12, <1>13 DEF m, c, N

\* A walk that enters no obstacle.
IsWalk(map, p) ==
  /\ p \in Seq(Tiles)
  /\ Len(p) \in Nat \ {0}
  /\ \A i \in 1..(Len(p) - 1) : p[i + 1] \in FreeNeighbours(map, p[i])

LEMMA WalkIsPath ==
  ASSUME NEW map, NEW p, IsWalk(map, p)
  PROVE  IsPath(p)
BY DEF IsWalk, IsPath, FreeNeighbours

LEMMA WalkTiles ==
  ASSUME NEW map, NEW p, IsWalk(map, p), NEW i \in 1..Len(p)
  PROVE  p[i] \in Tiles
BY WalkIsPath, PathTiles

\* The walks of stage n.
LEMMA NearestAreWalks ==
  ASSUME NEW map, NEW from \in Tiles, NEW to, NEW n \in 0..(Size * Size),
         NEW p \in Nearest(map, from, to)[n].paths
  PROVE  IsWalk(map, p) /\ p[1] = from
<1> DEFINE N == Nearest(map, from, to)
           Good(s) == \A q \in s.paths : IsWalk(map, q) /\ q[1] = from
           V == {s \in Stages : Good(s)}
<1>1. /\ N[0] = [paths |-> {<<from>>}, near |-> {from}]
      /\ \A i \in 0..(Size * Size) : N[i] \in Stages
      /\ \A i \in 1..(Size * Size) : N[i] = NextStage(map, to, N[i - 1])
  BY NearestIs
<1> HIDE DEF N
<1>2. N[0] \in V
  <2>1. IsWalk(map, <<from>>) /\ <<from>>[1] = from
    BY DEF IsWalk
  <2>2. 0 \in 0..(Size * Size)
    BY SizeSquared
  <2>3. QED
    BY <1>1, <2>1, <2>2
<1>3. ASSUME NEW i \in 1..(Size * Size), N[i - 1] \in V
      PROVE  N[i] \in V
  <2> DEFINE s == N[i - 1]
  <2>1. s \in Stages /\ Good(s) /\ N[i] = NextStage(map, to, s) /\ N[i] \in Stages
    BY <1>1, <1>3, SizeSquared
  <2> HIDE DEF s
  <2>2. CASE to \in s.near
    BY <2>1, <2>2 DEF NextStage
  <2>3. CASE to \notin s.near
    <3>1. ASSUME NEW q \in Farther(map, s)
          PROVE  IsWalk(map, q) /\ q[1] = from
      <4>0. PICK w \in s.paths :
              \E t \in FreeNeighbours(map, w[Len(w)]) :
                /\ q \in Seq(Tiles) /\ Len(q) = Len(w) + 1
                /\ q[Len(q)] = t /\ \A k \in 1..Len(w) : q[k] = w[k]
        BY <2>1, FartherIsAppended
      <4>1. PICK t \in FreeNeighbours(map, w[Len(w)]) :
              /\ q \in Seq(Tiles) /\ Len(q) = Len(w) + 1
              /\ q[Len(q)] = t /\ \A k \in 1..Len(w) : q[k] = w[k]
        BY <4>0
      <4>2. IsWalk(map, w) /\ w[1] = from /\ Len(w) \in Nat \ {0}
        BY <2>1 DEF IsWalk
      <4>3. ASSUME NEW k \in 1..(Len(q) - 1)
            PROVE  q[k + 1] \in FreeNeighbours(map, q[k])
        <5>1. CASE k = Len(w)
          BY <4>1, <4>2, <5>1
        <5>2. CASE k # Len(w)
          <6>1. k \in 1..(Len(w) - 1) /\ k \in 1..Len(w) /\ k + 1 \in 1..Len(w)
            BY <4>1, <4>2, <5>2
          <6>2. QED
            BY <4>1, <4>2, <6>1 DEF IsWalk
        <5>3. QED
          BY <5>1, <5>2
      <4>4. QED
        BY <4>1, <4>2, <4>3 DEF IsWalk
    <3>2. N[i].paths = Farther(map, s)
      BY <2>1, <2>3 DEF NextStage
    <3>3. QED
      BY <2>1, <3>1, <3>2
  <2>4. QED
    BY <2>2, <2>3
<1> HIDE DEF V
<1>4. N[n] \in V
  BY <1>2, <1>3, SizeSquared, StaysIn
<1>5. QED
  BY <1>4 DEF V, N

LEMMA ShortestPathsAreWalks ==
  ASSUME NEW map, NEW from \in Tiles, NEW to, NEW p \in ShortestPaths(map, from, to)
  PROVE  IsWalk(map, p) /\ p[1] = from /\ p[Len(p)] = to /\ Len(p) > 1
<1>1. from # to /\ p \in Nearest(map, from, to)[Size * Size].paths /\ p[Len(p)] = to
  BY DEF ShortestPaths
<1>2. IsWalk(map, p) /\ p[1] = from
  BY <1>1, NearestAreWalks, SizeSquared
<1>3. Len(p) > 1
  BY <1>1, <1>2 DEF IsWalk
<1>4. QED
  BY <1>1, <1>2, <1>3

\* A set that no walk leaves.
LEMMA NoPathOut ==
  ASSUME NEW map, NEW from \in Tiles, NEW to,
         NEW S \in SUBSET Tiles, from \in S, to \notin S,
         \A t \in S : FreeNeighbours(map, t) \subseteq S
  PROVE  ShortestPaths(map, from, to) = {}
<1>1. SUFFICES ASSUME NEW p \in ShortestPaths(map, from, to) PROVE FALSE
  OBVIOUS
<1>2. IsWalk(map, p) /\ p[1] = from /\ p[Len(p)] = to /\ Len(p) \in Nat \ {0}
  BY <1>1, ShortestPathsAreWalks DEF IsWalk
<1> DEFINE f == [i \in 0..(Len(p) - 1) |-> p[i + 1]]
           m == Len(p) - 1
<1>3. m \in Nat /\ f[0] \in S /\ f[m] = to
  BY <1>2
<1>4. ASSUME NEW i \in 1..m, f[i - 1] \in S PROVE f[i] \in S
  <2>1. p[i] \in S /\ f[i] = p[i + 1]
    BY <1>2, <1>4
  <2>2. p[i + 1] \in FreeNeighbours(map, p[i])
    BY <1>2 DEF IsWalk
  <2>3. QED
    BY <2>1, <2>2
<1> HIDE DEF f, m
<1>5. \A i \in 0..m : f[i] \in S
  BY <1>3, <1>4, StaysIn
<1>6. QED
  BY <1>3, <1>5

LEMMA Rising ==
  ASSUME NEW m \in Nat, NEW f, \A i \in 0..m : f[i] \in Int,
         \A i \in 1..m : f[i - 1] <= f[i],
         NEW k \in 0..m, NEW j \in k..m
  PROVE  f[k] <= f[j]
<1> DEFINE S == {n \in Nat : k <= n /\ n <= m => f[k] <= f[n]}
<1>1. 0 \in S
  OBVIOUS
<1>2. ASSUME NEW n \in Nat, n \in S PROVE n + 1 \in S
  <2>1. SUFFICES ASSUME k <= n + 1, n + 1 <= m PROVE f[k] <= f[n + 1]
    OBVIOUS
  <2>2. CASE k = n + 1
    BY <2>1, <2>2
  <2>3. CASE k <= n
    <3>1. f[k] <= f[n] /\ n + 1 \in 1..m /\ (n + 1) - 1 = n
      BY <1>2, <2>1, <2>3
    <3>2. f[n] <= f[n + 1]
      BY <3>1
    <3>3. f[k] \in Int /\ f[n] \in Int /\ f[n + 1] \in Int
      BY <2>1, <2>3
    <3>4. QED
      BY <3>1, <3>2, <3>3
  <2>4. QED
    BY <2>1, <2>2, <2>3
<1> HIDE DEF S
<1>3. j \in S
  BY <1>1, <1>2, NatSetInduction
<1>4. QED
  BY <1>3 DEF S

\* A bound from below on the steps of a walk to a tile.
IsPotential(map, from, D) ==
  /\ D \in [Tiles -> Int]
  /\ D[from] = 0
  /\ \A t \in Tiles : \A u \in FreeNeighbours(map, t) : D[u] <= D[t] + 1

LEMMA NearestIsNear ==
  ASSUME NEW map, NEW from \in Tiles, NEW to, NEW D, IsPotential(map, from, D),
         NEW n \in 0..(Size * Size), NEW t \in Nearest(map, from, to)[n].near
  PROVE  D[t] <= n
<1> DEFINE N == Nearest(map, from, to)
           m == Size * Size
           Good(i) ==
             /\ \A u \in N[i].near : D[u] <= i
             /\ \A p \in N[i].paths : p[Len(p)] \in Tiles /\ D[p[Len(p)]] <= i
           S == {i \in Nat : i <= m => Good(i)}
<1>1. /\ N[0] = [paths |-> {<<from>>}, near |-> {from}]
      /\ \A i \in 0..m : N[i] \in Stages
      /\ \A i \in 1..m : N[i] = NextStage(map, to, N[i - 1])
  BY NearestIs
<1>2. m \in Nat
  BY SizeSquared
<1> HIDE DEF N, m
<1>3. 0 \in S
  BY <1>1 DEF IsPotential
<1>4. ASSUME NEW i \in Nat, i \in S PROVE i + 1 \in S
  <2>1. SUFFICES ASSUME i + 1 <= m PROVE Good(i + 1)
    OBVIOUS
  <2> DEFINE s == N[i]
  <2>2. Good(i) /\ s \in Stages /\ N[i + 1] = NextStage(map, to, s)
    <3>1. i \in 0..m /\ i + 1 \in 1..m /\ (i + 1) - 1 = i
      BY <1>2, <2>1
    <3>2. QED
      BY <1>1, <1>4, <3>1
  <2>3. \A u \in Tiles : D[u] \in Int
    BY DEF IsPotential
  <2>4. s.near \subseteq Tiles
    BY <2>2 DEF Stages
  <2> HIDE DEF s
  <2>5. \A u \in s.near : D[u] <= i + 1
    BY <2>2, <2>3, <2>4 DEF s
  <2>6. CASE to \in s.near
    <3>1. N[i + 1] = s
      BY <2>2, <2>6 DEF NextStage
    <3>2. \A p \in s.paths : p[Len(p)] \in Tiles /\ D[p[Len(p)]] <= i + 1
      BY <2>2, <2>3 DEF s
    <3>3. QED
      BY <2>5, <3>1, <3>2
  <2>7. CASE to \notin s.near
    <3>1. N[i + 1] = [paths |-> Farther(map, s),
                      near |-> s.near \cup {p[Len(p)] : p \in Farther(map, s)}]
      BY <2>2, <2>7 DEF NextStage
    <3>2. ASSUME NEW q \in Farther(map, s)
          PROVE  q[Len(q)] \in Tiles /\ D[q[Len(q)]] <= i + 1
      <4>1. PICK p \in s.paths :
              \E u \in FreeNeighbours(map, p[Len(p)]) : u \in Tiles /\ q[Len(q)] = u
        BY <2>2, FartherIsAppended
      <4>2. PICK u \in FreeNeighbours(map, p[Len(p)]) : u \in Tiles /\ q[Len(q)] = u
        BY <4>1
      <4>3. p[Len(p)] \in Tiles /\ D[p[Len(p)]] <= i
        BY <2>2 DEF s
      <4>4. D[u] <= D[p[Len(p)]] + 1
        BY <4>2, <4>3 DEF IsPotential
      <4>5. QED
        BY <2>3, <4>2, <4>3, <4>4
    <3>3. QED
      BY <2>5, <3>1, <3>2
  <2>8. QED
    BY <2>6, <2>7
<1> HIDE DEF S
<1>5. n \in S
  BY <1>2, <1>3, <1>4, NatSetInduction DEF m
<1>6. QED
  BY <1>5 DEF S, N, m

\* A walk of no more steps than there must be is a shortest path.
LEMMA ShortestWalk ==
  ASSUME NEW map, NEW from \in Tiles, NEW to \in Tiles, from # to,
         NEW D, IsPotential(map, from, D),
         NEW p, IsWalk(map, p), p[1] = from, p[Len(p)] = to,
         Len(p) = D[to] + 1, D[to] <= Size * Size
  PROVE  p \in ShortestPaths(map, from, to)
<1> DEFINE N == Nearest(map, from, to)
           m == Size * Size
           L == Len(p) - 1
<1>1. /\ N[0] = [paths |-> {<<from>>}, near |-> {from}]
      /\ \A i \in 0..m : N[i] \in Stages
      /\ \A i \in 1..m : N[i] = NextStage(map, to, N[i - 1])
  BY ONLY NearestIs, from \in Tiles
<1>2. /\ p \in Seq(Tiles) /\ Len(p) \in Nat \ {0}
      /\ L \in Nat /\ m \in Nat /\ Len(p) = L + 1 /\ D[to] = L /\ L <= m
  BY SizeSquared DEF IsWalk, IsPotential
<1>3. \A u \in Tiles : D[u] \in Int
  BY DEF IsPotential
<1>4. \A i \in 1..(L + 1) : p[i] \in Tiles
  BY <1>2, WalkTiles
<1>5. L > 0
  BY <1>2
<1>6. \A n \in 0..m : \A t \in N[n].near : D[t] <= n
  BY NearestIsNear
<1> HIDE DEF N, m, L
<1>7. \A n \in 0..L : D[p[n + 1]] = n
  <2> DEFINE f == [n \in 0..L |-> n - D[p[n + 1]]]
  <2>1. \A n \in 0..L : p[n + 1] \in Tiles /\ D[p[n + 1]] \in Int /\ f[n] \in Int
    BY <1>2, <1>3, <1>4
  <2>2. ASSUME NEW n \in 1..L PROVE f[n - 1] <= f[n]
    <3>1. n \in 1..(Len(p) - 1) /\ n - 1 \in 0..L /\ n \in 0..L /\ (n - 1) + 1 = n
      BY <1>2
    <3>2. p[n + 1] \in FreeNeighbours(map, p[n]) /\ p[n] \in Tiles
      BY <1>4, <1>2, <3>1 DEF IsWalk
    <3>3. D[p[n + 1]] <= D[p[n]] + 1
      BY <3>2 DEF IsPotential
    <3>4. D[p[n]] \in Int /\ D[p[n + 1]] \in Int
      BY <2>1, <3>1, <3>2, <1>3
    <3>5. f[n - 1] = (n - 1) - D[p[n]] /\ f[n] = n - D[p[n + 1]]
      BY <3>1
    <3>6. QED
      BY <3>3, <3>4, <3>5
  <2>3. f[0] = 0 /\ f[L] = 0
    BY <1>2, <1>3 DEF IsPotential
  <2>4. ASSUME NEW n \in 0..L PROVE f[n] = 0
    <3> HIDE DEF f
    <3>1. 0 \in 0..L /\ L \in 0..L /\ n \in 0..L /\ L \in n..L
      BY <1>2
    <3>2. f[0] <= f[n]
      BY <1>2, <2>1, <2>2, <3>1, Rising
    <3>3. f[n] <= f[L]
      BY <1>2, <2>1, <2>2, <3>1, Rising
    <3>4. QED
      BY <2>1, <2>3, <3>2, <3>3
  <2>5. QED
    BY <2>1, <2>4
<1> DEFINE Prefix(n) == SubSeq(p, 1, n + 1)
<1>8. ASSUME NEW n \in 0..L
      PROVE  /\ Prefix(n) \in Seq(Tiles) /\ Len(Prefix(n)) = n + 1
             /\ Prefix(n)[n + 1] = p[n + 1]
  <2>1. \A i \in 1..(n + 1) : p[i] \in Tiles
    BY <1>2, <1>4
  <2>2. QED
    BY <2>1, SubSeqProperties
<1>9. ASSUME NEW n \in Nat, n < L, Prefix(n) \in N[n].paths
      PROVE  to \notin N[n].near /\ Prefix(n + 1) \in Farther(map, N[n])
  <2>1. n \in 0..m /\ n \in 0..L /\ n + 1 \in 0..L /\ n + 1 \in 1..L
    BY <1>2, <1>9
  <2>2. to \notin N[n].near
    BY <1>2, <1>6, <1>9, <2>1
  <2>3. p[n + 2] \notin N[n].near
    <3>1. D[p[n + 2]] = n + 1
      BY <1>7, <2>1
    <3>2. QED
      BY <1>6, <2>1, <3>1
  <2>4. p[n + 2] \in FreeNeighbours(map, p[n + 1])
    <3>1. n + 1 \in 1..(Len(p) - 1) /\ (n + 1) + 1 = n + 2
      BY <1>2, <2>1
    <3>2. QED
      BY <3>1 DEF IsWalk
  <2>5. Prefix(n + 1) = Append(Prefix(n), p[n + 2])
    <3>1. SubSeq(p, 1, n + 2) = SubSeq(p, 1, (n + 2) - 1) \o <<p[n + 2]>>
      <4>1. 1 \in 1..Len(p) /\ n + 2 \in 1..Len(p)
        BY <1>2, <2>1
      <4>2. QED
        BY <1>2, <4>1, SubSeqRecursiveSecond
    <3>2. (n + 2) - 1 = n + 1 /\ (n + 1) + 1 = n + 2
      BY <2>1
    <3>3. Append(Prefix(n), p[n + 2]) = Prefix(n) \o <<p[n + 2]>>
      BY <1>2, <1>4, <1>8, <2>1, AppendIsConcat
    <3>4. QED
      BY <3>1, <3>2, <3>3
  <2>6. Prefix(n)[Len(Prefix(n))] = p[n + 1]
    BY <1>8, <2>1
  <2> HIDE DEF Prefix
  <2>7. QED
    BY <1>9, <2>2, <2>3, <2>4, <2>5, <2>6 DEF Farther
<1>10. \A n \in 0..L : Prefix(n) \in N[n].paths
  <2> DEFINE S == {n \in Nat : n <= L => Prefix(n) \in N[n].paths}
  <2>1. 0 \in S
    <3>1. Prefix(0) = <<p[1]>>
      <4>1. Prefix(0) \in Seq(Tiles) /\ Len(Prefix(0)) = 1 /\ Prefix(0)[1] = p[1]
        BY <1>2, <1>8
      <4> HIDE DEF Prefix
      <4>2. <<p[1]>> \in Seq(Tiles)
        BY <1>4, <1>2
      <4>3. QED
        BY <4>1, <4>2, SeqEqual
    <3>2. Prefix(0) \in N[0].paths
      <4> HIDE DEF Prefix
      <4>1. QED
        BY <1>1, <3>1
    <3>3. QED
      BY <3>2
  <2>2. ASSUME NEW n \in Nat, n \in S PROVE n + 1 \in S
    <3>1. SUFFICES ASSUME n + 1 <= L PROVE Prefix(n + 1) \in N[n + 1].paths
      OBVIOUS
    <3>2. Prefix(n) \in N[n].paths /\ n < L
      BY <1>2, <2>2, <3>1
    <3>3. to \notin N[n].near /\ Prefix(n + 1) \in Farther(map, N[n])
      BY <1>9, <3>2
    <3>4. N[n + 1] = NextStage(map, to, N[n])
      <4>1. n + 1 \in 1..m /\ (n + 1) - 1 = n
        BY <1>2, <3>1
      <4>2. QED
        BY <1>1, <4>1
    <3> HIDE DEF Prefix
    <3>5. QED
      BY <3>3, <3>4 DEF NextStage
  <2> HIDE DEF S
  <2>3. Nat \subseteq S
    BY <2>1, <2>2, NatSetInduction
  <2>4. QED
    BY <2>3 DEF S
<1>11. p \in N[L].paths /\ to \in N[L].near
  <2>1. Prefix(L) = p
    BY <1>2, SubSeqFull
  <2>2. L - 1 \in Nat /\ L - 1 < L /\ L \in 1..m /\ L - 1 \in 0..L /\ L \in 0..L
    BY <1>2, <1>5
  <2>3. to \notin N[L - 1].near /\ Prefix((L - 1) + 1) \in Farther(map, N[L - 1])
    BY <1>9, <1>10, <2>2
  <2>4. (L - 1) + 1 = L
    BY <1>2
  <2>5. p \in Farther(map, N[L - 1])
    BY <2>1, <2>3, <2>4
  <2>6. N[L] = NextStage(map, to, N[L - 1])
    BY <1>1, <2>2
  <2>7. QED
    BY <2>3, <2>5, <2>6 DEF NextStage
<1>12. N[m] = N[L]
  <2> DEFINE f == [n \in 0..(m - L) |-> N[L + n]]
             V == {N[L]}
             k == m - L
  <2>1. k \in Nat /\ f[0] \in V /\ f[k] = N[m]
    BY <1>2
  <2>2. ASSUME NEW i \in 1..k, f[i - 1] \in V PROVE f[i] \in V
    <3>1. f[i - 1] = N[L + i - 1] /\ f[i] = N[L + i]
      BY <1>2, <2>1
    <3>2. N[L + i] = NextStage(map, to, N[L + i - 1])
      <4>1. L + i \in 1..m /\ (L + i) - 1 = L + i - 1
        BY <1>2, <2>1
      <4>2. QED
        BY <1>1, <4>1
    <3>3. N[L + i - 1] = N[L]
      BY <2>2, <3>1
    <3>4. NextStage(map, to, N[L]) = N[L]
      BY <1>11 DEF NextStage
    <3>5. QED
      BY <3>1, <3>2, <3>3, <3>4
  <2> HIDE DEF f, V, k
  <2>3. \A i \in 0..k : f[i] \in V
    BY <2>1, <2>2, StaysIn
  <2>4. QED
    BY <2>1, <2>3 DEF V
<1>13. QED
  BY <1>11, <1>12 DEF ShortestPaths, N, m

=============================================================================
