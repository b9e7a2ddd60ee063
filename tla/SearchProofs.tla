------------------------------ MODULE SearchProofs ------------------------------
(***************************************************************************)
(* The search of the server, for every size of the map: its heap stays in  *)
(* order, the scores of visited nodes are final, it returns a shortest     *)
(* path; and the instructions made of that path bring the rover to its     *)
(* destination, past all obstacles and with a look around.                 *)
(***************************************************************************)
EXTENDS MCPlans, PlanProofs, FiniteSetTheorems

-----------------------------------------------------------------------------
(***************************************************************************)
(* A loop that takes at most m steps to where it stays.                    *)
(***************************************************************************)
Terminates(L, V, m, next, mu) ==
  /\ L[0] \in V
  /\ \A n \in 1..m : L[n] = next[L[n - 1]]
  /\ \A v \in V : next[v] \in V
  /\ \A v \in V : mu[v] \in Nat
  /\ \A v \in V : next[v] = v \/ mu[next[v]] < mu[v]
  /\ mu[L[0]] <= m

LEMMA LoopEnds ==
  ASSUME NEW L, NEW V, NEW m \in Nat, NEW next, NEW mu, Terminates(L, V, m, next, mu)
  PROVE  L[m] \in V /\ next[L[m]] = L[m]
<1> USE DEF Terminates
<1>1. \A n \in 0..m : L[n] \in V
  BY StaysIn
<1> DEFINE Good(n) == next[L[n]] = L[n] \/ mu[L[n]] + n <= m
           S == {n \in Nat : n <= m => Good(n)}
<1>2. 0 \in S
  OBVIOUS
<1>3. ASSUME NEW n \in Nat, n \in S PROVE n + 1 \in S
  <2>1. SUFFICES ASSUME n + 1 <= m PROVE Good(n + 1)
    OBVIOUS
  <2>2. Good(n) /\ L[n + 1] = next[L[n]] /\ L[n] \in V /\ L[n + 1] \in V
    <3>1. n \in 0..m /\ n + 1 \in 0..m /\ n + 1 \in 1..m /\ (n + 1) - 1 = n
      BY <2>1
    <3>2. QED
      BY <1>1, <1>3, <3>1
  <2>3. CASE next[L[n]] = L[n]
    BY <2>2, <2>3
  <2>4. CASE next[L[n]] # L[n]
    <3>1. mu[L[n]] + n <= m /\ mu[L[n + 1]] < mu[L[n]]
      BY <2>2, <2>4
    <3>2. mu[L[n]] \in Nat /\ mu[L[n + 1]] \in Nat
      BY <2>2
    <3>3. QED
      BY <3>1, <3>2
  <2>5. QED
    BY <2>3, <2>4
<1> HIDE DEF S
<1>4. m \in S
  BY <1>2, <1>3, NatSetInduction
<1>5. Good(m) /\ L[m] \in V /\ mu[L[m]] \in Nat
  BY <1>1, <1>4 DEF S
<1>6. CASE mu[L[m]] + m <= m
  <2>1. mu[L[m]] = 0
    BY <1>5, <1>6
  <2>2. mu[next[L[m]]] \in Nat
    BY <1>5
  <2>3. QED
    BY <1>5, <2>1, <2>2
<1>7. QED
  BY <1>5, <1>6

-----------------------------------------------------------------------------
(***************************************************************************)
(* The heap: its nodes are tiles with an id each, and its table tells the  *)
(* position of each.                                                       *)
(***************************************************************************)
Tables == UNION {[D -> Nat] : D \in SUBSET {Id(t) : t \in Tiles}}

Heaps == [nodes : Seq(Tiles), positions : Tables]

Held(q) == {q.nodes[i] : i \in 1..Len(q.nodes)}

IsHeap(q) ==
  /\ q \in Heaps
  /\ \A i, j \in 1..Len(q.nodes) : Id(q.nodes[i]) = Id(q.nodes[j]) => i = j
  /\ DOMAIN q.positions = {Id(q.nodes[i]) : i \in 1..Len(q.nodes)}
  /\ \A i \in 1..Len(q.nodes) : q.positions[Id(q.nodes[i])] = i

Ordered(q, f) ==
  \A i \in 2..Len(q.nodes) : f[q.nodes[i \div 2]] <= f[q.nodes[i]]

LEMMA HeapNodes ==
  ASSUME NEW q, IsHeap(q)
  PROVE  /\ q.nodes \in Seq(Tiles) /\ Len(q.nodes) \in Nat
         /\ \A i \in 1..Len(q.nodes) : q.nodes[i] \in Tiles
         /\ Held(q) \subseteq Tiles
<1>1. q.nodes \in Seq(Tiles)
  BY DEF IsHeap, Heaps
<1>2. Len(q.nodes) \in Nat /\ \A i \in 1..Len(q.nodes) : q.nodes[i] \in Tiles
  BY <1>1, LenProperties, ElementOfSeq
<1>3. QED
  BY <1>1, <1>2 DEF Held

LEMMA SwapIs ==
  ASSUME NEW q, IsHeap(q), NEW i \in 1..Len(q.nodes), NEW j \in 1..Len(q.nodes)
  PROVE  LET r == Swap(q, i, j)
         IN  /\ IsHeap(r) /\ Held(r) = Held(q) /\ Len(r.nodes) = Len(q.nodes)
             /\ r.nodes[i] = q.nodes[j] /\ r.nodes[j] = q.nodes[i]
             /\ \A k \in 1..Len(q.nodes) : k # i /\ k # j => r.nodes[k] = q.nodes[k]
<1> DEFINE s == q.nodes
           p == q.positions
           n == Len(s)
           u == [s EXCEPT ![i] = s[j], ![j] = s[i]]
           v == Put(Put(p, Id(s[i]), j), Id(s[j]), i)
           r == Swap(q, i, j)
<1>1. /\ s \in Seq(Tiles) /\ n \in Nat /\ s[i] \in Tiles /\ s[j] \in Tiles
      /\ \A k \in 1..n : s[k] \in Tiles
  BY HeapNodes
<1>2. r = [nodes |-> u, positions |-> v] /\ r.nodes = u /\ r.positions = v
  BY DEF Swap
<1>3. /\ u \in Seq(Tiles) /\ Len(u) = n
      /\ u[i] = s[j] /\ u[j] = s[i]
      /\ \A k \in 1..n : k # i /\ k # j => u[k] = s[k]
  <2> DEFINE w == [s EXCEPT ![i] = s[j]]
  <2>1. /\ w \in Seq(Tiles) /\ Len(w) = n
        /\ \A k \in 1..n : w[k] = IF k = i THEN s[j] ELSE s[k]
    BY <1>1, ExceptSeq
  <2>2. u = [w EXCEPT ![j] = s[i]]
    OBVIOUS
  <2> HIDE DEF w, u
  <2>3. /\ u \in Seq(Tiles) /\ Len(u) = n
        /\ \A k \in 1..n : u[k] = IF k = j THEN s[i] ELSE w[k]
    BY <1>1, <2>1, <2>2, ExceptSeq
  <2>4. QED
    BY <2>1, <2>3
<1>4. /\ \A k, l \in 1..n : Id(s[k]) = Id(s[l]) => k = l
      /\ DOMAIN p = {Id(s[k]) : k \in 1..n}
      /\ \A k \in 1..n : p[Id(s[k])] = k
      /\ p \in Tables
  BY DEF IsHeap, Heaps
<1>5. /\ DOMAIN v = DOMAIN p
      /\ v[Id(s[j])] = i
      /\ v[Id(s[i])] = j
      /\ \A x \in DOMAIN p : x # Id(s[i]) /\ x # Id(s[j]) => v[x] = p[x]
      /\ v = [x \in DOMAIN p |-> v[x]]
  <2> DEFINE w == Put(p, Id(s[i]), j)
  <2>1. Id(s[i]) \in DOMAIN p /\ Id(s[j]) \in DOMAIN p
    BY <1>4
  <2>2. /\ w = [x \in DOMAIN p |-> w[x]] /\ w[Id(s[i])] = j
        /\ \A x \in DOMAIN p : x # Id(s[i]) => w[x] = p[x]
    BY <2>1 DEF Put
  <2> HIDE DEF w
  <2>3. /\ v = [x \in DOMAIN p |-> v[x]] /\ v[Id(s[j])] = i
        /\ \A x \in DOMAIN p : x # Id(s[j]) => v[x] = w[x]
    BY <2>1, <2>2 DEF Put, w
  <2>4. v[Id(s[i])] = j
    <3>1. CASE Id(s[i]) = Id(s[j])
      BY <1>4, <2>3, <3>1
    <3>2. CASE Id(s[i]) # Id(s[j])
      BY <2>1, <2>2, <2>3, <3>2
    <3>3. QED
      BY <3>1, <3>2
  <2>5. DOMAIN v = DOMAIN p
    BY <2>3
  <2> HIDE DEF v
  <2>6. QED
    BY <2>1, <2>2, <2>3, <2>4, <2>5
<1> HIDE DEF u, v, r
<1>6. {u[k] : k \in 1..n} = {s[k] : k \in 1..n}
  BY <1>3
<1>7. {Id(u[k]) : k \in 1..n} = {Id(s[k]) : k \in 1..n}
  BY <1>3
<1>8. \A k \in 1..n : v[Id(u[k])] = k
  <2>1. ASSUME NEW k \in 1..n PROVE v[Id(u[k])] = k
    <3>1. CASE k = i
      BY <1>3, <1>5, <3>1
    <3>2. CASE k = j
      BY <1>3, <1>5, <3>2
    <3>3. CASE k # i /\ k # j
      <4>1. u[k] = s[k] /\ Id(s[k]) # Id(s[i]) /\ Id(s[k]) # Id(s[j])
        BY <1>3, <1>4, <3>3
      <4>2. QED
        BY <1>4, <1>5, <4>1
    <3>4. QED
      BY <3>1, <3>2, <3>3
  <2>2. QED
    BY <2>1
<1>9. \A k, l \in 1..n : Id(u[k]) = Id(u[l]) => k = l
  BY <1>8
<1>10. v \in Tables
  <2>1. DOMAIN p \in SUBSET {Id(t) : t \in Tiles}
    BY <1>1, <1>4
  <2>2. \A x \in DOMAIN p : v[x] \in Nat
    BY <1>3, <1>4, <1>7, <1>8
  <2>3. v \in [DOMAIN p -> Nat]
    BY <1>5, <2>2
  <2>4. QED
    BY <2>1, <2>3 DEF Tables
<1>11. IsHeap(r)
  <2>1. r \in Heaps
    BY <1>2, <1>3, <1>10 DEF Heaps
  <2>2. DOMAIN v = {Id(u[k]) : k \in 1..n}
    BY <1>4, <1>5, <1>7
  <2>3. QED
    BY <1>2, <1>3, <1>8, <1>9, <2>1, <2>2 DEF IsHeap
<1>12. Held(r) = Held(q)
  BY <1>2, <1>3, <1>6 DEF Held
<1>13. QED
  BY <1>2, <1>3, <1>11, <1>12 DEF r

-----------------------------------------------------------------------------
(***************************************************************************)
(* A node that is moved up: all but it and its parent are in order.        *)
(***************************************************************************)
Scores(f) == \A t \in Tiles : f[t] \in Int

Places(q) ==
  {s \in [q : Heaps, i : Nat] :
     /\ IsHeap(s.q) /\ Held(s.q) = Held(q) /\ Len(s.q.nodes) = Len(q.nodes)
     /\ s.i \in 1..Len(q.nodes)}

OrderedButUp(s, f) ==
  \A j \in 2..Len(s.q.nodes) :
    /\ j # s.i => f[s.q.nodes[j \div 2]] <= f[s.q.nodes[j]]
    /\ j \div 2 = s.i /\ s.i > 1 => f[s.q.nodes[s.i \div 2]] <= f[s.q.nodes[j]]

OrderedButDown(s, f) ==
  \A j \in 2..Len(s.q.nodes) :
    /\ j \div 2 # s.i => f[s.q.nodes[j \div 2]] <= f[s.q.nodes[j]]
    /\ j \div 2 = s.i /\ s.i > 1 => f[s.q.nodes[s.i \div 2]] <= f[s.q.nodes[j]]

LEMMA Parent ==
  ASSUME NEW j \in Nat, j >= 2
  PROVE  j \div 2 \in 1..(j - 1)
OBVIOUS

LEMMA Children ==
  ASSUME NEW i \in Nat, NEW j \in Nat
  PROVE  /\ j \div 2 = i <=> j = 2 * i \/ j = 2 * i + 1
         /\ (2 * i) \div 2 = i /\ (2 * i + 1) \div 2 = i
OBVIOUS

LEMMA MovedIs ==
  ASSUME NEW q, NEW s \in Places(q), NEW k \in 1..Len(q.nodes)
  PROVE  /\ Moved(s, k) \in Places(q) /\ Moved(s, k).i = k
         /\ Moved(s, k).q.nodes[s.i] = s.q.nodes[k]
         /\ Moved(s, k).q.nodes[k] = s.q.nodes[s.i]
         /\ \A j \in 1..Len(q.nodes) :
              j # s.i /\ j # k => Moved(s, k).q.nodes[j] = s.q.nodes[j]
<1> DEFINE r == Swap(s.q, s.i, k)
<1>1. /\ IsHeap(s.q) /\ Held(s.q) = Held(q) /\ Len(s.q.nodes) = Len(q.nodes)
      /\ s.i \in 1..Len(s.q.nodes) /\ k \in 1..Len(s.q.nodes)
  BY DEF Places
<1>2. /\ IsHeap(r) /\ Held(r) = Held(s.q) /\ Len(r.nodes) = Len(s.q.nodes)
      /\ r.nodes[s.i] = s.q.nodes[k] /\ r.nodes[k] = s.q.nodes[s.i]
      /\ \A j \in 1..Len(s.q.nodes) : j # s.i /\ j # k => r.nodes[j] = s.q.nodes[j]
  BY <1>1, SwapIs
<1>3. Moved(s, k) = [q |-> r, i |-> k]
  BY DEF Moved
<1>4. r \in Heaps /\ k \in Nat
  BY <1>2, HeapNodes DEF IsHeap
<1> HIDE DEF r
<1>5. Moved(s, k) \in Places(q)
  BY <1>1, <1>2, <1>3, <1>4 DEF Places
<1>6. QED
  BY <1>1, <1>2, <1>3, <1>5

LEMMA PlaceNodes ==
  ASSUME NEW q, NEW s \in Places(q), NEW f, Scores(f)
  PROVE  /\ Len(q.nodes) \in Nat /\ Len(s.q.nodes) = Len(q.nodes)
         /\ s.i \in 1..Len(q.nodes)
         /\ \A j \in 1..Len(q.nodes) : f[s.q.nodes[j]] \in Int
         /\ \A j \in 2..Len(q.nodes) : j \div 2 \in 1..(j - 1) /\ j \div 2 \in 1..Len(q.nodes)
<1>1. IsHeap(s.q) /\ Len(s.q.nodes) = Len(q.nodes) /\ s.i \in 1..Len(q.nodes)
  BY DEF Places
<1>2. Len(q.nodes) \in Nat /\ \A j \in 1..Len(q.nodes) : s.q.nodes[j] \in Tiles
  BY <1>1, HeapNodes
<1>3. QED
  BY <1>1, <1>2, Parent DEF Scores

LEMMA StepUpOrders ==
  ASSUME NEW q, NEW s \in Places(q), NEW f, Scores(f), OrderedButUp(s, f)
  PROVE  /\ StepUp(s, f) \in Places(q) /\ OrderedButUp(StepUp(s, f), f)
         /\ StepUp(s, f) = s \/ StepUp(s, f).i < s.i
         /\ StepUp(s, f) = s => Ordered(s.q, f)
<1> DEFINE n == Len(q.nodes)
           i == s.i
           p == i \div 2
           a == s.q.nodes
           r == Moved(s, p)
           b == r.q.nodes
<1>1. /\ n \in Nat /\ Len(a) = n /\ i \in 1..n
      /\ \A j \in 1..n : f[a[j]] \in Int
      /\ \A j \in 2..n : j \div 2 \in 1..(j - 1) /\ j \div 2 \in 1..n
  BY PlaceNodes
<1>0. /\ \A j \in 2..n : j # i => f[a[j \div 2]] <= f[a[j]]
      /\ i > 1 => \A j \in 2..n : j \div 2 = i => f[a[p]] <= f[a[j]]
  BY <1>1 DEF OrderedButUp
<1>2. CASE ~ (i > 1 /\ f[a[i]] < f[a[p]])
  <2>1. StepUp(s, f) = s
    BY <1>2 DEF StepUp
  <2>2. ASSUME NEW j \in 2..n PROVE f[a[j \div 2]] <= f[a[j]]
    <3>1. CASE j # i
      BY <1>0, <3>1
    <3>2. CASE j = i
      <4>1. i > 1 /\ j \div 2 = p /\ p \in 1..n
        BY <1>1, <3>2
      <4> HIDE DEF p
      <4>2. f[a[i]] \in Int /\ f[a[p]] \in Int
        BY <1>1, <4>1
      <4>3. QED
        BY <1>2, <3>2, <4>1, <4>2
    <3>3. QED
      BY <3>1, <3>2
  <2>3. QED
    BY <1>1, <2>1, <2>2 DEF Ordered
<1>3. CASE i > 1 /\ f[a[i]] < f[a[p]]
  <2>1. StepUp(s, f) = r
    BY <1>3 DEF StepUp
  <2>2. p \in 1..n /\ p < i /\ i \in 2..n /\ i \div 2 = p
    BY <1>1, <1>3
  <2>3. /\ r \in Places(q) /\ r.i = p /\ b[i] = a[p] /\ b[p] = a[i]
        /\ \A j \in 1..n : j # i /\ j # p => b[j] = a[j]
    <3> HIDE DEF p
    <3>1. QED
      BY <2>2, MovedIs
  <2>4. Len(b) = n
    BY <2>3, PlaceNodes
  <2>5. /\ \A j \in 2..n : j # i => f[a[j \div 2]] <= f[a[j]]
        /\ \A j \in 2..n : j \div 2 = i => f[a[p]] <= f[a[j]]
    BY <1>0, <1>3
  <2>10. f[a[i]] \in Int /\ f[a[p]] \in Int /\ f[a[i]] < f[a[p]]
    <3> HIDE DEF p
    <3>1. QED
      BY <1>1, <1>3, <2>2
  <2> HIDE DEF r, p
  <2>6. ASSUME NEW j \in 2..n, j # p PROVE f[b[j \div 2]] <= f[b[j]]
    <3> DEFINE k == j \div 2
    <3>1. k \in 1..n /\ k < j /\ f[a[j]] \in Int /\ f[a[k]] \in Int
      BY <1>1
    <3>2. CASE j = i
      <4>1. k = p
        BY <2>2, <3>2
      <4>2. b[j] = a[p] /\ b[k] = a[i]
        BY <2>3, <3>2, <4>1
      <4>3. QED
        BY <2>10, <4>2
    <3>3. CASE j # i /\ k = p
      <4>1. b[j] = a[j] /\ b[k] = a[i] /\ f[a[p]] <= f[a[j]]
        BY <2>3, <2>5, <2>6, <3>3
      <4>2. QED
        BY <2>10, <3>1, <4>1
    <3>4. CASE j # i /\ k = i
      BY <2>3, <2>5, <2>6, <3>4
    <3>5. CASE j # i /\ k # i /\ k # p
      BY <2>3, <2>5, <2>6, <3>1, <3>5
    <3>6. QED
      BY <3>2, <3>3, <3>4, <3>5
  <2>7. ASSUME NEW j \in 2..n, j \div 2 = p, p > 1 PROVE f[b[p \div 2]] <= f[b[j]]
    <3> DEFINE g == p \div 2
    <3>1. p \in 2..n /\ g \in 1..n /\ g < p
      BY <1>1, <2>2, <2>7
    <3>5. f[a[g]] \in Int /\ f[a[j]] \in Int
      <4> HIDE DEF g
      <4>1. QED
        BY <1>1, <3>1
    <3>2. b[p \div 2] = a[p \div 2] /\ f[a[p \div 2]] <= f[a[p]]
      BY <2>2, <2>3, <2>5, <3>1
    <3>3. CASE j = i
      BY <2>3, <3>2, <3>3
    <3>4. CASE j # i
      <4>1. j # p
        BY <2>7, <3>1, <1>1
      <4>2. b[j] = a[j] /\ f[a[p]] <= f[a[j]]
        BY <2>3, <2>5, <2>7, <3>4, <4>1
      <4>3. QED
        BY <2>10, <3>2, <3>5, <4>2
    <3>6. QED
      BY <3>3, <3>4
  <2>8. OrderedButUp(r, f)
    BY <2>3, <2>4, <2>6, <2>7 DEF OrderedButUp
  <2>9. r.i < s.i /\ r # s
    BY <1>1, <2>2, <2>3
  <2>11. QED
    BY <2>1, <2>3, <2>8, <2>9 DEF r, p
<1>4. QED
  BY <1>2, <1>3

LEMMA ChildIs ==
  ASSUME NEW q, NEW s \in Places(q), NEW f, Scores(f), 2 * s.i <= Len(q.nodes)
  PROVE  LET c == Child(s.q, s.i, f)
         IN  /\ c \in 1..Len(q.nodes) /\ c \div 2 = s.i /\ c > s.i
             /\ \A j \in 2..Len(q.nodes) :
                  j \div 2 = s.i => f[s.q.nodes[c]] <= f[s.q.nodes[j]]
<1> DEFINE n == Len(q.nodes)
           i == s.i
           a == s.q.nodes
           c == Child(s.q, i, f)
           one == 2 * i
           two == 2 * i + 1
<1>1. /\ n \in Nat /\ Len(a) = n /\ i \in 1..n
      /\ \A j \in 1..n : f[a[j]] \in Int
  BY PlaceNodes
<1>2. ASSUME NEW j \in 2..n, j \div 2 = i PROVE j = one \/ j = two
  <2>1. i \in Nat /\ j \in Nat
    BY <1>1
  <2>2. QED
    BY <1>2, <2>1, Children
<1>3. /\ one \div 2 = i /\ two \div 2 = i /\ one \in 1..n
      /\ one > i /\ two > i /\ two \in Nat \ {0}
  <2>1. i \in Nat /\ one \in 1..n /\ one > i /\ two > i /\ two \in Nat \ {0}
    BY <1>1
  <2>2. QED
    BY <2>1, Children
<1>4. c = IF two <= n /\ f[a[two]] < f[a[one]] THEN two ELSE one
  BY <1>1 DEF Child
<1>5. f[a[one]] \in Int /\ (two <= n => two \in 1..n /\ f[a[two]] \in Int)
  <2> HIDE DEF one, two
  <2>1. QED
    BY <1>1, <1>3
<1> HIDE DEF c, one, two
<1>6. c \in 1..n /\ c \div 2 = i /\ c > i
  BY <1>3, <1>4, <1>5
<1>7. f[a[c]] <= f[a[one]] /\ (two <= n => f[a[c]] <= f[a[two]])
  BY <1>4, <1>5
<1>8. ASSUME NEW j \in 2..n, j \div 2 = i PROVE f[a[c]] <= f[a[j]]
  <2>1. j = one \/ j = two
    BY <1>2, <1>8
  <2>2. j <= n
    OBVIOUS
  <2>3. QED
    BY <1>7, <2>1, <2>2
<1>9. QED
  BY <1>6, <1>8 DEF c

LEMMA StepDownOrders ==
  ASSUME NEW q, NEW s \in Places(q), NEW f, Scores(f), OrderedButDown(s, f)
  PROVE  /\ StepDown(s, f) \in Places(q) /\ OrderedButDown(StepDown(s, f), f)
         /\ StepDown(s, f) = s \/ StepDown(s, f).i > s.i
         /\ StepDown(s, f) = s => Ordered(s.q, f)
<1> DEFINE n == Len(q.nodes)
           i == s.i
           c == Child(s.q, i, f)
           a == s.q.nodes
           r == Moved(s, c)
           b == r.q.nodes
<1>1. /\ n \in Nat /\ Len(a) = n /\ i \in 1..n
      /\ \A j \in 1..n : f[a[j]] \in Int
      /\ \A j \in 2..n : j \div 2 \in 1..(j - 1) /\ j \div 2 \in 1..n
  BY PlaceNodes
<1>2. 2 * i <= n =>
        /\ c \in 1..n /\ c \div 2 = i /\ c > i
        /\ \A j \in 2..n : j \div 2 = i => f[a[c]] <= f[a[j]]
  BY ChildIs
<1>3. /\ \A j \in 2..n : j \div 2 # i => f[a[j \div 2]] <= f[a[j]]
      /\ \A j \in 2..n : j \div 2 = i /\ i > 1 => f[a[i \div 2]] <= f[a[j]]
  BY <1>1 DEF OrderedButDown
<1> HIDE DEF c
<1>4. CASE ~ (2 * i <= n /\ f[a[c]] < f[a[i]])
  <2>1. StepDown(s, f) = s
    BY <1>1, <1>4 DEF StepDown, c
  <2>2. ASSUME NEW j \in 2..n PROVE f[a[j \div 2]] <= f[a[j]]
    <3>1. CASE j \div 2 # i
      BY <1>3, <3>1
    <3>2. CASE j \div 2 = i
      <4>1. 2 * i <= n
        BY <1>1, <3>2
      <4>2. f[a[c]] \in Int /\ f[a[i]] \in Int /\ f[a[j]] \in Int
        <5>1. c \in 1..n /\ j \in 1..n
          BY <1>1, <1>2, <4>1
        <5>2. QED
          BY <1>1, <5>1
      <4>3. f[a[c]] <= f[a[j]] /\ ~ (f[a[c]] < f[a[i]])
        BY <1>2, <1>4, <3>2, <4>1
      <4>4. QED
        BY <3>2, <4>2, <4>3
    <3>3. QED
      BY <3>1, <3>2
  <2>3. QED
    BY <1>1, <2>1, <2>2 DEF Ordered
<1>5. CASE 2 * i <= n /\ f[a[c]] < f[a[i]]
  <2>1. StepDown(s, f) = r
    BY <1>1, <1>5 DEF StepDown, c
  <2>2. /\ c \in 1..n /\ c \div 2 = i /\ c > i /\ c \in 2..n
        /\ \A j \in 2..n : j \div 2 = i => f[a[c]] <= f[a[j]]
    BY <1>1, <1>2, <1>5
  <2>3. /\ r \in Places(q) /\ r.i = c /\ b[i] = a[c] /\ b[c] = a[i]
        /\ \A j \in 1..n : j # i /\ j # c => b[j] = a[j]
    <3>1. c \in 1..n
      BY <2>2
    <3>2. QED
      BY <3>1, MovedIs
  <2>4. Len(b) = n
    BY <2>3, PlaceNodes
  <2> HIDE DEF r
  <2>5. ASSUME NEW j \in 2..n, j \div 2 # c PROVE f[b[j \div 2]] <= f[b[j]]
    <3> DEFINE k == j \div 2
    <3>1. k \in 1..n /\ k < j
      BY <1>1
    <3>2. CASE j = c
      <4>1. k = i
        BY <2>2, <3>2
      <4>2. b[j] = a[i] /\ b[k] = a[c]
        BY <2>3, <3>2, <4>1
      <4>3. f[a[i]] \in Int /\ f[a[c]] \in Int
        BY <1>1, <2>2
      <4>4. QED
        BY <1>5, <4>2, <4>3
    <3>3. CASE j # c /\ k = i
      BY <2>2, <2>3, <3>1, <3>3
    <3>4. CASE j # c /\ k # i /\ j = i
      <4>1. b[j] = a[c] /\ b[k] = a[k]
        BY <2>3, <2>5, <3>1, <3>4
      <4>2. i > 1 /\ f[a[i \div 2]] <= f[a[c]]
        BY <1>3, <2>2, <3>1, <3>4
      <4>3. QED
        BY <3>4, <4>1, <4>2
    <3>5. CASE j # c /\ k # i /\ j # i
      BY <1>3, <2>3, <2>5, <3>1, <3>5
    <3>6. QED
      BY <3>2, <3>3, <3>4, <3>5
  <2>6. ASSUME NEW j \in 2..n, j \div 2 = c PROVE f[b[c \div 2]] <= f[b[j]]
    <3>1. j > c /\ j # i /\ j # c
      BY <1>1, <2>2, <2>6
    <3>2. b[j] = a[j] /\ b[c \div 2] = a[c]
      BY <2>2, <2>3, <3>1
    <3>3. f[a[c]] <= f[a[j]]
      <4>1. j \div 2 # i
        BY <1>1, <2>2, <2>6
      <4>2. f[a[j \div 2]] <= f[a[j]]
        BY <1>3, <4>1
      <4>3. QED
        BY <2>6, <4>2
    <3>4. QED
      BY <3>2, <3>3
  <2>7. OrderedButDown(r, f)
    BY <2>3, <2>4, <2>5, <2>6 DEF OrderedButDown
  <2>8. r.i > s.i /\ r # s
    BY <1>1, <2>2, <2>3
  <2>9. QED
    BY <2>1, <2>3, <2>7, <2>8
<1>6. QED
  BY <1>4, <1>5

\* Where siftUp leaves the node.
LEMMA SiftUpOrders ==
  ASSUME NEW q, IsHeap(q), NEW i \in 1..Len(q.nodes), NEW f, Scores(f),
         OrderedButUp([q |-> q, i |-> i], f)
  PROVE  LET r == SiftUp(q, i, f)
         IN  IsHeap(r) /\ Held(r) = Held(q) /\ Ordered(r, f)
<1> DEFINE c == [q |-> q, i |-> i]
           V == {s \in Places(q) : OrderedButUp(s, f)}
           next == [s \in V |-> StepUp(s, f)]
           mu == [s \in V |-> s.i]
           G == [k \in 1..i |-> next]
           Body(g) == [n \in 0..i |-> IF n = 0 THEN c ELSE StepUp(g[n - 1], f)]
           Loop == CHOOSE g : g = Body(g)
<1>1. i \in Nat
  BY HeapNodes
<1>2. c \in V
  <2>1. c \in Places(q)
    <3>1. q \in Heaps /\ i \in Nat /\ c.q = q /\ c.i = i
      BY <1>1 DEF IsHeap
    <3>2. c \in [q : Heaps, i : Nat]
      BY <3>1
    <3> HIDE DEF c
    <3>3. QED
      BY <3>1, <3>2 DEF Places
  <2>2. QED
    BY <2>1
<1>3. \A s \in V : s.i \in Nat /\ next[s] = StepUp(s, f) /\ mu[s] = s.i
  BY DEF Places
<1>4. /\ \A s \in V : next[s] \in V
      /\ \A s \in V : next[s] = s \/ next[s].i < s.i
      /\ \A s \in V : next[s] = s => Ordered(s.q, f)
  <2>1. ASSUME NEW s \in V
        PROVE  /\ StepUp(s, f) \in V
               /\ StepUp(s, f) = s \/ StepUp(s, f).i < s.i
               /\ StepUp(s, f) = s => Ordered(s.q, f)
    BY <2>1, StepUpOrders
  <2>2. QED
    BY <1>3, <2>1, Zenon
<1>5. \A k \in 1..i : G[k] = next
  OBVIOUS
<1> HIDE DEF c, next, mu, G
<1>6. StepsStay(V, i, G)
  BY <1>4, <1>5 DEF StepsStay
<1> HIDE DEF V
<1>7. PICK g : Iterates(g, V, c, i, G)
  BY <1>1, <1>2, <1>6, Iteration
<1>8. ASSUME NEW n \in 1..i PROVE g[n] = StepUp(g[n - 1], f)
  <2>1. g[n - 1] \in V
    BY <1>1, <1>7 DEF Iterates
  <2>2. QED
    BY <1>3, <1>5, <1>7, <2>1 DEF Iterates
<1>9. g = Body(g)
  BY <1>1, <1>7, <1>8 DEF Iterates
<1>10. Loop = Body(Loop)
  <2> HIDE DEF Body
  <2>1. QED
    BY <1>9, Zenon
<1>11. SiftUp(q, i, f) = Loop[i].q
  BY DEF SiftUp, c
<1> HIDE DEF Loop
<1>12. Loop[0] = c /\ \A n \in 1..i : Loop[n] = StepUp(Loop[n - 1], f)
  <2>1. Body(Loop)[0] = c /\ \A n \in 1..i : Body(Loop)[n] = StepUp(Loop[n - 1], f)
    BY <1>1
  <2> HIDE DEF Body
  <2>2. QED
    BY <1>10, <2>1
<1>13. \A n \in 0..i : Loop[n] \in V
  <2>1. \A n \in 1..i : Loop[n - 1] \in V => Loop[n] \in V
    BY <1>3, <1>4, <1>12
  <2>2. QED
    BY <1>1, <1>2, <1>12, <2>1, StaysIn
<1>14. \A n \in 1..i : Loop[n] = next[Loop[n - 1]]
  <2>1. ASSUME NEW n \in 1..i PROVE Loop[n - 1] \in V
    BY <1>1, <1>13
  <2>2. QED
    BY <1>3, <1>12, <2>1
<1>15. Loop[i] \in V /\ next[Loop[i]] = Loop[i]
  <2>1. \A s \in V : mu[s] \in Nat
    BY <1>3
  <2>2. mu[c] <= i
    BY <1>1, <1>2, <1>3 DEF c
  <2>3. \A s \in V : next[s] = s \/ mu[next[s]] < mu[s]
    BY <1>3, <1>4
  <2>4. QED
    <3>1. Terminates(Loop, V, i, next, mu)
      BY <1>2, <1>4, <1>12, <1>14, <2>1, <2>2, <2>3 DEF Terminates
    <3>2. QED
      BY <1>1, <3>1, LoopEnds
<1>16. QED
  BY <1>4, <1>11, <1>15 DEF V, Places

\* And where siftDown does.
LEMMA SiftDownOrders ==
  ASSUME NEW q, IsHeap(q), NEW i \in 1..Len(q.nodes), NEW f, Scores(f),
         OrderedButDown([q |-> q, i |-> i], f)
  PROVE  LET r == SiftDown(q, i, f)
         IN  IsHeap(r) /\ Held(r) = Held(q) /\ Ordered(r, f)
<1> DEFINE c == [q |-> q, i |-> i]
           m == Len(q.nodes)
           V == {s \in Places(q) : OrderedButDown(s, f)}
           next == [s \in V |-> StepDown(s, f)]
           mu == [s \in V |-> m - s.i]
           G == [k \in 1..m |-> next]
           Body(g) == [n \in 0..m |-> IF n = 0 THEN c ELSE StepDown(g[n - 1], f)]
           Loop == CHOOSE g : g = Body(g)
<1>1. m \in Nat /\ i \in Nat
  BY HeapNodes
<1>2. c \in V
  <2>1. c \in Places(q)
    <3>1. q \in Heaps /\ i \in Nat /\ c.q = q /\ c.i = i
      BY <1>1 DEF IsHeap
    <3>2. c \in [q : Heaps, i : Nat]
      BY <3>1
    <3> HIDE DEF c
    <3>3. QED
      BY <3>1, <3>2 DEF Places
  <2>2. QED
    BY <2>1
<1>3. \A s \in V : s.i \in Nat /\ s.i <= m /\ next[s] = StepDown(s, f) /\ mu[s] = m - s.i
  BY <1>1 DEF Places
<1>4. /\ \A s \in V : next[s] \in V
      /\ \A s \in V : next[s] = s \/ next[s].i > s.i
      /\ \A s \in V : next[s] = s => Ordered(s.q, f)
  <2>1. ASSUME NEW s \in V
        PROVE  /\ StepDown(s, f) \in V
               /\ StepDown(s, f) = s \/ StepDown(s, f).i > s.i
               /\ StepDown(s, f) = s => Ordered(s.q, f)
    BY <2>1, StepDownOrders
  <2>2. QED
    BY <1>3, <2>1, Zenon
<1>5. \A k \in 1..m : G[k] = next
  OBVIOUS
<1>11. SiftDown(q, i, f) = Loop[m].q
  BY DEF SiftDown
<1> HIDE DEF c, next, mu, G, m
<1>6. StepsStay(V, m, G)
  BY <1>4, <1>5 DEF StepsStay
<1> HIDE DEF V
<1>7. PICK g : Iterates(g, V, c, m, G)
  BY <1>1, <1>2, <1>6, Iteration
<1>8. ASSUME NEW n \in 1..m PROVE g[n] = StepDown(g[n - 1], f)
  <2>1. g[n - 1] \in V
    BY <1>1, <1>7 DEF Iterates
  <2>2. QED
    BY <1>3, <1>5, <1>7, <2>1 DEF Iterates
<1>9. g = Body(g)
  BY <1>1, <1>7, <1>8 DEF Iterates
<1>10. Loop = Body(Loop)
  <2> HIDE DEF Body
  <2>1. QED
    BY <1>9, Zenon
<1> HIDE DEF Loop
<1>12. Loop[0] = c /\ \A n \in 1..m : Loop[n] = StepDown(Loop[n - 1], f)
  <2>1. Body(Loop)[0] = c /\ \A n \in 1..m : Body(Loop)[n] = StepDown(Loop[n - 1], f)
    BY <1>1
  <2> HIDE DEF Body
  <2>2. QED
    BY <1>10, <2>1
<1>13. \A n \in 0..m : Loop[n] \in V
  <2>1. \A n \in 1..m : Loop[n - 1] \in V => Loop[n] \in V
    BY <1>3, <1>4, <1>12
  <2>2. QED
    BY <1>1, <1>2, <1>12, <2>1, StaysIn
<1>14. \A n \in 1..m : Loop[n] = next[Loop[n - 1]]
  <2>1. ASSUME NEW n \in 1..m PROVE Loop[n - 1] \in V
    BY <1>1, <1>13
  <2>2. QED
    BY <1>3, <1>12, <2>1
<1>15. Loop[m] \in V /\ next[Loop[m]] = Loop[m]
  <2>1. \A s \in V : mu[s] \in Nat
    BY <1>1, <1>3
  <2>2. mu[c] <= m
    BY <1>1, <1>2, <1>3
  <2>3. \A s \in V : next[s] = s \/ mu[next[s]] < mu[s]
    BY <1>1, <1>3, <1>4
  <2>4. QED
    <3>1. Terminates(Loop, V, m, next, mu)
      BY <1>2, <1>4, <1>12, <1>14, <2>1, <2>2, <2>3 DEF Terminates
    <3>2. QED
      BY <1>1, <3>1, LoopEnds
<1>16. QED
  BY <1>4, <1>11, <1>15 DEF V, Places

\* The first node has the lowest score.
LEMMA RootIsLeast ==
  ASSUME NEW q, IsHeap(q), NEW f, Scores(f), Ordered(q, f), NEW i \in 1..Len(q.nodes)
  PROVE  f[q.nodes[1]] <= f[q.nodes[i]]
<1> DEFINE n == Len(q.nodes)
           T == {j \in 1..n : ~ (f[q.nodes[1]] <= f[q.nodes[j]])}
<1>1. n \in Nat /\ \A j \in 1..n : f[q.nodes[j]] \in Int
  BY HeapNodes DEF Scores
<1>2. SUFFICES ASSUME T # {} PROVE FALSE
  OBVIOUS
<1>3. T \subseteq Nat
  OBVIOUS
<1>4. PICK j \in T : \A k \in T : j <= k
  BY <1>2, <1>3, NatLeast
<1>5. j # 1 /\ j \in 2..n
  BY <1>1, <1>4
<1> DEFINE k == j \div 2
<1>6. k \in 1..n /\ k < j
  BY <1>5, Parent
<1>7. f[q.nodes[k]] <= f[q.nodes[j]]
  BY <1>5 DEF Ordered
<1> HIDE DEF k
<1>8. k \notin T
  BY <1>4, <1>6
<1>9. f[q.nodes[1]] <= f[q.nodes[k]]
  BY <1>6, <1>8
<1>10. f[q.nodes[1]] \in Int /\ f[q.nodes[k]] \in Int /\ f[q.nodes[j]] \in Int
  BY <1>1, <1>5, <1>6
<1>11. f[q.nodes[1]] <= f[q.nodes[j]]
  BY <1>7, <1>9, <1>10
<1>12. QED
  BY <1>4, <1>11

-----------------------------------------------------------------------------
(***************************************************************************)
(* The operations of the heap.                                             *)
(***************************************************************************)
LEMMA OrderedBySame ==
  ASSUME NEW q, IsHeap(q), NEW f, NEW g, Ordered(q, f),
         \A u \in Held(q) : g[u] = f[u]
  PROVE  Ordered(q, g)
<1>1. SUFFICES ASSUME NEW i \in 2..Len(q.nodes)
               PROVE  g[q.nodes[i \div 2]] <= g[q.nodes[i]]
  BY DEF Ordered
<1>2. i \in 1..Len(q.nodes) /\ i \div 2 \in 1..Len(q.nodes)
  BY HeapNodes, Parent
<1>3. g[q.nodes[i]] = f[q.nodes[i]] /\ g[q.nodes[i \div 2]] = f[q.nodes[i \div 2]]
  BY <1>2 DEF Held
<1>4. QED
  BY <1>3 DEF Ordered

LEMMA InsertIs ==
  ASSUME NEW q, IsHeap(q), NEW t \in Tiles, ~ ContainsNode(q, t),
         NEW f, Scores(f), Ordered(q, f)
  PROVE  LET r == Insert(q, t, f)
         IN  IsHeap(r) /\ Held(r) = Held(q) \cup {t} /\ Ordered(r, f)
<1> DEFINE n == Len(q.nodes)
           a == q.nodes
           b == Append(a, t)
           v == Put(q.positions, Id(t), n + 1)
           s == [nodes |-> b, positions |-> v]
<1>1. a \in Seq(Tiles) /\ n \in Nat /\ \A i \in 1..n : a[i] \in Tiles
  BY HeapNodes
<1>2. /\ b \in Seq(Tiles) /\ Len(b) = n + 1 /\ b[n + 1] = t
      /\ \A i \in 1..n : b[i] = a[i]
  BY <1>1, AppendProperties
<1>3. /\ \A i, j \in 1..n : Id(a[i]) = Id(a[j]) => i = j
      /\ DOMAIN q.positions = {Id(a[i]) : i \in 1..n}
      /\ \A i \in 1..n : q.positions[Id(a[i])] = i
      /\ \A i \in 1..n : Id(a[i]) # Id(t)
  BY DEF IsHeap, ContainsNode
<1>4. /\ DOMAIN v = {Id(a[i]) : i \in 1..n} \cup {Id(t)}
      /\ v[Id(t)] = n + 1
      /\ \A i \in 1..n : v[Id(a[i])] = i
      /\ v = [x \in DOMAIN v |-> v[x]]
  BY <1>3 DEF Put
<1>5. Insert(q, t, f) = SiftUp(s, n + 1, f)
  BY DEF Insert
<1> HIDE DEF b, v
<1>6. 1..(n + 1) = 1..n \cup {n + 1}
  BY <1>1
<1>7. \A i \in 1..(n + 1) : v[Id(b[i])] = i
  BY <1>2, <1>4, <1>6
<1>8. DOMAIN v = {Id(b[i]) : i \in 1..(n + 1)}
  BY <1>2, <1>4, <1>6
<1>9. v \in Tables
  <2>1. DOMAIN v \in SUBSET {Id(u) : u \in Tiles}
    BY <1>1, <1>4
  <2>2. \A x \in DOMAIN v : v[x] \in Nat
    BY <1>1, <1>7, <1>8
  <2>3. v \in [DOMAIN v -> Nat]
    BY <1>4, <2>2
  <2>4. QED
    BY <2>1, <2>3 DEF Tables
<1>10. s \in Heaps /\ s.nodes = b /\ s.positions = v /\ Len(s.nodes) = n + 1
  BY <1>2, <1>9 DEF Heaps
<1>11. \A i, j \in 1..(n + 1) : Id(b[i]) = Id(b[j]) => i = j
  BY <1>7
<1> HIDE DEF s
<1>12. IsHeap(s)
  BY <1>7, <1>8, <1>10, <1>11 DEF IsHeap
<1>13. Held(s) = Held(q) \cup {t}
  BY <1>2, <1>6, <1>10 DEF Held
<1>14. OrderedButUp([q |-> s, i |-> n + 1], f)
  <2>1. ASSUME NEW j \in 2..(n + 1), j # n + 1
        PROVE  f[b[j \div 2]] <= f[b[j]]
    <3>1. j \in 2..n /\ j \in 1..n /\ j \div 2 \in 1..n
      BY <1>1, <2>1, Parent
    <3>2. f[a[j \div 2]] <= f[a[j]]
      BY <3>1 DEF Ordered
    <3>3. QED
      BY <1>2, <3>1, <3>2
  <2>2. ASSUME NEW j \in 2..(n + 1), j \div 2 = n + 1
        PROVE  FALSE
    BY <1>1, <2>2, Parent
  <2> DEFINE p == [q |-> s, i |-> n + 1]
  <2>3. p.q.nodes = b /\ p.i = n + 1 /\ Len(b) = n + 1
    BY <1>2, <1>10
  <2> HIDE DEF p
  <2>4. QED
    BY <2>1, <2>2, <2>3 DEF OrderedButUp, p
<1>15. QED
  <2>1. n + 1 \in 1..Len(s.nodes)
    BY <1>1, <1>10
  <2>2. QED
    BY <1>5, <1>12, <1>13, <1>14, <2>1, SiftUpOrders

LEMMA UpdateIs ==
  ASSUME NEW q, IsHeap(q), NEW t \in Held(q),
         NEW f, Scores(f), Ordered(q, f),
         NEW g, Scores(g), g[t] <= f[t], \A u \in Tiles \ {t} : g[u] = f[u]
  PROVE  LET r == Update(q, t, g)
         IN  IsHeap(r) /\ Held(r) = Held(q) /\ Ordered(r, g)
<1> DEFINE n == Len(q.nodes)
           a == q.nodes
<1>1. n \in Nat /\ \A i \in 1..n : a[i] \in Tiles /\ f[a[i]] \in Int /\ g[a[i]] \in Int
  BY HeapNodes DEF Scores
<1>2. PICK i \in 1..n : t = a[i]
  BY DEF Held
<1>3. Update(q, t, g) = SiftUp(q, i, g)
  BY <1>2 DEF Update, IsHeap
<1>4. \A j \in 1..n : j # i => a[j] # t
  BY <1>2 DEF IsHeap
<1>5. OrderedButUp([q |-> q, i |-> i], g)
  <2> DEFINE k == i \div 2
  <2>1. ASSUME NEW j \in 2..n, j # i
        PROVE  g[a[j \div 2]] <= g[a[j]]
    <3> DEFINE p == j \div 2
    <3>1. j \in 1..n /\ p \in 1..n
      BY <1>1, Parent
    <3>2. f[a[p]] <= f[a[j]]
      BY DEF Ordered
    <3> HIDE DEF p
    <3>3. g[a[j]] = f[a[j]]
      BY <1>1, <1>4, <2>1, <3>1
    <3>4. g[a[p]] <= f[a[p]]
      <4>1. CASE a[p] = t
        BY <4>1
      <4>2. CASE a[p] # t
        BY <1>1, <3>1, <4>2
      <4>3. QED
        BY <4>1, <4>2
    <3>5. g[a[j]] \in Int /\ g[a[p]] \in Int /\ f[a[p]] \in Int /\ f[a[j]] \in Int
      BY <1>1, <3>1
    <3>6. g[a[p]] <= g[a[j]]
      BY <3>2, <3>3, <3>4, <3>5
    <3>7. QED
      BY <3>6 DEF p
  <2>2. ASSUME NEW j \in 2..n, j \div 2 = i, i > 1
        PROVE  g[a[k]] <= g[a[j]]
    <3>1. j \in 1..n /\ i \in 2..n /\ k \in 1..n /\ j # i /\ k # i
      BY <1>1, <2>2, Parent
    <3>2. f[a[k]] <= f[a[i]] /\ f[a[i]] <= f[a[j]]
      BY <2>2, <3>1 DEF Ordered
    <3> HIDE DEF k
    <3>3. g[a[j]] = f[a[j]] /\ g[a[k]] = f[a[k]]
      BY <1>1, <1>4, <3>1
    <3>4. f[a[i]] \in Int /\ f[a[k]] \in Int /\ f[a[j]] \in Int
      BY <1>1, <3>1
    <3>5. QED
      BY <3>2, <3>3, <3>4
  <2> DEFINE p == [q |-> q, i |-> i]
  <2>3. p.q.nodes = a /\ p.i = i
    OBVIOUS
  <2> HIDE DEF p
  <2>4. QED
    BY <2>1, <2>2, <2>3 DEF OrderedButUp, p
<1>6. QED
  BY <1>3, <1>5, SiftUpOrders

LEMMA SiftDownEmpty ==
  ASSUME NEW q, Len(q.nodes) = 0, NEW i, NEW f
  PROVE  SiftDown(q, i, f) = q
<1> DEFINE c == [q |-> q, i |-> i]
           Body(g) == [n \in 0..0 |-> IF n = 0 THEN c ELSE StepDown(g[n - 1], f)]
           Loop == CHOOSE g : g = Body(g)
           h0 == [n \in 0..0 |-> c]
<1>1. SiftDown(q, i, f) = Loop[0].q
  BY DEF SiftDown
<1>2. h0 = Body(h0)
  OBVIOUS
<1>3. Loop = Body(Loop)
  <2> HIDE DEF Body
  <2>1. QED
    BY <1>2, Zenon
<1>4. \A g : Body(g)[0] = c
  OBVIOUS
<1> HIDE DEF Body, Loop
<1>5. Loop[0] = c
  BY <1>3, <1>4
<1>6. QED
  BY <1>1, <1>5

LEMMA RemoveNodeIs ==
  ASSUME NEW q, IsHeap(q), q.nodes # <<>>, NEW f, Scores(f), Ordered(q, f)
  PROVE  LET r == RemoveNode(q, f)
         IN  /\ IsHeap(r) /\ Held(r) = Held(q) \ {q.nodes[1]} /\ Ordered(r, f)
             /\ q.nodes[1] \in Held(q)
             /\ \A u \in Held(q) : f[q.nodes[1]] <= f[u]
<1> DEFINE n == Len(q.nodes)
           a == q.nodes
           m == n - 1
           s == Swap(q, 1, n)
           b == SubSeq(s.nodes, 1, m)
           p == s.positions
           v == [id \in DOMAIN p \ {Id(s.nodes[n])} |-> p[id]]
           r == [nodes |-> b, positions |-> v]
<1>1. n \in Nat \ {0} /\ 1 \in 1..n /\ n \in 1..n /\ m \in Nat
  <2>1. n \in Nat \ {0}
    BY HeapNodes, EmptySeq
  <2>2. QED
    BY <2>1
<1>2. /\ IsHeap(s) /\ Held(s) = Held(q) /\ Len(s.nodes) = n
      /\ s.nodes[1] = a[n] /\ s.nodes[n] = a[1]
      /\ \A k \in 1..n : k # 1 /\ k # n => s.nodes[k] = a[k]
  BY <1>1, SwapIs
<1>3. RemoveNode(q, f) = SiftDown(r, 1, f)
  BY DEF RemoveNode
<1>4. /\ s.nodes \in Seq(Tiles)
      /\ \A i, j \in 1..n : Id(s.nodes[i]) = Id(s.nodes[j]) => i = j
      /\ DOMAIN p = {Id(s.nodes[i]) : i \in 1..n}
      /\ \A i \in 1..n : p[Id(s.nodes[i])] = i
      /\ \A i \in 1..n : s.nodes[i] \in Tiles
  BY <1>2, HeapNodes DEF IsHeap
<1> HIDE DEF s
<1>5. /\ b \in Seq(Tiles) /\ Len(b) = m /\ \A i \in 1..m : b[i] = s.nodes[i]
  <2>1. \A i \in 1..m : s.nodes[i] \in Tiles
    BY <1>1, <1>4
  <2>2. /\ b \in Seq(Tiles) /\ Len(b) = IF 1 <= m THEN m - 1 + 1 ELSE 0
        /\ \A i \in 1..(m - 1 + 1) : b[i] = s.nodes[1 + i - 1]
    BY <1>1, <2>1, SubSeqProperties
  <2>3. QED
    BY <1>1, <2>2
<1>6. 1..n = 1..m \cup {n} /\ n \notin 1..m
  BY <1>1
<1>7. /\ DOMAIN v = {Id(b[i]) : i \in 1..m}
      /\ \A i \in 1..m : v[Id(b[i])] = i
      /\ v = [x \in DOMAIN v |-> v[x]]
  <2>1. DOMAIN v = DOMAIN p \ {Id(s.nodes[n])} /\ \A x \in DOMAIN v : v[x] = p[x]
    OBVIOUS
  <2>2. {Id(b[i]) : i \in 1..m} = {Id(s.nodes[i]) : i \in 1..m}
    BY <1>5
  <2>3. {Id(s.nodes[i]) : i \in 1..m} = {Id(s.nodes[i]) : i \in 1..n} \ {Id(s.nodes[n])}
    BY <1>4, <1>6
  <2>4. DOMAIN v = {Id(b[i]) : i \in 1..m}
    BY <1>4, <2>1, <2>2, <2>3
  <2>5. ASSUME NEW i \in 1..m PROVE v[Id(b[i])] = i
    BY <1>4, <1>5, <1>6, <2>1, <2>4
  <2>6. QED
    BY <2>4, <2>5
<1> HIDE DEF b, v, p
<1>8. v \in Tables
  <2>1. DOMAIN v \in SUBSET {Id(u) : u \in Tiles}
    BY <1>4, <1>5, <1>6, <1>7
  <2>2. \A x \in DOMAIN v : v[x] \in Nat
    BY <1>1, <1>7
  <2>3. v \in [DOMAIN v -> Nat]
    BY <1>7, <2>2
  <2>4. QED
    BY <2>1, <2>3 DEF Tables
<1>9. r \in Heaps /\ r.nodes = b /\ r.positions = v /\ Len(r.nodes) = m
  BY <1>5, <1>8 DEF Heaps
<1>10. \A i, j \in 1..m : Id(b[i]) = Id(b[j]) => i = j
  BY <1>7
<1> HIDE DEF r
<1>11. IsHeap(r)
  BY <1>7, <1>9, <1>10 DEF IsHeap
<1>12. Held(r) = Held(q) \ {a[1]}
  <2>1. Held(s) = {s.nodes[i] : i \in 1..n} /\ Held(r) = {s.nodes[i] : i \in 1..m}
    BY <1>2, <1>5, <1>9 DEF Held
  <2>2. {s.nodes[i] : i \in 1..m} = {s.nodes[i] : i \in 1..n} \ {s.nodes[n]}
    BY <1>4, <1>6
  <2>3. QED
    BY <1>2, <2>1, <2>2
<1>13. a[1] \in Held(q) /\ \A u \in Held(q) : f[a[1]] <= f[u]
  BY <1>1, RootIsLeast DEF Held
<1>14. CASE m = 0
  <2>1. SiftDown(r, 1, f) = r
    BY <1>9, <1>14, SiftDownEmpty
  <2>2. Ordered(r, f)
    BY <1>9, <1>14 DEF Ordered
  <2>3. QED
    BY <1>3, <1>11, <1>12, <1>13, <2>1, <2>2
<1>15. CASE m # 0
  <2>1. OrderedButDown([q |-> r, i |-> 1], f)
    <3>1. ASSUME NEW j \in 2..m, j \div 2 # 1 PROVE f[b[j \div 2]] <= f[b[j]]
      <4> DEFINE k == j \div 2
      <4>1. k \in 2..m /\ k \in 1..m /\ j \in 1..m
        BY <1>1, <3>1, Parent
      <4>2. f[a[k]] <= f[a[j]]
        BY <1>1 DEF Ordered
      <4> HIDE DEF k
      <4>3. b[k] = a[k] /\ b[j] = a[j]
        BY <1>1, <1>2, <1>5, <4>1
      <4>4. f[b[k]] <= f[b[j]]
        BY <4>2, <4>3
      <4>5. QED
        BY <4>4 DEF k
    <3> DEFINE w == [q |-> r, i |-> 1]
    <3>2. w.q.nodes = b /\ w.i = 1 /\ Len(b) = m
      BY <1>5, <1>9
    <3> HIDE DEF w
    <3>3. QED
      BY <3>1, <3>2 DEF OrderedButDown, w
  <2>2. 1 \in 1..Len(r.nodes)
    <3>1. m \in Nat /\ m # 0
      BY <1>1, <1>15
    <3> HIDE DEF m
    <3>2. 1 \in 1..m
      BY <3>1
    <3>3. QED
      BY <1>9, <3>2
  <2>3. QED
    BY <1>3, <1>11, <1>12, <1>13, <2>1, <2>2, SiftDownOrders
<1>16. QED
  BY <1>14, <1>15

-----------------------------------------------------------------------------
(***************************************************************************)
(* The invariant of the search.  The tiles V have been visited: they have  *)
(* been reached and are no longer on the heap.                             *)
(***************************************************************************)
Searches ==
  [heap : Heaps, gScore : [Tiles -> Nat], fScore : [Tiles -> Nat],
   cameFrom : [Tiles -> Tiles \cup {NoTile}]]

Found(s) == {t \in Tiles : s.gScore[t] # Infinity}

Visited(s) == Found(s) \ Held(s.heap)

\* The map the search is called with: its edge is an obstacle.
Problem ==
  /\ map \in [Tiles -> Int]
  /\ \A t \in Tiles \ Inner : map[t] > Empty
  /\ from \in Tiles
  /\ to \in Tiles

\* A tile that is reached comes from a visited one, one step nearer to the
\* start, back to the start itself.
Traced(s, V) ==
  /\ s.gScore[from] = 0
  /\ s.cameFrom[from] = NoTile
  /\ \A t \in Tiles \ Found(s) : s.cameFrom[t] = NoTile
  /\ \A t \in Found(s) \ {from} :
       /\ s.cameFrom[t] \in V
       /\ t \in FreeNeighbours(map, s.cameFrom[t])
       /\ s.gScore[t] = s.gScore[s.cameFrom[t]] + 1

\* A path that leads to a tile is no longer than the visited tiles allow.
Counted(s, V) ==
  /\ \A t \in V : s.gScore[t] < Cardinality(V)
  /\ \A t \in Held(s.heap) : s.gScore[t] <= Cardinality(V)

Sound(s, V) ==
  /\ s \in Searches
  /\ IsHeap(s.heap)
  /\ Ordered(s.heap, s.fScore)
  /\ Found(s) = V \cup Held(s.heap)
  /\ V \cap Held(s.heap) = {}
  /\ from \in Found(s) /\ to \notin V
  /\ from \in V \/ Held(s.heap) = {from}
  /\ \A t \in Found(s) : s.fScore[t] = s.gScore[t] + Distance(t, to)
  /\ \A v \in V : \A t \in Held(s.heap) : s.fScore[v] <= s.fScore[t]
  /\ Traced(s, V)
  /\ Counted(s, V)

\* The neighbours of t that are in U are reached from t or by a shorter path.
Settled(s, t, U) ==
  \A u \in FreeNeighbours(map, t) \cap U : s.gScore[u] <= s.gScore[t] + 1

SearchInv ==
  /\ Problem
  /\ Sound(search, Visited(search))
  /\ \A v \in Visited(search) : Settled(search, v, Tiles)
  /\ searching \in BOOLEAN /\ (searching => from # to)
  /\ FindsShortestPath

\* While the neighbours of c are looked at, those in U being done.
Visiting(s, V, c, U) ==
  /\ Sound(s, V)
  /\ from \in V /\ c \in V
  /\ \A v \in V : s.fScore[v] <= s.fScore[c]
  /\ \A v \in V \ {c} : Settled(s, v, Tiles)
  /\ Settled(s, c, U)

LEMMA DistanceIs ==
  ASSUME NEW t \in Tiles, NEW u \in Tiles
  PROVE  /\ Distance(t, u) \in Nat
         /\ Distance(t, t) = 0
         /\ \A v \in Neighbours(t) :
              Distance(t, u) <= Distance(v, u) + 1 /\ Distance(v, u) <= Distance(t, u) + 1
<1>1. /\ Column(t) \in Nat /\ Row(t) \in Nat
      /\ Column(u) \in Nat /\ Row(u) \in Nat
  BY Grid
<1>2. Distance(t, u) \in Nat /\ Distance(t, t) = 0
  BY <1>1 DEF Distance
<1>3. ASSUME NEW v \in Neighbours(t)
      PROVE  Distance(t, u) <= Distance(v, u) + 1 /\ Distance(v, u) <= Distance(t, u) + 1
  <2>1. v \in Tiles /\ Column(v) \in Nat /\ Row(v) \in Nat
    BY NeighboursAreTiles, Grid
  <2>2. \/ Row(v) = Row(t) /\ Column(v) = Column(t) + 1
        \/ Row(v) = Row(t) /\ Column(v) = Column(t) - 1
        \/ Row(v) = Row(t) + 1 /\ Column(v) = Column(t)
        \/ Row(v) = Row(t) - 1 /\ Column(v) = Column(t)
    BY <2>1, Beside
  <2>3. QED
    BY <1>1, <2>1, <2>2 DEF Distance
<1>4. QED
  BY <1>2, <1>3

LEMMA NeighboursMutual ==
  ASSUME NEW t \in Tiles, NEW u \in Neighbours(t)
  PROVE  u \in Tiles /\ t \in Neighbours(u) /\ u # t
<1>1. u \in Tiles
  BY NeighboursAreTiles
<1>2. /\ Column(t) \in Nat /\ Row(t) \in Nat
      /\ Column(u) \in Nat /\ Row(u) \in Nat
  BY <1>1, Grid
<1>3. QED
  BY <1>1, <1>2, Beside

Spelled(x, i, j) ==
  \/ i < Base /\ j < Base /\ Len(x) = 2 /\ x[1] = i /\ x[2] = j
  \/ i < Base /\ j = Base /\ Len(x) = 3 /\ x[1] = i /\ x[2] = 1 /\ x[3] = 0
  \/ i = Base /\ j < Base /\ Len(x) = 3 /\ x[1] = 1 /\ x[2] = 0 /\ x[3] = j
  \/ i = Base /\ j = Base /\ Len(x) = 4

\* An id belongs to one inner tile: a row or column of two digits has its
\* last digit 0, and no inner tile is in row or column 0.
LEMMA DigitsAre ==
  ASSUME NEW n \in 1..Base
  PROVE  /\ Digits(n) \in Seq(Nat)
         /\ n < Base => Len(Digits(n)) = 1 /\ Digits(n)[1] = n
         /\ n = Base => Len(Digits(n)) = 2 /\ Digits(n)[1] = 1 /\ Digits(n)[2] = 0
<1>1. Base \in Nat /\ Base >= 2 /\ n \in Nat
  BY BaseAssumption
<1>2. CASE n < Base
  <2>1. Digits(n) = <<n>>
    BY <1>2 DEF Digits
  <2>2. QED
    BY <1>1, <1>2, <2>1
<1>3. CASE n = Base
  <2>1. Base \div Base = 1 /\ Base % Base = 0
    BY <1>1
  <2>2. Digits(n) = <<1, 0>>
    BY <1>3, <2>1 DEF Digits
  <2>3. QED
    BY <1>3, <2>2
<1>4. QED
  BY <1>1, <1>2, <1>3

LEMMA InnerTiles ==
  ASSUME NEW t \in Inner
  PROVE  t \in Tiles /\ Column(t) \in 1..Base /\ Row(t) \in 1..Base
<1>1. t \in Tiles /\ Column(t) \notin {0, Size - 1} /\ Row(t) \notin {0, Size - 1}
  BY DEF Inner
<1>2. Column(t) \in 0..(Size - 1) /\ Row(t) \in 0..(Size - 1)
  BY <1>1, Grid
<1>3. QED
  BY <1>1, <1>2, BaseAssumption, SizeAssumption

LEMMA DigitsJoined ==
  ASSUME NEW i \in 1..Base, NEW j \in 1..Base
  PROVE  Spelled(Digits(i) \o Digits(j), i, j)
<1> DEFINE a == Digits(i)
           b == Digits(j)
           x == a \o b
<1>1. /\ a \in Seq(Nat) /\ b \in Seq(Nat)
      /\ i < Base => Len(a) = 1 /\ a[1] = i
      /\ i = Base => Len(a) = 2 /\ a[1] = 1 /\ a[2] = 0
      /\ j < Base => Len(b) = 1 /\ b[1] = j
      /\ j = Base => Len(b) = 2 /\ b[1] = 1 /\ b[2] = 0
  BY DigitsAre
<1> HIDE DEF a, b
<1>3. /\ Len(x) = Len(a) + Len(b)
      /\ \A k \in 1..(Len(a) + Len(b)) :
           x[k] = IF k <= Len(a) THEN a[k] ELSE b[k - Len(a)]
  BY <1>1, ConcatProperties
<1> HIDE DEF x
<1>4. Spelled(x, i, j)
  <2>1. Base \in Nat /\ i \in Nat /\ j \in Nat /\ i <= Base /\ j <= Base
    BY BaseAssumption
  <2>2. CASE i < Base /\ j < Base
    <3>1. Len(a) = 1 /\ Len(b) = 1 /\ a[1] = i /\ b[1] = j
      BY <1>1, <2>2
    <3>2. Len(x) = 2 /\ x[1] = a[1] /\ x[2] = b[1]
      BY <1>3, <3>1
    <3>3. QED
      BY <2>2, <3>1, <3>2 DEF Spelled
  <2>3. CASE i < Base /\ j = Base
    <3>1. Len(a) = 1 /\ Len(b) = 2 /\ a[1] = i /\ b[1] = 1 /\ b[2] = 0
      BY <1>1, <2>3
    <3>2. Len(x) = 3 /\ x[1] = a[1] /\ x[2] = b[1] /\ x[3] = b[2]
      BY <1>3, <3>1
    <3>3. QED
      BY <2>3, <3>1, <3>2 DEF Spelled
  <2>4. CASE i = Base /\ j < Base
    <3>1. Len(a) = 2 /\ Len(b) = 1 /\ a[1] = 1 /\ a[2] = 0 /\ b[1] = j
      BY <1>1, <2>4
    <3>2. Len(x) = 3 /\ x[1] = a[1] /\ x[2] = a[2] /\ x[3] = b[1]
      BY <1>3, <3>1
    <3>3. QED
      BY <2>4, <3>1, <3>2 DEF Spelled
  <2>5. CASE i = Base /\ j = Base
    <3>1. Len(a) = 2 /\ Len(b) = 2
      BY <1>1, <2>5
    <3>2. Len(x) = 4
      BY <1>3, <3>1
    <3>3. QED
      BY <2>5, <3>2 DEF Spelled
  <2>6. QED
    BY <2>1, <2>2, <2>3, <2>4, <2>5
<1>5. QED
  BY <1>4 DEF x, a, b

LEMMA IdIs ==
  ASSUME NEW t \in Inner, NEW u \in Inner, Id(t) = Id(u)
  PROVE  t = u
<1> DEFINE a == Row(t)
           b == Column(t)
           c == Row(u)
           d == Column(u)
           x == Digits(a) \o Digits(b)
<1>1. /\ t \in Tiles /\ a \in 1..Base /\ b \in 1..Base
      /\ u \in Tiles /\ c \in 1..Base /\ d \in 1..Base
  BY InnerTiles
<1>2. x = Digits(c) \o Digits(d)
  BY DEF Id
<1>3. t = b + a * Size /\ u = d + c * Size
  BY <1>1, Grid
<1> HIDE DEF a, b, c, d
<1>4. Spelled(x, a, b)
  BY <1>1, DigitsJoined
<1> HIDE DEF x
<1>5. Spelled(x, c, d)
  BY <1>1, <1>2, DigitsJoined
<1>6. a = c /\ b = d
  BY <1>1, <1>4, <1>5 DEF Spelled
<1>7. QED
  BY <1>3, <1>6

-----------------------------------------------------------------------------
(***************************************************************************)
(* One neighbour of the node that is visited.  What has been visited keeps *)
(* its scores: a neighbour with a lower score would have come first.       *)
(***************************************************************************)
LEMMA TilesCounted ==
  ASSUME NEW V \in SUBSET Tiles
  PROVE  /\ IsFiniteSet(V) /\ Cardinality(V) \in Nat
         /\ Cardinality(V) <= Size * Size /\ Size * Size \in Nat
<1>1. Size * Size \in Nat /\ Size * Size > 0
  BY SizeSquared
<1> DEFINE m == Size * Size
<1> HIDE DEF m
<1>2. m \in Nat /\ m > 0 /\ Tiles = 0..(m - 1)
  BY <1>1 DEF Tiles, m
<1>3. IsFiniteSet(Tiles) /\ Cardinality(Tiles) = m
  <2>1. IsFiniteSet(0..(m - 1)) /\ Cardinality(0..(m - 1)) = IF 0 > m - 1 THEN 0 ELSE (m - 1) - 0 + 1
    BY <1>2, FS_Interval
  <2>2. QED
    BY <1>2, <2>1
<1>4. IsFiniteSet(V) /\ Cardinality(V) <= Cardinality(Tiles)
  BY <1>3, FS_Subset
<1>5. Cardinality(V) \in Nat
  BY <1>4, FS_CardinalityType
<1>6. QED
  BY <1>2, <1>3, <1>4, <1>5 DEF m

LEMMA SearchTypes ==
  ASSUME Problem, NEW s, NEW V, Sound(s, V)
  PROVE  /\ V \subseteq Tiles /\ Held(s.heap) \subseteq Tiles /\ Found(s) \subseteq Tiles
         /\ \A t \in Tiles : s.gScore[t] \in Nat /\ s.fScore[t] \in Nat
         /\ Scores(s.fScore)
<1>1. s \in Searches
  BY DEF Sound
<1>2. \A t \in Tiles : s.gScore[t] \in Nat /\ s.fScore[t] \in Nat
  BY <1>1 DEF Searches
<1>3. Found(s) \subseteq Tiles
  BY DEF Found
<1>4. QED
  BY <1>2, <1>3 DEF Sound, Scores

\* What is on the heap lies inside, and so has an id of its own.
LEMMA HeldFound ==
  ASSUME Problem, NEW s, NEW V, Sound(s, V), from \in V, NEW u \in Inner
  PROVE  ContainsNode(s.heap, u) <=> u \in Held(s.heap)
<1> DEFINE q == s.heap
           n == Len(q.nodes)
<1>1. DOMAIN q.positions = {Id(q.nodes[i]) : i \in 1..n}
  BY DEF Sound, IsHeap
<1>2. ASSUME NEW t \in Held(q) PROVE t \in Inner
  <2>1. t \in Found(s) \ {from}
    BY DEF Sound
  <2>2. t \in FreeNeighbours(map, s.cameFrom[t])
    BY <2>1 DEF Sound, Traced
  <2>3. t \in Tiles /\ map[t] <= Empty
    BY <2>1, <2>2 DEF FreeNeighbours, Found
  <2>4. map[t] \in Int /\ Empty \in Int
    BY <2>3 DEF Problem, Empty
  <2>5. QED
    BY <2>3, <2>4 DEF Problem
<1>3. ContainsNode(q, u) => u \in Held(q)
  <2>1. SUFFICES ASSUME NEW i \in 1..n, Id(u) = Id(q.nodes[i]) PROVE u \in Held(q)
    BY <1>1 DEF ContainsNode
  <2>2. q.nodes[i] \in Held(q)
    BY DEF Held
  <2>3. q.nodes[i] = u
    BY <1>2, <2>1, <2>2, IdIs
  <2>4. QED
    BY <2>2, <2>3
<1>4. u \in Held(q) => ContainsNode(q, u)
  BY <1>1 DEF ContainsNode, Held
<1>5. QED
  BY <1>3, <1>4

Reheap(s, u, f) ==
  IF ContainsNode(s.heap, u) THEN Update(s.heap, u, f) ELSE Insert(s.heap, u, f)

LEMMA ReheapIs ==
  ASSUME Problem, NEW s, NEW V, Sound(s, V), from \in V,
         NEW u \in Inner, u \notin V,
         NEW f \in [Tiles -> Nat], u \in Held(s.heap) => f[u] <= s.fScore[u],
         \A t \in Tiles \ {u} : f[t] = s.fScore[t]
  PROVE  LET r == Reheap(s, u, f)
         IN  IsHeap(r) /\ Held(r) = Held(s.heap) \cup {u} /\ Ordered(r, f)
<1> DEFINE q == s.heap
<1>1. u \in Tiles /\ Scores(f) /\ Scores(s.fScore)
  <2>1. u \in Tiles
    BY DEF Inner
  <2>2. QED
    BY <2>1, SearchTypes DEF Scores
<1>2. IsHeap(q) /\ Ordered(q, s.fScore) /\ Held(q) \subseteq Tiles
  BY SearchTypes DEF Sound
<1>3. CASE u \in Held(q)
  <2>1. Reheap(s, u, f) = Update(q, u, f)
    BY <1>3, HeldFound DEF Reheap
  <2>2. /\ IsHeap(Update(q, u, f)) /\ Held(Update(q, u, f)) = Held(q)
        /\ Ordered(Update(q, u, f), f)
    BY <1>1, <1>2, <1>3, UpdateIs
  <2>3. QED
    BY <1>3, <2>1, <2>2
<1>4. CASE u \notin Held(q)
  <2>1. ~ ContainsNode(q, u)
    BY <1>4, HeldFound
  <2>2. \A t \in Held(q) : f[t] = s.fScore[t]
    BY <1>2, <1>4
  <2>3. Ordered(q, f)
    BY <1>2, <2>2, OrderedBySame
  <2>4. Reheap(s, u, f) = Insert(q, u, f)
    BY <2>1 DEF Reheap
  <2>5. QED
    BY <1>1, <1>2, <2>1, <2>3, <2>4, InsertIs
<1>5. QED
  BY <1>3, <1>4

LEMMA RelaxIs ==
  ASSUME Problem, NEW s, NEW V, NEW c, NEW U, Visiting(s, V, c, U), NEW u
  PROVE  /\ Visiting(Relax(c, s, u), V, c, U \cup {u})
         /\ \A v \in V : Relax(c, s, u).gScore[v] = s.gScore[v]
<1> DEFINE g == s.gScore
           q == s.heap
           d == g[c] + 1
           f == [s.fScore EXCEPT ![u] = d + h(u)]
           r == Relax(c, s, u)
<1>1. /\ Sound(s, V) /\ from \in V /\ c \in V
      /\ \A v \in V : s.fScore[v] <= s.fScore[c]
      /\ \A v \in V \ {c} : Settled(s, v, Tiles)
      /\ Settled(s, c, U)
  BY DEF Visiting
<1>2. /\ V \subseteq Tiles /\ Held(q) \subseteq Tiles /\ Found(s) \subseteq Tiles
      /\ \A t \in Tiles : g[t] \in Nat /\ s.fScore[t] \in Nat
  BY <1>1, SearchTypes
<1>3. /\ s \in Searches
      /\ Found(s) = V \cup Held(q) /\ V \cap Held(q) = {}
      /\ \A t \in Found(s) : s.fScore[t] = g[t] + Distance(t, to)
      /\ \A v \in V : \A t \in Held(q) : s.fScore[v] <= s.fScore[t]
      /\ to \notin V /\ Traced(s, V) /\ Counted(s, V)
  BY <1>1 DEF Sound
<1>4. c \in Tiles /\ d \in Nat /\ to \in Tiles /\ from \in Tiles
  BY <1>1, <1>2 DEF Problem
<1>5. CASE u \notin Neighbours(c) \/ Blocked(u) \/ d >= g[u]
  <2>1. r = s
    BY <1>5 DEF Relax
  <2>2. u \in FreeNeighbours(map, c) => g[u] <= g[c] + 1
    <3>1. SUFFICES ASSUME u \in FreeNeighbours(map, c) PROVE g[u] <= d
      OBVIOUS
    <3>2. u \in Neighbours(c) /\ map[u] <= Empty /\ u \in Tiles
      BY <3>1, NeighboursAreTiles DEF FreeNeighbours
    <3>3. ~ Blocked(u)
      BY <3>2 DEF Problem, Blocked, Empty
    <3>4. g[u] \in Nat /\ d >= g[u]
      BY <1>2, <1>5, <3>2, <3>3
    <3>5. QED
      BY <1>4, <3>4
  <2>3. Settled(s, c, U \cup {u})
    BY <1>1, <2>2 DEF Settled
  <2>4. QED
    BY <1>1, <2>1, <2>3 DEF Visiting
<1>6. CASE ~ (u \notin Neighbours(c) \/ Blocked(u) \/ d >= g[u])
  <2>1. u \in Tiles /\ u \in Neighbours(c) /\ u \in FreeNeighbours(map, c) /\ d < g[u]
    <3>1. u \in Tiles /\ map[u] \in Int /\ g[u] \in Nat
      BY <1>2, <1>6, NeighboursAreTiles DEF Problem
    <3>2. QED
      BY <1>4, <1>6, <3>1 DEF FreeNeighbours, Blocked, Empty
  <2>2. u \in Inner
    BY <1>6, <2>1 DEF Problem, Blocked
  <2>3. /\ Distance(u, to) \in Nat /\ Distance(c, to) \in Nat
        /\ Distance(c, to) <= Distance(u, to) + 1
    BY <1>4, <2>1, DistanceIs
  <2>4. s.fScore[c] = g[c] + Distance(c, to)
    BY <1>1, <1>3
  <2>5. u \notin V
    <3>1. SUFFICES ASSUME u \in V PROVE FALSE
      OBVIOUS
    <3>2. s.fScore[u] = g[u] + Distance(u, to) /\ s.fScore[u] <= s.fScore[c]
      BY <1>1, <1>3, <3>1
    <3>3. QED
      BY <1>2, <1>4, <2>1, <2>3, <2>4, <3>2
  <2>6. d <= Cardinality(V) /\ Cardinality(V) \in Nat /\ d < Infinity
    <3>1. g[c] < Cardinality(V)
      BY <1>1, <1>3 DEF Counted
    <3>2. /\ Cardinality(V) \in Nat /\ Cardinality(V) <= Size * Size
          /\ Size * Size \in Nat /\ Size * Size < Infinity
      BY <1>2, TilesCounted, InfinityAssumption
    <3> DEFINE m == Size * Size
    <3> HIDE DEF m
    <3>3. /\ Cardinality(V) \in Nat /\ Cardinality(V) <= m
          /\ m \in Nat /\ m < Infinity
      BY <3>2 DEF m
    <3>4. g[c] \in Nat
      BY <1>2, <1>4
    <3>5. QED
      BY <3>1, <3>3, <3>4 DEF Infinity
  <2> DEFINE fu == d + Distance(u, to)
  <2>7. /\ f \in [Tiles -> Nat] /\ f[u] = fu /\ fu \in Nat
        /\ \A t \in Tiles \ {u} : f[t] = s.fScore[t]
        /\ s.fScore[c] <= fu
    <3>1. f = [s.fScore EXCEPT ![u] = fu] /\ fu \in Nat
      BY <1>4, <2>3 DEF h
    <3>2. s.fScore \in [Tiles -> Nat]
      BY <1>3 DEF Searches
    <3>3. s.fScore[c] <= fu
      BY <1>2, <1>4, <2>3, <2>4
    <3> HIDE DEF fu, f
    <3>4. QED
      BY <2>1, <3>1, <3>2, <3>3
  <2>8. u \in Held(q) => f[u] <= s.fScore[u]
    <3>1. SUFFICES ASSUME u \in Held(q) PROVE fu <= s.fScore[u]
      BY <2>7
    <3>2. s.fScore[u] = g[u] + Distance(u, to)
      BY <1>3, <3>1
    <3>3. QED
      BY <1>2, <1>4, <2>1, <2>3, <3>2
  <2> DEFINE H == Reheap(s, u, f)
             gn == [g EXCEPT ![u] = d]
             cn == [s.cameFrom EXCEPT ![u] = c]
  <2>9. r = [heap |-> H, gScore |-> gn, fScore |-> f, cameFrom |-> cn]
    BY <1>6 DEF Relax, Reheap
  <2>10. IsHeap(H) /\ Held(H) = Held(q) \cup {u} /\ Ordered(H, f)
    <3> HIDE DEF f, fu
    <3>1. QED
      BY <1>1, <2>2, <2>5, <2>7, <2>8, ReheapIs
  <2> HIDE DEF H, f, r, fu
  <2>11. /\ gn \in [Tiles -> Nat] /\ gn[u] = d
         /\ \A t \in Tiles \ {u} : gn[t] = g[t]
         /\ cn \in [Tiles -> Tiles \cup {NoTile}] /\ cn[u] = c
         /\ \A t \in Tiles \ {u} : cn[t] = s.cameFrom[t]
    <3>1. g \in [Tiles -> Nat] /\ s.cameFrom \in [Tiles -> Tiles \cup {NoTile}]
      BY <1>3 DEF Searches
    <3> HIDE DEF d
    <3>2. QED
      BY <1>4, <2>1, <3>1
  <2> HIDE DEF gn, cn
  <2>12. r.heap = H /\ r.gScore = gn /\ r.fScore = f /\ r.cameFrom = cn
    BY <2>9
  <2>13. Found(r) = Found(s) \cup {u}
    BY <1>4, <2>1, <2>6, <2>11, <2>12 DEF Found
  <2>14. r \in Searches
    <3>1. H \in Heaps
      BY <2>10 DEF IsHeap
    <3>2. QED
      BY <2>7, <2>9, <2>11, <3>1 DEF Searches
  <2>15. c # u /\ from # u /\ \A v \in V : v # u /\ v \in Tiles
    BY <1>1, <1>2, <2>5
  <2>16. \A t \in Found(r) : f[t] = gn[t] + Distance(t, to)
    <3>1. f[u] = gn[u] + Distance(u, to)
      BY <2>7, <2>11 DEF fu
    <3>2. ASSUME NEW t \in Found(s), t # u PROVE f[t] = gn[t] + Distance(t, to)
      BY <1>2, <1>3, <2>7, <2>11, <3>2
    <3>3. QED
      BY <2>13, <3>1, <3>2
  <2>17. \A v \in V : \A t \in Held(H) : f[v] <= f[t]
    <3>1. ASSUME NEW v \in V PROVE f[v] = s.fScore[v] /\ f[v] <= f[u]
      <4>1. f[v] = s.fScore[v] /\ s.fScore[v] <= s.fScore[c]
        BY <1>1, <2>7, <2>15
      <4>2. s.fScore[v] \in Nat /\ s.fScore[c] \in Nat
        BY <1>2, <1>4, <2>15
      <4>3. QED
        BY <2>7, <4>1, <4>2
    <3>2. ASSUME NEW t \in Held(q), t # u PROVE f[t] = s.fScore[t]
      BY <1>2, <2>7, <3>2
    <3>3. QED
      BY <1>3, <2>10, <3>1, <3>2
  <2>18. Traced(r, V)
    <3>1. gn[from] = 0 /\ cn[from] = NoTile
      BY <1>3, <1>4, <2>11, <2>15 DEF Traced
    <3>2. \A t \in Tiles \ Found(r) : cn[t] = NoTile
      BY <1>3, <2>11, <2>13 DEF Traced
    <3>3. ASSUME NEW t \in Found(s) \ {from}, t # u
          PROVE  /\ cn[t] \in V /\ t \in FreeNeighbours(map, cn[t])
                 /\ gn[t] = gn[cn[t]] + 1
      <4>1. /\ s.cameFrom[t] \in V
            /\ t \in FreeNeighbours(map, s.cameFrom[t])
            /\ g[t] = g[s.cameFrom[t]] + 1
        BY <1>3 DEF Traced
      <4>2. cn[t] = s.cameFrom[t] /\ gn[t] = g[t]
        BY <1>2, <2>11, <3>3
      <4>3. gn[cn[t]] = g[cn[t]]
        BY <2>11, <2>15, <4>1, <4>2
      <4>4. QED
        BY <4>1, <4>2, <4>3
    <3>4. cn[u] \in V /\ u \in FreeNeighbours(map, cn[u]) /\ gn[u] = gn[cn[u]] + 1
      BY <1>1, <1>4, <2>1, <2>11, <2>15
    <3>5. \A t \in Found(r) \ {from} :
            cn[t] \in V /\ t \in FreeNeighbours(map, cn[t]) /\ gn[t] = gn[cn[t]] + 1
      BY <2>13, <3>3, <3>4
    <3>6. QED
      BY <2>12, <3>1, <3>2, <3>5 DEF Traced
  <2>19. Counted(r, V)
    <3>1. \A t \in V : gn[t] < Cardinality(V)
      BY <1>3, <2>11, <2>15 DEF Counted
    <3>2. \A t \in Held(q) : gn[t] <= Cardinality(V)
      BY <1>2, <1>3, <2>6, <2>11 DEF Counted
    <3>3. QED
      BY <2>6, <2>10, <2>11, <2>12, <3>1, <3>2 DEF Counted
  <2>20. Sound(r, V)
    <3>1. Found(r) = V \cup Held(H) /\ V \cap Held(H) = {}
      BY <1>3, <2>5, <2>10, <2>13
    <3>2. QED
      BY <1>1, <1>3, <2>10, <2>12, <2>14, <2>16, <2>17, <2>18, <2>19, <3>1 DEF Sound
  <2>21. \A v \in V : gn[v] = g[v] /\ f[v] = s.fScore[v]
    BY <2>7, <2>11, <2>15
  <2>22. \A t \in Tiles : gn[t] <= g[t] /\ gn[t] \in Nat
    BY <1>2, <1>4, <2>1, <2>11
  <2>23. ASSUME NEW v \in V, NEW W, Settled(s, v, W)
         PROVE  Settled(r, v, W)
    <3>1. ASSUME NEW t \in FreeNeighbours(map, v) \cap W PROVE gn[t] <= gn[v] + 1
      <4>1. t \in Tiles /\ v \in Tiles
        BY <1>2, NeighboursAreTiles DEF FreeNeighbours
      <4>2. g[t] <= g[v] + 1 /\ gn[v] = g[v]
        BY <2>21, <2>23 DEF Settled
      <4>3. gn[t] <= g[t] /\ gn[t] \in Nat /\ g[t] \in Nat /\ g[v] \in Nat
        BY <1>2, <2>22, <4>1
      <4>4. QED
        BY <4>2, <4>3
    <3>2. QED
      BY <2>12, <3>1 DEF Settled
  <2>24. Settled(r, c, U \cup {u})
    <3>1. Settled(r, c, U)
      BY <1>1, <2>23
    <3>2. gn[u] <= gn[c] + 1
      BY <1>1, <1>4, <2>11, <2>21
    <3>3. QED
      BY <2>12, <3>1, <3>2 DEF Settled
  <2>25. \A v \in V : r.fScore[v] <= r.fScore[c]
    BY <1>1, <2>12, <2>21
  <2>26. \A v \in V \ {c} : Settled(r, v, Tiles)
    BY <1>1, <2>23
  <2>27. Visiting(r, V, c, U \cup {u})
    BY <1>1, <2>20, <2>24, <2>25, <2>26 DEF Visiting
  <2>28. QED
    BY <2>12, <2>21, <2>27 DEF r
<1>7. QED
  BY <1>5, <1>6

\* The first node leaves the heap: none has a lower score.
LEMMA VisitBegins ==
  ASSUME Problem, NEW s, NEW V, Sound(s, V), \A v \in V : Settled(s, v, Tiles),
         s.heap.nodes # <<>>, s.heap.nodes[1] # to
  PROVE  Visiting([s EXCEPT !.heap = RemoveNode(@, s.fScore)],
                  V \cup {s.heap.nodes[1]}, s.heap.nodes[1], {})
<1> DEFINE q == s.heap
           c == q.nodes[1]
           g == s.gScore
           f == s.fScore
           H == RemoveNode(q, f)
           r == [s EXCEPT !.heap = H]
           W == V \cup {c}
<1>1. /\ V \subseteq Tiles /\ Held(q) \subseteq Tiles /\ Found(s) \subseteq Tiles
      /\ \A t \in Tiles : g[t] \in Nat /\ f[t] \in Nat
      /\ Scores(f)
  BY SearchTypes
<1>2. /\ s \in Searches /\ IsHeap(q) /\ Ordered(q, f)
      /\ Found(s) = V \cup Held(q) /\ V \cap Held(q) = {}
      /\ from \in Found(s) /\ to \notin V
      /\ from \in V \/ Held(q) = {from}
      /\ \A t \in Found(s) : f[t] = g[t] + Distance(t, to)
      /\ \A v \in V : \A t \in Held(q) : f[v] <= f[t]
      /\ Traced(s, V) /\ Counted(s, V)
  BY DEF Sound
<1>3. /\ IsHeap(H) /\ Held(H) = Held(q) \ {c} /\ Ordered(H, f)
      /\ c \in Held(q) /\ \A t \in Held(q) : f[c] <= f[t]
  BY <1>1, <1>2, RemoveNodeIs
<1> HIDE DEF H
<1>4. s = [heap |-> q, gScore |-> g, fScore |-> f, cameFrom |-> s.cameFrom]
  BY <1>2 DEF Searches
<1>5. r = [heap |-> H, gScore |-> g, fScore |-> f, cameFrom |-> s.cameFrom]
  BY <1>4
<1> HIDE DEF c, r
<1>6. r.heap = H /\ r.gScore = g /\ r.fScore = f /\ r.cameFrom = s.cameFrom
  BY <1>5
<1>7. r \in Searches
  <2>1. H \in Heaps
    BY <1>3 DEF IsHeap
  <2>2. QED
    BY <1>2, <1>5, <2>1 DEF Searches
<1>8. Found(r) = Found(s)
  BY <1>6 DEF Found
<1>9. c \in Tiles /\ c \notin V /\ c # to /\ from \in W
  BY <1>1, <1>2, <1>3 DEF c
<1>10. Found(r) = W \cup Held(H) /\ W \cap Held(H) = {}
  BY <1>2, <1>3, <1>8, <1>9
<1>11. \A v \in W : \A t \in Held(H) : f[v] <= f[t]
  BY <1>2, <1>3
<1>12. Traced(r, W)
  BY <1>2, <1>6, <1>8 DEF Traced
<1>13. Counted(r, W)
  <2>1. /\ IsFiniteSet(V) /\ Cardinality(V) \in Nat
    BY <1>1, TilesCounted
  <2>2. Cardinality(W) = Cardinality(V) + 1
    BY <1>9, <2>1, FS_AddElement
  <2>3. \A t \in V : g[t] < Cardinality(W)
    BY <1>1, <1>2, <2>1, <2>2 DEF Counted
  <2>4. \A t \in Held(q) : g[t] < Cardinality(W) /\ g[t] <= Cardinality(W)
    BY <1>1, <1>2, <2>1, <2>2 DEF Counted
  <2>5. QED
    BY <1>3, <1>6, <2>3, <2>4 DEF Counted
<1>14. Sound(r, W)
  BY <1>2, <1>3, <1>6, <1>7, <1>8, <1>9, <1>10, <1>11, <1>12, <1>13 DEF Sound
<1>15. \A v \in W : f[v] <= f[c]
  <2>1. f[c] \in Nat
    BY <1>1, <1>9
  <2>2. QED
    BY <1>2, <1>3, <2>1
<1>16. \A v \in W \ {c} : Settled(r, v, Tiles)
  BY <1>6 DEF Settled
<1>17. Settled(r, c, {})
  BY DEF Settled
<1>18. Visiting(r, W, c, {})
  BY <1>6, <1>9, <1>14, <1>15, <1>16, <1>17 DEF Visiting
<1>19. QED
  BY <1>18 DEF r, H, c

LEMMA VisitIs ==
  ASSUME Problem, NEW s, NEW V, Sound(s, V), \A v \in V : Settled(s, v, Tiles),
         s.heap.nodes # <<>>, s.heap.nodes[1] # to
  PROVE  LET c == s.heap.nodes[1]
             r == RelaxAll(c, [s EXCEPT !.heap = RemoveNode(@, s.fScore)])
         IN  /\ Sound(r, V \cup {c})
             /\ \A v \in V \cup {c} : Settled(r, v, Tiles)
             /\ \A v \in V : r.gScore[v] = s.gScore[v]
<1> DEFINE c == s.heap.nodes[1]
           W == V \cup {c}
           s0 == [s EXCEPT !.heap = RemoveNode(@, s.fScore)]
           s1 == Relax(c, s0, c - Size)
           s2 == Relax(c, s1, c + Size)
           s3 == Relax(c, s2, c - 1)
           s4 == Relax(c, s3, c + 1)
           U0 == {}
           U1 == U0 \cup {c - Size}
           U2 == U1 \cup {c + Size}
           U3 == U2 \cup {c - 1}
           U == U3 \cup {c + 1}
<1>1. Visiting(s0, W, c, U0)
  BY VisitBegins
<1>2. s0.gScore = s.gScore
  BY DEF Sound, Searches
<1>3. RelaxAll(c, s0) = s4
  BY DEF RelaxAll
<1> DEFINE up == c - Size
           down == c + Size
           before == c - 1
           next == c + 1
<1> HIDE DEF s0, c, W, U0, up, down, before, next
<1>4. /\ Visiting(s1, W, c, U1)
      /\ \A v \in W : s1.gScore[v] = s0.gScore[v]
  <2>1. s1 = Relax(c, s0, up) /\ U1 = U0 \cup {up}
    BY DEF up
  <2> HIDE DEF s1, U1
  <2>2. QED
    BY <1>1, <2>1, RelaxIs
<1> HIDE DEF s1, U1
<1>5. /\ Visiting(s2, W, c, U2)
      /\ \A v \in W : s2.gScore[v] = s1.gScore[v]
  <2>1. s2 = Relax(c, s1, down) /\ U2 = U1 \cup {down}
    BY DEF down
  <2> HIDE DEF s2, U2
  <2>2. QED
    BY <1>4, <2>1, RelaxIs
<1> HIDE DEF s2, U2
<1>6. /\ Visiting(s3, W, c, U3)
      /\ \A v \in W : s3.gScore[v] = s2.gScore[v]
  <2>1. s3 = Relax(c, s2, before) /\ U3 = U2 \cup {before}
    BY DEF before
  <2> HIDE DEF s3, U3
  <2>2. QED
    BY <1>5, <2>1, RelaxIs
<1> HIDE DEF s3, U3
<1>7. /\ Visiting(s4, W, c, U)
      /\ \A v \in W : s4.gScore[v] = s3.gScore[v]
  <2>1. s4 = Relax(c, s3, next) /\ U = U3 \cup {next}
    BY DEF next
  <2> HIDE DEF s4, U
  <2>2. QED
    BY <1>6, <2>1, RelaxIs
<1> HIDE DEF s4
<1>8. FreeNeighbours(map, c) \subseteq U
  BY DEF FreeNeighbours, Neighbours, U3, U2, U1
<1> HIDE DEF U
<1>9. Settled(s4, c, Tiles)
  BY <1>7, <1>8 DEF Visiting, Settled
<1>10. Sound(s4, W) /\ \A v \in W : Settled(s4, v, Tiles)
  BY <1>7, <1>9 DEF Visiting
<1>11. \A v \in W : s4.gScore[v] = s.gScore[v]
  BY <1>2, <1>4, <1>5, <1>6, <1>7 DEF W
<1>12. QED
  BY <1>3, <1>10, <1>11 DEF c, s0, W

-----------------------------------------------------------------------------
(***************************************************************************)
(* The path that is returned.                                              *)
(***************************************************************************)
\* Steps back from the destination: each is one step nearer to the start.
Traces(s) ==
  {p \in Seq(Tiles) :
     /\ IsWalk(map, p) /\ p[Len(p)] = to /\ p[1] \in Found(s)
     /\ Len(p) + s.gScore[p[1]] = s.gScore[to] + 1}

StepBack(cameFrom, p) ==
  IF cameFrom[Head(p)] = NoTile THEN p ELSE <<cameFrom[Head(p)]>> \o p

LEMMA StepBackIs ==
  ASSUME Problem, NEW s, NEW V, Sound(s, V), NEW p \in Traces(s)
  PROVE  LET r == StepBack(s.cameFrom, p)
         IN  /\ r \in Traces(s)
             /\ r = p \/ s.gScore[r[1]] < s.gScore[p[1]]
             /\ r = p => p[1] = from
<1> DEFINE t == p[1]
           u == s.cameFrom[t]
           r == StepBack(s.cameFrom, p)
           n == Len(p)
<1>1. /\ p \in Seq(Tiles) /\ n \in Nat \ {0} /\ p[n] = to /\ t \in Found(s)
      /\ \A i \in 1..(n - 1) : p[i + 1] \in FreeNeighbours(map, p[i])
      /\ n + s.gScore[t] = s.gScore[to] + 1
  BY DEF Traces, IsWalk
<1>2. Head(p) = t
  BY <1>1
<1>3. CASE u = NoTile
  <2>1. r = p
    BY <1>2, <1>3 DEF StepBack
  <2>2. t = from
    <3>1. SUFFICES ASSUME t # from PROVE FALSE
      OBVIOUS
    <3>2. u \in V /\ V \subseteq Tiles
      BY <1>1, <3>1, SearchTypes DEF Sound, Traced
    <3>3. NoTile \notin Tiles
      BY SizeSquared DEF NoTile, Tiles
    <3>4. QED
      BY <1>3, <3>2, <3>3
  <2>3. QED
    BY <2>1, <2>2
<1>4. CASE u # NoTile
  <2>1. t # from
    BY <1>4 DEF Sound, Traced
  <2>2. /\ u \in V /\ t \in FreeNeighbours(map, u) /\ s.gScore[t] = s.gScore[u] + 1
    BY <1>1, <2>1 DEF Sound, Traced
  <2>3. u \in Tiles /\ u \in Found(s) /\ s.gScore[u] \in Nat /\ s.gScore[t] \in Nat
    BY <1>1, <2>2, SearchTypes DEF Sound
  <2>4. r = <<u>> \o p
    BY <1>2, <1>4 DEF StepBack
  <2> HIDE DEF u, r, t, n
  <2>5. /\ r \in Seq(Tiles) /\ Len(r) = n + 1 /\ r[1] = u
        /\ \A i \in 1..n : r[i + 1] = p[i]
    <3>1. <<u>> \in Seq(Tiles) /\ Len(<<u>>) = 1 /\ <<u>>[1] = u
      BY <2>3
    <3>2. /\ r \in Seq(Tiles) /\ Len(r) = 1 + n
          /\ \A i \in 1..(1 + n) : r[i] = IF i <= 1 THEN <<u>>[i] ELSE p[i - 1]
      BY <1>1, <2>4, <3>1, ConcatProperties DEF n
    <3>3. QED
      BY <1>1, <3>1, <3>2
  <2>6. ASSUME NEW i \in 1..(Len(r) - 1) PROVE r[i + 1] \in FreeNeighbours(map, r[i])
    <3>1. i \in 1..n
      BY <1>1, <2>5
    <3>2. CASE i = 1
      <4>1. r[i + 1] = t /\ r[i] = u
        BY <1>1, <2>5, <3>1, <3>2 DEF t
      <4>2. QED
        BY <2>2, <4>1
    <3>3. CASE i # 1
      <4>1. i - 1 \in 1..(n - 1) /\ i - 1 \in 1..n /\ (i - 1) + 1 = i
        BY <1>1, <3>1, <3>3
      <4>2. r[i + 1] = p[i] /\ r[i] = p[i - 1] /\ p[i] \in FreeNeighbours(map, p[i - 1])
        BY <1>1, <2>5, <3>1, <4>1
      <4>3. QED
        BY <4>2
    <3>4. QED
      BY <3>2, <3>3
  <2>7. r[Len(r)] = to /\ Len(r) \in Nat \ {0}
    BY <1>1, <2>5
  <2>8. Len(r) + s.gScore[r[1]] = s.gScore[to] + 1
    BY <1>1, <2>2, <2>3, <2>5
  <2>9. r \in Traces(s)
    BY <2>3, <2>5, <2>6, <2>7, <2>8 DEF Traces, IsWalk
  <2>10. s.gScore[r[1]] < s.gScore[t] /\ r # p
    BY <1>1, <2>2, <2>3, <2>5 DEF n
  <2>11. QED
    BY <2>9, <2>10 DEF r, t
<1>5. QED
  BY <1>3, <1>4

LEMMA PathToIs ==
  ASSUME Problem, NEW s, NEW V, Sound(s, V), to \in Found(s)
  PROVE  LET p == PathTo(s.cameFrom, to)
         IN  /\ IsWalk(map, p) /\ p[1] = from /\ p[Len(p)] = to
             /\ Len(p) = s.gScore[to] + 1
<1> DEFINE m == Size * Size
           c == <<to>>
           W == Traces(s)
           next == [p \in W |-> StepBack(s.cameFrom, p)]
           mu == [p \in W |-> s.gScore[p[1]]]
           G == [k \in 1..m |-> next]
           Body(g) == [n \in 0..m |-> IF n = 0 THEN c ELSE StepBack(s.cameFrom, g[n - 1])]
           Loop == CHOOSE g : g = Body(g)
<1>1. m \in Nat
  BY SizeSquared
<1>2. /\ \A t \in Tiles : s.gScore[t] \in Nat
      /\ s.gScore[to] <= m
  <2>1. \A t \in Tiles : s.gScore[t] \in Nat
    BY SearchTypes
  <2>2. to \in Tiles
    BY DEF Problem
  <2>3. V \subseteq Tiles /\ Found(s) = V \cup Held(s.heap) /\ Counted(s, V)
    BY SearchTypes DEF Sound
  <2>4. s.gScore[to] <= Cardinality(V)
    BY <2>1, <2>2, <2>3, TilesCounted DEF Counted
  <2>5. Cardinality(V) <= m /\ Cardinality(V) \in Nat
    BY <2>3, TilesCounted
  <2> HIDE DEF m
  <2>6. QED
    BY <1>1, <2>1, <2>2, <2>4, <2>5
<1>3. c \in W
  <2>1. to \in Tiles /\ s.gScore[to] \in Nat
    BY <1>2 DEF Problem
  <2>2. c \in Seq(Tiles) /\ Len(c) = 1 /\ c[1] = to
    BY <2>1
  <2> HIDE DEF c
  <2>3. IsWalk(map, c)
    BY <2>2 DEF IsWalk
  <2>4. /\ c[Len(c)] = to /\ c[1] \in Found(s)
        /\ Len(c) + s.gScore[c[1]] = s.gScore[to] + 1
    BY <2>1, <2>2
  <2>5. QED
    BY <2>2, <2>3, <2>4 DEF Traces
<1>4. /\ \A p \in W : next[p] \in W /\ mu[p] \in Nat
      /\ \A p \in W : next[p] = p \/ mu[next[p]] < mu[p]
      /\ \A p \in W : next[p] = p => p[1] = from
  <2>1. ASSUME NEW p \in W
        PROVE  LET r == StepBack(s.cameFrom, p)
               IN  /\ r \in W
                   /\ r = p \/ s.gScore[r[1]] < s.gScore[p[1]]
                   /\ r = p => p[1] = from
    BY <2>1, StepBackIs
  <2>2. \A p \in W : p[1] \in Tiles
    BY DEF Traces, Found
  <2> HIDE DEF W
  <2>3. \A p \in W : mu[p] = s.gScore[p[1]] /\ next[p] = StepBack(s.cameFrom, p)
    OBVIOUS
  <2> HIDE DEF mu, next
  <2>4. \A p \in W : next[p] \in W
    BY <2>1, <2>3
  <2>5. ASSUME NEW p \in W PROVE next[p] = p \/ mu[next[p]] < mu[p]
    BY <2>1, <2>3, <2>4
  <2>6. QED
    BY <1>2, <2>1, <2>2, <2>3, <2>4, <2>5
<1>5. \A k \in 1..m : G[k] = next
  OBVIOUS
<1>6. \A p \in W : next[p] = StepBack(s.cameFrom, p) /\ mu[p] = s.gScore[p[1]]
  OBVIOUS
<1>7. PathTo(s.cameFrom, to) = Loop[m]
  BY Zenon DEF PathTo, StepBack
<1>13. c[1] = to
  OBVIOUS
<1> HIDE DEF c, next, mu, G, m, W
<1>8. StepsStay(W, m, G)
  BY <1>4, <1>5 DEF StepsStay
<1>9. PICK g : Iterates(g, W, c, m, G)
  BY <1>1, <1>3, <1>8, Iteration
<1>10. ASSUME NEW n \in 1..m PROVE g[n] = StepBack(s.cameFrom, g[n - 1])
  <2>1. g[n - 1] \in W
    BY <1>1, <1>9 DEF Iterates
  <2>2. QED
    BY <1>5, <1>6, <1>9, <2>1 DEF Iterates
<1>11. g = Body(g)
  BY <1>1, <1>9, <1>10 DEF Iterates
<1>12. Loop = Body(Loop)
  <2> HIDE DEF Body
  <2>1. QED
    BY <1>11, Zenon
<1> HIDE DEF Loop
<1>14. Loop[0] = c /\ \A n \in 1..m : Loop[n] = StepBack(s.cameFrom, Loop[n - 1])
  <2>1. /\ Body(Loop)[0] = c
        /\ \A n \in 1..m : Body(Loop)[n] = StepBack(s.cameFrom, Loop[n - 1])
    BY <1>1
  <2> HIDE DEF Body
  <2>2. QED
    BY <1>12, <2>1
<1>15. \A n \in 0..m : Loop[n] \in W
  <2>1. \A n \in 1..m : Loop[n - 1] \in W => Loop[n] \in W
    BY <1>4, <1>6, <1>14
  <2>2. QED
    BY <1>1, <1>3, <1>14, <2>1, StaysIn
<1>16. \A n \in 1..m : Loop[n] = next[Loop[n - 1]]
  <2>1. ASSUME NEW n \in 1..m PROVE Loop[n - 1] \in W
    BY <1>1, <1>15
  <2>2. QED
    BY <1>6, <1>14, <2>1
<1>17. Loop[m] \in W /\ next[Loop[m]] = Loop[m]
  <2>1. mu[c] <= m
    BY <1>2, <1>3, <1>6, <1>13
  <2>2. Terminates(Loop, W, m, next, mu)
    BY <1>3, <1>4, <1>14, <1>16, <2>1 DEF Terminates
  <2>3. QED
    BY <1>1, <2>2, LoopEnds
<1> DEFINE p == Loop[m]
<1> HIDE DEF p
<1>18. p \in Traces(s) /\ p[1] = from
  BY <1>4, <1>17 DEF W, p
<1>19. s.gScore[from] = 0
  BY DEF Sound, Traced
<1>20. Len(p) + s.gScore[from] = s.gScore[to] + 1 /\ Len(p) \in Nat /\ IsWalk(map, p)
       /\ p[Len(p)] = to
  BY <1>18 DEF Traces
<1>21. s.gScore[to] \in Nat
  BY <1>2 DEF Problem
<1>22. Len(p) = s.gScore[to] + 1
  BY <1>19, <1>20, <1>21
<1>23. QED
  BY <1>7, <1>18, <1>20, <1>22 DEF p

LEMMA HeapConsistentIs ==
  ASSUME NEW V, Sound(search, V)
  PROVE  HeapConsistent
<1> DEFINE q == search.heap
           n == Len(q.nodes)
<1>1. IsHeap(q) /\ Ordered(q, search.fScore)
  BY DEF Sound
<1>2. q.nodes \in Seq(Tiles) /\ n \in Nat /\ DOMAIN q.nodes = 1..n
  BY <1>1, HeapNodes
<1>3. Cardinality(DOMAIN q.positions) = n
  <2> DEFINE D == DOMAIN q.positions
             b == [i \in 1..n |-> Id(q.nodes[i])]
  <2>1. D = {Id(q.nodes[i]) : i \in 1..n}
    BY <1>1 DEF IsHeap
  <2>2. b \in Bijection(1..n, D)
    <3>1. b \in [1..n -> D]
      BY <2>1
    <3>2. \A i, j \in 1..n : b[i] = b[j] => i = j
      BY <1>1 DEF IsHeap
    <3>3. \A x \in D : \E i \in 1..n : b[i] = x
      BY <2>1
    <3> HIDE DEF b
    <3>4. QED
      BY <3>1, <3>2, <3>3 DEF Bijection, Injection, Surjection, IsInjective
  <2>3. IsFiniteSet(1..n) /\ Cardinality(1..n) = n
    <3>1. Cardinality(1..n) = IF 1 > n THEN 0 ELSE n - 1 + 1
      BY <1>2, FS_Interval
    <3>2. IsFiniteSet(1..n)
      BY <1>2, FS_Interval
    <3>3. QED
      BY <1>2, <3>1, <3>2
  <2>4. ExistsBijection(1..n, D)
    BY <2>2 DEF ExistsBijection
  <2>5. QED
    BY <2>3, <2>4, FS_Bijection
<1>4. QED
  BY <1>1, <1>2, <1>3 DEF HeapConsistent, IsHeap, Ordered

\* The heap is empty: no path leaves the tiles that have been visited.
LEMMA NothingLeft ==
  ASSUME Problem, NEW s, NEW V, Sound(s, V), \A v \in V : Settled(s, v, Tiles),
         s.heap.nodes = <<>>
  PROVE  s.cameFrom[to] = NoTile /\ ShortestPaths(map, from, to) = {}
<1>1. Held(s.heap) = {}
  BY DEF Held
<1>2. /\ Found(s) = V /\ from \in V /\ to \notin V /\ V \subseteq Tiles
      /\ Traced(s, V) /\ Counted(s, V)
  BY <1>1, SearchTypes DEF Sound
<1>3. s.cameFrom[to] = NoTile
  BY <1>2 DEF Problem, Traced
<1>4. ASSUME NEW t \in V PROVE FreeNeighbours(map, t) \subseteq V
  <2>1. SUFFICES ASSUME NEW u \in FreeNeighbours(map, t) PROVE u \in Found(s)
    BY <1>2
  <2>2. u \in Tiles /\ t \in Tiles
    BY <1>2, NeighboursAreTiles DEF FreeNeighbours
  <2>3. s.gScore[u] <= s.gScore[t] + 1
    BY <2>2 DEF Settled
  <2>4. s.gScore[t] < Cardinality(V) /\ s.gScore[t] \in Nat /\ s.gScore[u] \in Nat
    BY <1>2, <2>2, SearchTypes DEF Counted
  <2> DEFINE m == Size * Size
  <2>5. Cardinality(V) \in Nat /\ Cardinality(V) <= m /\ m \in Nat /\ m < Infinity
    BY <1>2, TilesCounted, InfinityAssumption
  <2> HIDE DEF m
  <2>6. s.gScore[u] < Infinity
    BY <2>3, <2>4, <2>5 DEF Infinity
  <2>7. QED
    BY <2>2, <2>4, <2>6 DEF Found, Infinity
<1>5. ShortestPaths(map, from, to) = {}
  BY <1>2, <1>4, NoPathOut DEF Problem
<1>6. QED
  BY <1>3, <1>5

\* The destination is the first node: no walk to it is shorter than the one
\* that leads back.  The distance of a tile that has not been visited is
\* at least what the destination's is without the rest of the way.
LEMMA DestinationNext ==
  ASSUME Problem, NEW s, NEW V, Sound(s, V), \A v \in V : Settled(s, v, Tiles),
         s.heap.nodes # <<>>, s.heap.nodes[1] = to, from # to
  PROVE  /\ s.cameFrom[to] # NoTile
         /\ PathTo(s.cameFrom, to) \in ShortestPaths(map, from, to)
<1> DEFINE q == s.heap
           g == s.gScore
           f == s.fScore
           p == PathTo(s.cameFrom, to)
           D == [t \in Tiles |-> IF t \in V THEN g[t] ELSE g[to] - Distance(t, to)]
<1>1. /\ V \subseteq Tiles /\ Held(q) \subseteq Tiles
      /\ \A t \in Tiles : g[t] \in Nat /\ f[t] \in Nat
      /\ Scores(f) /\ to \in Tiles /\ from \in Tiles
  BY SearchTypes DEF Problem
<1>2. /\ IsHeap(q) /\ Ordered(q, f)
      /\ Found(s) = V \cup Held(q)
      /\ to \notin V
      /\ from \in V \/ Held(q) = {from}
      /\ \A t \in Found(s) : f[t] = g[t] + Distance(t, to)
      /\ \A v \in V : \A t \in Held(q) : f[v] <= f[t]
      /\ Traced(s, V) /\ Counted(s, V)
  BY DEF Sound
<1>3. to \in Held(q) /\ \A t \in Held(q) : f[to] <= f[t]
  BY <1>1, <1>2, RemoveNodeIs
<1>4. from \in V /\ to \in Found(s)
  BY <1>2, <1>3
<1>5. s.cameFrom[to] # NoTile
  <2>1. s.cameFrom[to] \in V
    BY <1>2, <1>4 DEF Traced
  <2>2. NoTile \notin Tiles
    BY SizeSquared DEF NoTile, Tiles
  <2>3. QED
    BY <1>1, <2>1, <2>2
<1>6. IsWalk(map, p) /\ p[1] = from /\ p[Len(p)] = to /\ Len(p) = g[to] + 1
  BY <1>4, PathToIs
<1>7. f[to] = g[to] /\ Distance(to, to) = 0
  <2>1. Distance(to, to) = 0
    BY <1>1, DistanceIs
  <2>2. QED
    BY <1>1, <1>2, <1>4, <2>1
<1>8. /\ \A t \in Tiles : D[t] = IF t \in V THEN g[t] ELSE g[to] - Distance(t, to)
      /\ \A t \in Tiles : Distance(t, to) \in Nat
      /\ D \in [Tiles -> Int]
  <2>1. \A t \in Tiles : Distance(t, to) \in Nat
    BY <1>1, DistanceIs
  <2>2. QED
    BY <1>1, <2>1
<1> HIDE DEF D
<1>9. D[from] = 0 /\ D[to] = g[to]
  <2>1. g[from] = 0
    BY <1>2 DEF Traced
  <2>2. QED
    BY <1>1, <1>2, <1>4, <1>7, <1>8, <2>1
<1>10. ASSUME NEW t \in Tiles, NEW u \in FreeNeighbours(map, t)
       PROVE  D[u] <= D[t] + 1
  <2>1. u \in Tiles /\ u \in Neighbours(t)
    BY NeighboursAreTiles DEF FreeNeighbours
  <2>2. /\ Distance(t, to) <= Distance(u, to) + 1
        /\ Distance(t, to) \in Nat /\ Distance(u, to) \in Nat
        /\ g[t] \in Nat /\ g[u] \in Nat /\ g[to] \in Nat
    BY <1>1, <1>8, <2>1, DistanceIs
  <2>3. CASE t \in V /\ u \in V
    <3>1. g[u] <= g[t] + 1
      BY <2>1, <2>3 DEF Settled
    <3>2. QED
      BY <1>8, <2>1, <2>3, <3>1
  <2>4. CASE t \in V /\ u \notin V
    <3>1. g[u] <= g[t] + 1
      BY <2>1, <2>4 DEF Settled
    <3>2. u \in Found(s)
      <4>1. g[t] < Cardinality(V)
        BY <1>2, <2>4 DEF Counted
      <4> DEFINE m == Size * Size
      <4>2. Cardinality(V) \in Nat /\ Cardinality(V) <= m /\ m \in Nat /\ m < Infinity
        BY <1>1, TilesCounted, InfinityAssumption
      <4> HIDE DEF m
      <4>3. g[u] < Infinity
        BY <2>2, <3>1, <4>1, <4>2 DEF Infinity
      <4>4. QED
        BY <2>1, <2>2, <4>3 DEF Found, Infinity
    <3>3. f[u] = g[u] + Distance(u, to) /\ f[to] <= f[u]
      BY <1>2, <1>3, <2>4, <3>2
    <3>4. D[u] = g[to] - Distance(u, to) /\ D[t] = g[t]
      BY <1>8, <2>1, <2>4
    <3>5. QED
      BY <1>7, <2>2, <3>1, <3>3, <3>4
  <2>5. CASE t \notin V /\ u \in V
    <3>1. f[u] = g[u] + Distance(u, to) /\ f[u] <= f[to]
      BY <1>2, <1>3, <2>5
    <3>2. D[u] = g[u] /\ D[t] = g[to] - Distance(t, to)
      BY <1>8, <2>1, <2>5
    <3>3. QED
      BY <1>7, <2>2, <3>1, <3>2
  <2>6. CASE t \notin V /\ u \notin V
    <3>1. D[u] = g[to] - Distance(u, to) /\ D[t] = g[to] - Distance(t, to)
      BY <1>8, <2>1, <2>6
    <3>2. QED
      BY <2>2, <3>1
  <2>7. QED
    BY <2>3, <2>4, <2>5, <2>6
<1>11. IsPotential(map, from, D)
  BY <1>8, <1>9, <1>10 DEF IsPotential
<1>12. D[to] <= Size * Size
  <2>1. g[to] <= Cardinality(V) /\ g[to] \in Nat
    BY <1>1, <1>2, <1>3 DEF Counted
  <2> DEFINE m == Size * Size
  <2>2. Cardinality(V) \in Nat /\ Cardinality(V) <= m /\ m \in Nat
    BY <1>1, TilesCounted
  <2> HIDE DEF m
  <2>3. D[to] <= m
    BY <1>9, <2>1, <2>2
  <2>4. QED
    BY <2>3 DEF m
<1> HIDE DEF p
<1>13. p \in ShortestPaths(map, from, to)
  BY <1>1, <1>6, <1>9, <1>11, <1>12, ShortestWalk
<1>14. QED
  BY <1>5, <1>13 DEF p

-----------------------------------------------------------------------------
(***************************************************************************)
(* The search as a whole.                                                  *)
(***************************************************************************)
LEMMA SearchStarts ==
  ASSUME Problem
  PROVE  Sound(NewSearch, Visited(NewSearch)) /\ Visited(NewSearch) = {}
<1> DEFINE s == NewSearch
           q == s.heap
<1>1. from \in Tiles /\ to \in Tiles
  BY DEF Problem
<1>2. /\ q.nodes = <<from>> /\ q.positions = [id \in {Id(from)} |-> 1]
      /\ s.gScore = [t \in Tiles |-> IF t = from THEN 0 ELSE Infinity]
      /\ s.fScore = [t \in Tiles |-> IF t = from THEN h(from) ELSE Infinity]
      /\ s.cameFrom = [t \in Tiles |-> NoTile]
      /\ q = [nodes |-> q.nodes, positions |-> q.positions]
      /\ s = [heap |-> q, gScore |-> s.gScore, fScore |-> s.fScore, cameFrom |-> s.cameFrom]
  BY DEF NewSearch
<1>3. h(from) \in Nat /\ h(from) = Distance(from, to) /\ Infinity \in Nat /\ Infinity # 0
  BY <1>1, DistanceIs DEF h, Infinity
<1> HIDE DEF s
<1>4. q.nodes \in Seq(Tiles) /\ Len(q.nodes) = 1 /\ q.nodes[1] = from
  BY <1>1, <1>2
<1>5. Held(q) = {from}
  BY <1>4 DEF Held
<1>6. IsHeap(q)
  <2>1. q.positions \in Tables
    <3>1. {Id(from)} \in SUBSET {Id(t) : t \in Tiles}
      BY <1>1
    <3>2. q.positions \in [{Id(from)} -> Nat]
      BY <1>2
    <3>3. QED
      BY <3>1, <3>2 DEF Tables
  <2>2. q \in Heaps
    BY <1>2, <1>4, <2>1 DEF Heaps
  <2>3. DOMAIN q.positions = {Id(from)} /\ q.positions[Id(from)] = 1
    BY <1>2
  <2>4. QED
    BY <1>4, <2>2, <2>3 DEF IsHeap
<1>7. Found(s) = {from} /\ Visited(s) = {}
  BY <1>1, <1>2, <1>3, <1>5 DEF Found, Visited, Infinity
<1>8. s \in Searches
  <2>1. q \in Heaps
    BY <1>6 DEF IsHeap
  <2>2. s.gScore \in [Tiles -> Nat] /\ s.fScore \in [Tiles -> Nat]
        /\ s.cameFrom \in [Tiles -> Tiles \cup {NoTile}]
    BY <1>2, <1>3
  <2>3. QED
    BY <1>2, <2>1, <2>2 DEF Searches
<1>9. Ordered(q, s.fScore)
  BY <1>4 DEF Ordered
<1>10. Traced(s, {})
  BY <1>1, <1>2, <1>7 DEF Traced
<1>11. Counted(s, {})
  <2>1. Cardinality({}) = 0
    BY FS_EmptySet
  <2>2. QED
    BY <1>1, <1>2, <1>5, <2>1 DEF Counted
<1>12. \A t \in Found(s) : s.fScore[t] = s.gScore[t] + Distance(t, to)
  BY <1>1, <1>2, <1>3, <1>7
<1>13. Sound(s, {})
  BY <1>5, <1>6, <1>7, <1>8, <1>9, <1>10, <1>11, <1>12 DEF Sound
<1>14. QED
  BY <1>7, <1>13 DEF s

LEMMA SearchInvInit == Init => SearchInv
<1>1. SUFFICES ASSUME Init PROVE SearchInv
  OBVIOUS
<1>2. Problem
  <2>1. PICK S \in SUBSET Inner :
          map = [t \in Tiles |-> IF t \notin Inner THEN Border
                                 ELSE IF t \in S THEN Obstacle ELSE Unknown]
    BY <1>1 DEF Init
  <2>2. from \in Tiles /\ to \in Tiles
    BY <1>1, StartsAssumption DEF Init, Inner
  <2>3. QED
    BY <2>1, <2>2 DEF Problem, Border, Obstacle, Unknown, Empty
<1>3. search = NewSearch /\ searching = (from # to) /\ path = <<>>
  BY <1>1 DEF Init, SearchInit
<1>4. Sound(search, Visited(search)) /\ Visited(search) = {}
  BY <1>2, <1>3, SearchStarts
<1>5. FindsShortestPath
  BY <1>3 DEF FindsShortestPath, ShortestPaths
<1>6. QED
  BY <1>2, <1>3, <1>4, <1>5 DEF SearchInv

LEMMA FirstIs ==
  ASSUME NEW V, Sound(search, V)
  PROVE  /\ search.heap.nodes = <<>> => First = NoTile
         /\ search.heap.nodes # <<>> =>
              First = search.heap.nodes[1] /\ First \in Tiles /\ First # NoTile
<1> DEFINE a == search.heap.nodes
<1>1. a \in Seq(Tiles) /\ \A i \in 1..Len(a) : a[i] \in Tiles
  BY HeapNodes DEF Sound
<1>2. CASE a = <<>>
  BY <1>2 DEF First
<1>3. CASE a # <<>>
  <2>1. Len(a) \in Nat /\ Len(a) # 0
    BY <1>1, <1>3, EmptySeq
  <2>2. First = a[1] /\ a[1] \in Tiles
    BY <1>1, <1>3, <2>1 DEF First
  <2>3. NoTile \notin Tiles
    BY SizeSquared DEF NoTile, Tiles
  <2>4. QED
    BY <1>3, <2>2, <2>3
<1>4. QED
  BY <1>2, <1>3

LEMMA VisitKeeps ==
  ASSUME SearchInv, Visit
  PROVE  /\ SearchInv'
         /\ \A v \in Visited(search) : search'.gScore[v] = search.gScore[v]
<1> DEFINE V == Visited(search)
           c == search.heap.nodes[1]
           W == V \cup {c}
<1>1. /\ Problem /\ Sound(search, V) /\ \A v \in V : Settled(search, v, Tiles)
      /\ searching \in BOOLEAN /\ (searching => from # to)
  BY DEF SearchInv
<1>2. /\ searching /\ First \notin {NoTile, to}
      /\ search' = RelaxAll(First, [search EXCEPT !.heap = RemoveNode(@, search.fScore)])
      /\ map' = map /\ from' = from /\ to' = to /\ searching' = searching /\ path' = path
  BY DEF Visit
<1>3. search.heap.nodes # <<>> /\ c # to /\ First = c
  BY <1>1, <1>2, FirstIs
<1>4. /\ Sound(search', W)
      /\ \A v \in W : Settled(search', v, Tiles)
      /\ \A v \in V : search'.gScore[v] = search.gScore[v]
  <2> DEFINE r == RelaxAll(c, [search EXCEPT !.heap = RemoveNode(@, search.fScore)])
  <2>1. search' = r
    BY <1>2, <1>3
  <2>2. /\ Sound(r, W) /\ \A v \in W : Settled(r, v, Tiles)
        /\ \A v \in V : r.gScore[v] = search.gScore[v]
    BY <1>1, <1>3, VisitIs
  <2> HIDE DEF r
  <2>3. QED
    BY <2>1, <2>2
<1>5. Visited(search') = W
  BY <1>4 DEF Visited, Sound
<1>6. Problem'
  BY <1>1, <1>2 DEF Problem
<1> DEFINE X == Visited(search')
<1>7. Sound(search', X) /\ \A v \in X : Settled(search', v, Tiles)
  BY <1>4, <1>5
<1>8. Sound(search, Visited(search))'
  BY <1>2, <1>7 DEF Sound, Traced
<1>9. (\A v \in Visited(search) : Settled(search, v, Tiles))'
  BY <1>2, <1>7 DEF Settled
<1>10. FindsShortestPath'
  BY <1>2 DEF FindsShortestPath
<1>11. SearchInv'
  BY <1>1, <1>2, <1>6, <1>8, <1>9, <1>10 DEF SearchInv
<1>12. QED
  BY <1>4, <1>11

LEMMA ReturnKeeps ==
  ASSUME SearchInv, Return
  PROVE  SearchInv'
<1> DEFINE V == Visited(search)
           P == ShortestPaths(map, from, to)
<1>1. /\ Problem /\ Sound(search, V) /\ \A v \in V : Settled(search, v, Tiles)
      /\ searching \in BOOLEAN /\ (searching => from # to)
  BY DEF SearchInv
<1>2. /\ searching /\ First \in {NoTile, to} /\ searching' = FALSE
      /\ path' = IF search.cameFrom[to] = NoTile THEN <<>> ELSE PathTo(search.cameFrom, to)
      /\ map' = map /\ from' = from /\ to' = to /\ search' = search
  BY DEF Return
<1>3. IF P = {} THEN path' = <<>> ELSE path' \in P
  <2>1. CASE search.heap.nodes = <<>>
    BY <1>1, <1>2, <2>1, NothingLeft
  <2>2. CASE search.heap.nodes # <<>>
    <3>1. search.heap.nodes[1] = to
      BY <1>1, <1>2, <2>2, FirstIs
    <3>2. /\ search.cameFrom[to] # NoTile
          /\ PathTo(search.cameFrom, to) \in P
      BY <1>1, <1>2, <2>2, <3>1, DestinationNext
    <3>3. QED
      BY <1>2, <3>2
  <2>3. QED
    BY <2>1, <2>2
<1>4. FindsShortestPath'
  BY <1>2, <1>3 DEF FindsShortestPath
<1>5. Problem' /\ Sound(search, Visited(search))'
      /\ (\A v \in Visited(search) : Settled(search, v, Tiles))'
  BY <1>1, <1>2 DEF Problem, Sound, Traced, Settled
<1>6. QED
  BY <1>2, <1>4, <1>5 DEF SearchInv

LEMMA SearchInvSame ==
  ASSUME SearchInv, UNCHANGED searchVars
  PROVE  SearchInv'
<1>1. /\ map' = map /\ from' = from /\ to' = to /\ search' = search
      /\ searching' = searching /\ path' = path
  BY DEF searchVars
<1>2. Problem' /\ Sound(search, Visited(search))'
      /\ (\A v \in Visited(search) : Settled(search, v, Tiles))'
  BY <1>1 DEF SearchInv, Problem, Sound, Traced, Settled
<1>3. FindsShortestPath'
  BY <1>1 DEF SearchInv, FindsShortestPath
<1>4. QED
  BY <1>1, <1>2, <1>3 DEF SearchInv

LEMMA SearchInvStep == SearchInv /\ [Next]_vars => SearchInv'
<1>1. SUFFICES ASSUME SearchInv, [Next]_vars PROVE SearchInv'
  OBVIOUS
<1>2. CASE Visit
  BY <1>1, <1>2, VisitKeeps
<1>3. CASE Return
  BY <1>1, <1>3, ReturnKeeps
<1>4. CASE Plan \/ CarryOut \/ UNCHANGED vars
  <2>1. UNCHANGED searchVars
    BY <1>4 DEF Plan, CarryOut, vars
  <2>2. QED
    BY <1>1, <2>1, SearchInvSame
<1>5. QED
  BY <1>1, <1>2, <1>3, <1>4 DEF Next, SearchNext

(***************************************************************************)
(* The search is right, for every size of the map and wherever obstacles,  *)
(* start and destination are (map_paths.go:10): it returns a path that no  *)
(* other one beats and that enters no obstacle, and none only where there  *)
(* is none.  The scores of the nodes on the heap bound those of visited    *)
(* nodes from above, and the distance of any tile from below.              *)
(***************************************************************************)
THEOREM SearchIsRight == Spec => []FindsShortestPath
<1>1. SearchInv => FindsShortestPath
  BY DEF SearchInv
<1>2. QED
  BY <1>1, SearchInvInit, SearchInvStep, PTL DEF Spec

(***************************************************************************)
(* The heap of the search is in order after each of its operations, and    *)
(* its table finds every node (min_heap.go), although ids of two tiles can *)
(* be equal: not those of two tiles that are inside of the edge.           *)
(***************************************************************************)
THEOREM HeapIsConsistent == Spec => []HeapConsistent
<1>1. SearchInv => HeapConsistent
  BY HeapConsistentIs DEF SearchInv
<1>2. QED
  BY <1>1, SearchInvInit, SearchInvStep, PTL DEF Spec

(***************************************************************************)
(* The score of a node that has been visited never changes                 *)
(* (map_paths.go:80): the Manhattan distance differs by at most one        *)
(* between neighbours, so a neighbour with a lower score came first.       *)
(***************************************************************************)
THEOREM VisitedScoresAreFinal == Spec => VisitedIsFinal
<1> DEFINE Final ==
      \A t \in Tiles :
        search.gScore[t] # Infinity /\ t \notin {search.heap.nodes[i] : i \in DOMAIN search.heap.nodes}
          => search'.gScore[t] = search.gScore[t]
<1>1. ASSUME SearchInv, [Next]_vars PROVE [Final]_search
  <2>1. CASE Visit
    <3>1. ASSUME NEW t \in Tiles, search.gScore[t] # Infinity,
                 t \notin {search.heap.nodes[i] : i \in DOMAIN search.heap.nodes}
          PROVE  search'.gScore[t] = search.gScore[t]
      <4>1. search.heap.nodes \in Seq(Tiles)
        BY <1>1, HeapNodes DEF SearchInv, Sound
      <4>2. t \in Visited(search)
        BY <3>1, <4>1 DEF Visited, Found, Held
      <4>3. QED
        BY <1>1, <2>1, <4>2, VisitKeeps
    <3>2. QED
      BY <3>1
  <2>2. CASE Return \/ Plan \/ CarryOut \/ UNCHANGED vars
    BY <2>2 DEF Return, Plan, CarryOut, vars, searchVars
  <2>3. QED
    BY <1>1, <2>1, <2>2 DEF Next, SearchNext
<1>2. QED
  BY <1>1, SearchInvInit, SearchInvStep, PTL DEF Spec, VisitedIsFinal

-----------------------------------------------------------------------------
(***************************************************************************)
(* The plan made of the path, while it is carried out: the instructions    *)
(* that are left lead to the last tile of the path, over tiles of the      *)
(* path; in the discovery modes they end with a look around.               *)
(***************************************************************************)
Last(p) == p[Len(p)]

Arrival(p) == Direction(p[Len(p) - 1], Last(p))

\* The rover on the tile t, seen from the direction it arrived in.
OnRight(p)  == At(Last(p), (Arrival(p) + 90) % 360)
Arrived(p)  == At(Last(p), Arrival(p))
OnLeft(p)   == At(Last(p), (Arrival(p) - 90) % 360)

Faced(r) == Place(Ahead(r, 1))

\* The rover r has the instructions s left to the last tile of p, where it
\* turns to the right, to the left twice and back; it has faced S.
Looking(r, s, p, S) ==
  \/ \E d : Leads(r, d, Arrived(p), Later(p)) /\ s = d \o FullRotation
  \/ s = <<Left, Left, Right>> /\ r = OnRight(p) /\ Faced(OnRight(p)) \in S
  \/ /\ s = <<Left, Right>> /\ r = Arrived(p)
     /\ {Faced(OnRight(p)), Faced(Arrived(p))} \subseteq S
  \/ /\ s = <<Right>> /\ r = OnLeft(p)
     /\ {Faced(OnRight(p)), Faced(Arrived(p)), Faced(OnLeft(p))} \subseteq S
  \/ /\ s = <<>>
     /\ {Faced(OnRight(p)), Faced(Arrived(p)), Faced(OnLeft(p))} \subseteq S

PlanInv ==
  /\ ~ planned => left = <<>> /\ \E a \in Rotations : rover = At(from, a)
  /\ planned =>
       /\ ~ searching /\ path \in ShortestPaths(map, from, to)
       /\ Leads(rover, left, Arrived(path), Later(path))
       /\ mode # Simple => Looking(rover, left, path, seen)

LEMMA LeadsType ==
  ASSUME NEW r, NEW s, NEW q, NEW F, Leads(r, s, q, F)
  PROVE  s \in Seq(Moves) /\ Len(s) \in Nat /\ r \in Rovers /\ q \in Rovers
<1>1. s \in Seq(Moves) /\ Len(s) \in Nat
  BY LenProperties DEF Leads
<1>2. PICK t \in [1..(Len(s) + 1) -> Rovers] : t[1] = r /\ t[Len(s) + 1] = q
  BY DEF Leads
<1>3. 1 \in 1..(Len(s) + 1) /\ Len(s) + 1 \in 1..(Len(s) + 1)
  BY <1>1
<1>4. QED
  BY <1>1, <1>2, <1>3

\* After its first instruction the rest leads on.
LEMMA LeadsFirst ==
  ASSUME NEW r, NEW s, NEW q, NEW F, Leads(r, s, q, F)
  PROVE  /\ s = <<>> => r = q
         /\ s # <<>> =>
              /\ Head(s) \in Moves /\ Passed(r, Head(s)) \subseteq F
              /\ Leads(After(r, Head(s)), Tail(s), q, F)
<1>1. s \in Seq(Moves) /\ Len(s) \in Nat
  BY LeadsType
<1>2. PICK t \in [1..(Len(s) + 1) -> Rovers] :
        IsTrail(t, s) /\ Over(t, s, F) /\ t[1] = r /\ t[Len(s) + 1] = q
  BY DEF Leads
<1>3. CASE s = <<>>
  <2>1. Len(s) = 0
    BY <1>3
  <2>2. QED
    BY <1>2, <1>3, <2>1
<1>4. CASE s # <<>>
  <2> DEFINE n == Len(s)
             u == Tail(s)
             v == [i \in 1..n |-> t[i + 1]]
  <2>1. n \in Nat \ {0} /\ Head(s) = s[1] /\ s[1] \in Moves
    BY <1>1, <1>4, EmptySeq
  <2>2. u \in Seq(Moves) /\ Len(u) = n - 1 /\ \A i \in 1..(n - 1) : u[i] = s[i + 1]
    BY <1>1, <1>4, <2>1, HeadTailProperties
  <2>3. /\ \A i \in 1..n : t[i + 1] = After(t[i], s[i]) /\ Passed(t[i], s[i]) \subseteq F
    BY <1>2 DEF IsTrail, Over
  <2>4. t[2] = After(r, Head(s)) /\ Passed(r, Head(s)) \subseteq F
    <3>1. 1 \in 1..n
      BY <2>1
    <3>2. QED
      BY <1>2, <2>1, <2>3, <3>1
  <2>5. /\ v \in [1..(Len(u) + 1) -> Rovers]
        /\ v[1] = After(r, Head(s)) /\ v[Len(u) + 1] = q
    BY <1>2, <2>1, <2>2, <2>4
  <2>6. ASSUME NEW i \in 1..Len(u)
        PROVE  v[i + 1] = After(v[i], u[i]) /\ Passed(v[i], u[i]) \subseteq F
    <3>1. i \in 1..(n - 1) /\ i \in 1..n /\ i + 1 \in 1..n
      BY <2>1, <2>2
    <3>2. v[i] = t[i + 1] /\ v[i + 1] = t[i + 2] /\ u[i] = s[i + 1]
      BY <2>2, <3>1
    <3>3. t[(i + 1) + 1] = After(t[i + 1], s[i + 1]) /\ Passed(t[i + 1], s[i + 1]) \subseteq F
      BY <2>3, <3>1
    <3>4. (i + 1) + 1 = i + 2
      BY <3>1
    <3>5. QED
      BY <3>2, <3>3, <3>4
  <2> HIDE DEF u, v
  <2>7. IsTrail(v, u) /\ Over(v, u, F)
    BY <2>5, <2>6 DEF IsTrail, Over
  <2>8. Leads(After(r, Head(s)), u, q, F)
    BY <2>2, <2>5, <2>7 DEF Leads
  <2>9. QED
    BY <1>4, <2>1, <2>4, <2>8 DEF u
<1>5. QED
  BY <1>3, <1>4

\* The way back is a turn by 180 degrees away.
LEMMA Opposite ==
  ASSUME NEW t \in Tiles, NEW u \in Neighbours(t)
  PROVE  Direction(u, t) = (Direction(t, u) + 180) % 360
<1>1. u \in Tiles /\ t \in Neighbours(u)
  BY NeighboursMutual
<1> DEFINE a == Direction(t, u)
           b == Direction(u, t)
<1>2. a \in Rotations /\ Ahead(At(t, a), 1) = At(u, a)
  BY DirectionLeads
<1>3. b \in Rotations /\ Ahead(At(u, b), 1) = At(t, b)
  BY <1>1, DirectionLeads
<1> HIDE DEF a, b
<1>4. Column(t) \in Nat /\ Row(t) \in Nat /\ Column(u) \in Nat /\ Row(u) \in Nat
  BY <1>1, Grid
<1>5. Column(u) = Column(t) + 1 * Across(a) /\ Row(u) = Row(t) + 1 * Down(a)
  BY <1>2 DEF Ahead, At
<1>6. Column(t) = Column(u) + 1 * Across(b) /\ Row(t) = Row(u) + 1 * Down(b)
  BY <1>3 DEF Ahead, At
<1>7. Across(a) \in Int /\ Down(a) \in Int /\ Across(b) \in Int /\ Down(b) \in Int
  BY DEF Across, Down
<1>8. Across(b) = - Across(a) /\ Down(b) = - Down(a)
  BY <1>4, <1>5, <1>6, <1>7
<1>9. b = (a + 180) % 360
  BY <1>2, <1>3, <1>8 DEF Across, Down, Rotations
<1>10. QED
  BY <1>9 DEF a, b

\* Who has faced ahead, right and left has faced every neighbour but the
\* one the rover came from.
LEMMA FacedAround ==
  ASSUME NEW t \in Tiles, NEW v \in Tiles, t \in Neighbours(v), NEW u \in Neighbours(t), u # v
  PROVE  LET a == Direction(v, t)
         IN  u \in {Faced(At(t, (a + 90) % 360)), Faced(At(t, a)), Faced(At(t, (a - 90) % 360))}
<1> DEFINE a == Direction(v, t)
           b == Direction(t, u)
<1>1. v \in Neighbours(t) /\ u \in Tiles
  BY NeighboursMutual, NeighboursAreTiles
<1>2. a \in Rotations
  BY DirectionLeads
<1>3. b \in Rotations /\ Ahead(At(t, b), 1) = At(u, b) /\ Faced(At(t, b)) = u
  <2>1. b \in Rotations /\ Ahead(At(t, b), 1) = At(u, b)
    BY DirectionLeads
  <2>2. Place(At(u, b)) = u
    BY <1>1, <2>1, AtIsRover
  <2>3. QED
    BY <2>1, <2>2 DEF Faced
<1>4. Direction(t, v) = (a + 180) % 360 /\ Faced(At(t, Direction(t, v))) = v
  <2>1. Direction(t, v) = (a + 180) % 360
    BY Opposite
  <2>2. Direction(t, v) \in Rotations /\ Ahead(At(t, Direction(t, v)), 1) = At(v, Direction(t, v))
    BY <1>1, DirectionLeads
  <2>3. Place(At(v, Direction(t, v))) = v
    BY <2>2, AtIsRover
  <2>4. QED
    BY <2>1, <2>2, <2>3 DEF Faced
<1> HIDE DEF a, b
<1>5. b # (a + 180) % 360
  BY <1>3, <1>4
<1>6. b \in {(a + 90) % 360, a, (a - 90) % 360}
  BY <1>2, <1>3, <1>5 DEF Rotations
<1>7. QED
  BY <1>3, <1>6 DEF a

\* The turns of a look around.
LEMMA LookTurns ==
  ASSUME NEW p, IsPath(p), Len(p) > 1
  PROVE  /\ p[Len(p) - 1] \in Tiles /\ Last(p) \in Neighbours(p[Len(p) - 1])
         /\ Last(p) \in Tiles /\ Arrival(p) \in Rotations
         /\ After(Arrived(p), Right) = OnRight(p) /\ After(OnRight(p), Left) = Arrived(p)
         /\ After(Arrived(p), Left) = OnLeft(p) /\ After(OnLeft(p), Right) = Arrived(p)
<1> DEFINE a == Arrival(p)
           t == Last(p)
           b == (a + 90) % 360
           c == (a - 90) % 360
<1>1. Len(p) - 1 \in 1..Len(p) /\ Len(p) \in 1..Len(p) /\ Len(p) - 1 \in 1..(Len(p) - 1)
      /\ (Len(p) - 1) + 1 = Len(p)
  BY DEF IsPath
<1>2. p[Len(p) - 1] \in Tiles /\ t \in Tiles /\ t \in Neighbours(p[Len(p) - 1])
  BY <1>1, PathTiles DEF IsPath, Last
<1>3. a \in Rotations
  BY <1>2, DirectionLeads DEF Arrival
<1>4. Arrived(p) = At(t, a) /\ OnRight(p) = At(t, b) /\ OnLeft(p) = At(t, c)
  BY DEF Arrived, OnRight, OnLeft
<1>5. b \in Rotations /\ c \in Rotations /\ (b - 90) % 360 = a /\ (c + 90) % 360 = a
  BY <1>3 DEF Rotations
<1>6. After(At(t, a), Right) = At(t, b) /\ After(At(t, a), Left) = At(t, c)
  <2>1. b = (a + 90) % 360 /\ c = (a - 90) % 360
    OBVIOUS
  <2> HIDE DEF a, t, b, c
  <2>2. QED
    BY <1>2, <1>3, <2>1, TurnAt
<1> HIDE DEF b, c, a
<1>7. After(At(t, b), Left) = At(t, a) /\ After(At(t, c), Right) = At(t, a)
  BY <1>2, <1>5, TurnAt
<1>8. QED
  BY <1>2, <1>3, <1>4, <1>6, <1>7 DEF a

LEMMA HeadTailOfConcat ==
  ASSUME NEW X, NEW d \in Seq(X), d # <<>>, NEW u \in Seq(X)
  PROVE  Head(d \o u) = Head(d) /\ Tail(d \o u) = Tail(d) \o u
<1> DEFINE s == d \o u
           n == Len(d)
           m == Len(u)
<1>1. n \in Nat \ {0} /\ m \in Nat
  BY EmptySeq, LenProperties
<1>2. s \in Seq(X) /\ Len(s) = n + m
      /\ \A i \in 1..(n + m) : s[i] = IF i <= n THEN d[i] ELSE u[i - n]
  BY ConcatProperties
<1> HIDE DEF s
<1>3. s # <<>>
  BY <1>1, <1>2, EmptySeq
<1>4. Head(s) = Head(d)
  BY <1>1, <1>2, <1>3
<1>5. Tail(s) \in Seq(X) /\ Len(Tail(s)) = n + m - 1
      /\ \A i \in 1..(n + m - 1) : Tail(s)[i] = s[i + 1]
  BY <1>1, <1>2, <1>3, HeadTailProperties
<1>6. Tail(d) \in Seq(X) /\ Len(Tail(d)) = n - 1
      /\ \A i \in 1..(n - 1) : Tail(d)[i] = d[i + 1]
  BY <1>1, HeadTailProperties
<1>7. Tail(d) \o u \in Seq(X) /\ Len(Tail(d) \o u) = (n - 1) + m
      /\ \A i \in 1..((n - 1) + m) :
           (Tail(d) \o u)[i] = IF i <= n - 1 THEN Tail(d)[i] ELSE u[i - (n - 1)]
  BY <1>6, ConcatProperties
<1>8. ASSUME NEW i \in 1..(n + m - 1) PROVE Tail(s)[i] = (Tail(d) \o u)[i]
  <2>1. i + 1 \in 1..(n + m) /\ i \in 1..((n - 1) + m) /\ (i + 1) - n = i - (n - 1)
    BY <1>1
  <2>2. CASE i <= n - 1
    BY <1>1, <1>2, <1>5, <1>6, <1>7, <2>1, <2>2
  <2>3. CASE ~ (i <= n - 1)
    <3>1. ~ (i + 1 <= n)
      BY <1>1, <2>3
    <3>2. s[i + 1] = u[i - (n - 1)]
      BY <1>2, <2>1, <3>1
    <3>3. QED
      BY <1>5, <1>7, <2>1, <2>3, <3>2
  <2>4. QED
    BY <2>2, <2>3
<1>9. Tail(s) = Tail(d) \o u
  <2>1. Len(Tail(s)) = Len(Tail(d) \o u)
    BY <1>1, <1>5, <1>7
  <2>2. QED
    BY <1>5, <1>7, <1>8, <2>1, SeqEqual
<1>10. QED
  BY <1>4, <1>9 DEF s

LEMMA LookingOn ==
  ASSUME NEW p, IsPath(p), Len(p) > 1, NEW r, NEW s, s # <<>>, NEW S, Looking(r, s, p, S)
  PROVE  Looking(After(r, Head(s)), Tail(s), p, S \cup {Faced(After(r, Head(s)))})
<1> DEFINE v == After(r, Head(s))
           W == S \cup {Faced(v)}
<1>1. /\ After(Arrived(p), Right) = OnRight(p) /\ After(OnRight(p), Left) = Arrived(p)
      /\ After(Arrived(p), Left) = OnLeft(p) /\ After(OnLeft(p), Right) = Arrived(p)
  BY LookTurns
<1>2. ASSUME NEW d, Leads(r, d, Arrived(p), Later(p)), s = d \o FullRotation
      PROVE  Looking(v, Tail(s), p, W)
  <2>1. d \in Seq(Moves) /\ FullRotation \in Seq(Moves)
    BY <1>2, LeadsType, TurnsAreMoves
  <2>2. CASE d = <<>>
    <3>1. s = FullRotation /\ r = Arrived(p)
      BY <1>2, <2>1, <2>2, LeadsFirst, ConcatEmptySeq
    <3>2. Head(s) = Right /\ Tail(s) = <<Left, Left, Right>>
      BY <3>1 DEF FullRotation
    <3>3. v = OnRight(p)
      BY <1>1, <3>1, <3>2
    <3>4. QED
      BY <3>2, <3>3 DEF Looking
  <2>3. CASE d # <<>>
    <3>1. Leads(After(r, Head(d)), Tail(d), Arrived(p), Later(p))
      BY <1>2, <2>3, LeadsFirst
    <3>2. Head(s) = Head(d) /\ Tail(s) = Tail(d) \o FullRotation
      <4>1. s = d \o FullRotation /\ Len(d) \in Nat \ {0} /\ Len(FullRotation) \in Nat
        BY <1>2, <2>1, <2>3, EmptySeq, LenProperties
      <4>2. QED
        BY <2>1, <2>3, <4>1, HeadTailOfConcat
    <3>3. QED
      BY <3>1, <3>2 DEF Looking
  <2>4. QED
    BY <2>2, <2>3
<1>3. CASE s = <<Left, Left, Right>> /\ r = OnRight(p) /\ Faced(OnRight(p)) \in S
  <2>1. Head(s) = Left /\ Tail(s) = <<Left, Right>>
    BY <1>3
  <2>2. v = Arrived(p)
    BY <1>1, <1>3, <2>1
  <2>3. QED
    BY <1>3, <2>1, <2>2 DEF Looking
<1>4. CASE /\ s = <<Left, Right>> /\ r = Arrived(p)
           /\ {Faced(OnRight(p)), Faced(Arrived(p))} \subseteq S
  <2>1. Head(s) = Left /\ Tail(s) = <<Right>>
    BY <1>4
  <2>2. v = OnLeft(p)
    BY <1>1, <1>4, <2>1
  <2>3. QED
    BY <1>4, <2>1, <2>2 DEF Looking
<1>5. CASE /\ s = <<Right>> /\ r = OnLeft(p)
           /\ {Faced(OnRight(p)), Faced(Arrived(p)), Faced(OnLeft(p))} \subseteq S
  <2>1. Head(s) = Right /\ Tail(s) = <<>>
    BY <1>5
  <2>2. QED
    BY <1>5, <2>1 DEF Looking
<1>6. QED
  BY <1>2, <1>3, <1>4, <1>5 DEF Looking

\* At the end of the look around.
LEMMA LookedAround ==
  ASSUME NEW p, IsPath(p), Len(p) > 1, NEW r, NEW S, Looking(r, <<>>, p, S)
  PROVE  Neighbours(Last(p)) \ {p[Len(p) - 1]} \subseteq S
<1>1. {Faced(OnRight(p)), Faced(Arrived(p)), Faced(OnLeft(p))} \subseteq S
  <2>1. ASSUME NEW d, Leads(r, d, Arrived(p), Later(p)), <<>> = d \o FullRotation
        PROVE  FALSE
    <3>1. d \in Seq(Moves) /\ FullRotation \in Seq(Moves) /\ FullRotation # <<>>
      BY <2>1, LeadsType, TurnsAreMoves
    <3>2. QED
      BY <2>1, <3>1, ConcatEqualIffEmpty, ConcatProperties, EmptySeq, LenProperties
  <2>2. <<>> # <<Left, Left, Right>> /\ <<>> # <<Left, Right>> /\ <<>> # <<Right>>
    OBVIOUS
  <2>3. QED
    BY <2>1, <2>2 DEF Looking
<1>2. SUFFICES ASSUME NEW u \in Neighbours(Last(p)), u # p[Len(p) - 1]
               PROVE  u \in {Faced(OnRight(p)), Faced(Arrived(p)), Faced(OnLeft(p))}
  BY <1>1
<1>3. /\ p[Len(p) - 1] \in Tiles /\ Last(p) \in Tiles
      /\ Last(p) \in Neighbours(p[Len(p) - 1])
  BY LookTurns
<1>4. QED
  BY <1>2, <1>3, FacedAround DEF OnRight, Arrived, OnLeft, Arrival

LEMMA PathIs ==
  ASSUME Problem, NEW p \in ShortestPaths(map, from, to)
  PROVE  /\ IsPath(p) /\ Len(p) > 1 /\ p[1] = from /\ Last(p) = to
         /\ \A t \in Later(p) : map[t] <= Empty
<1>1. IsWalk(map, p) /\ p[1] = from /\ p[Len(p)] = to /\ Len(p) > 1
  BY ShortestPathsAreWalks DEF Problem
<1>2. IsPath(p) /\ Len(p) \in Nat
  BY <1>1, WalkIsPath DEF IsPath
<1>3. ASSUME NEW k \in 2..Len(p) PROVE map[p[k]] <= Empty
  <2>1. k - 1 \in 1..(Len(p) - 1) /\ (k - 1) + 1 = k
    BY <1>2
  <2>2. p[k] \in FreeNeighbours(map, p[k - 1])
    BY <1>1, <2>1 DEF IsWalk
  <2>3. QED
    BY <2>2 DEF FreeNeighbours
<1>4. QED
  BY <1>1, <1>2, <1>3 DEF Last, Later

LEMMA PlanInvInit == Init => PlanInv
<1>1. SUFFICES ASSUME Init PROVE PlanInv
  OBVIOUS
<1>2. ~ planned /\ left = <<>> /\ rover = At(from, 0)
  BY <1>1 DEF Init, At
<1>3. QED
  BY <1>2 DEF PlanInv, Rotations

LEMMA PlanKeeps ==
  ASSUME SearchInv, PlanInv, Plan
  PROVE  PlanInv'
<1>1. /\ ~ searching /\ ~ planned /\ path # <<>> /\ planned'
      /\ map' = map /\ from' = from /\ to' = to /\ path' = path
      /\ searching' = searching /\ seen' = seen
  BY DEF Plan, searchVars
<1>2. PICK m \in {Simple, FullDiscovery, DestinationDiscovery}, a \in Rotations :
        mode' = m /\ rover' = [rover EXCEPT !.rotation = a] /\ left' = Instructions(path, a, m)
  BY DEF Plan
<1>3. rover' = At(from, a)
  BY <1>1, <1>2 DEF PlanInv, At
<1>4. path \in ShortestPaths(map, from, to)
  BY <1>1 DEF SearchInv, FindsShortestPath
<1>5. IsPath(path) /\ Len(path) > 1 /\ path[1] = from
  BY <1>4, PathIs DEF SearchInv
<1> DEFINE s == Instructions(path, a, m)
<1>6. /\ Leads(At(from, a), s, Arrived(path), Later(path))
      /\ m \in {FullDiscovery, DestinationDiscovery} =>
           \E d : Leads(At(from, a), d, Arrived(path), Later(path)) /\ s = d \o FullRotation
  BY <1>5, InstructionsLead DEF Arrived, Arrival, Last
<1> HIDE DEF s
<1>7. mode' # Simple => Looking(rover', left', path, seen)
  BY <1>2, <1>3, <1>6 DEF Looking, s
<1>8. QED
  BY <1>1, <1>2, <1>3, <1>4, <1>6, <1>7 DEF PlanInv, s

LEMMA CarryOutKeeps ==
  ASSUME SearchInv, PlanInv, CarryOut
  PROVE  /\ PlanInv'
         /\ Passed(rover, Head(left)) \subseteq Later(path)
         /\ path \in ShortestPaths(map, from, to)
<1>1. /\ left # <<>> /\ rover' = After(rover, Head(left)) /\ left' = Tail(left)
      /\ seen' = seen \cup {Faced(rover')}
      /\ map' = map /\ from' = from /\ to' = to /\ path' = path
      /\ searching' = searching /\ planned' = planned /\ mode' = mode
  BY DEF CarryOut, searchVars, Faced
<1>2. planned
  BY <1>1 DEF PlanInv
<1>3. /\ ~ searching /\ path \in ShortestPaths(map, from, to)
      /\ Leads(rover, left, Arrived(path), Later(path))
      /\ mode # Simple => Looking(rover, left, path, seen)
  BY <1>2 DEF PlanInv
<1>4. IsPath(path) /\ Len(path) > 1
  BY <1>3, PathIs DEF SearchInv
<1>5. /\ Passed(rover, Head(left)) \subseteq Later(path)
      /\ Leads(rover', left', Arrived(path), Later(path))
  BY <1>1, <1>3, LeadsFirst
<1>6. mode # Simple => Looking(rover', left', path, seen')
  BY <1>1, <1>3, <1>4, LookingOn
<1>7. PlanInv'
  BY <1>1, <1>2, <1>3, <1>5, <1>6 DEF PlanInv
<1>8. QED
  BY <1>3, <1>5, <1>7

LEMMA PlanInvStep == SearchInv /\ PlanInv /\ [Next]_vars => PlanInv'
<1>1. SUFFICES ASSUME SearchInv, PlanInv, [Next]_vars PROVE PlanInv'
  OBVIOUS
<1>2. CASE SearchNext /\ UNCHANGED planVars
  <2>1. /\ searching /\ from' = from
        /\ mode' = mode /\ rover' = rover /\ left' = left /\ planned' = planned
    BY <1>2 DEF SearchNext, Visit, Return, planVars
  <2>2. ~ planned
    BY <1>1, <2>1 DEF PlanInv
  <2>3. QED
    BY <1>1, <2>1, <2>2 DEF PlanInv
<1>3. CASE Plan
  BY <1>1, <1>3, PlanKeeps
<1>4. CASE CarryOut
  BY <1>1, <1>4, CarryOutKeeps
<1>5. CASE UNCHANGED vars
  BY <1>1, <1>5 DEF PlanInv, vars, searchVars, planVars
<1>6. QED
  BY <1>1, <1>2, <1>3, <1>4, <1>5 DEF Next

LEMMA PlansInv == Spec => [](SearchInv /\ PlanInv)
BY SearchInvInit, SearchInvStep, PlanInvInit, PlanInvStep, PTL DEF Spec

(***************************************************************************)
(* A plan, carried out, brings the rover to its destination (drive.go:72), *)
(* for every map, rotation and mode, and however long the path is.         *)
(***************************************************************************)
THEOREM PlansReachDestination == Spec => []ReachesDestination
<1>1. ASSUME SearchInv, PlanInv PROVE ReachesDestination
  <2>1. SUFFICES ASSUME planned, left = <<>> PROVE Place(rover) = to
    BY DEF ReachesDestination
  <2>2. path \in ShortestPaths(map, from, to) /\ Leads(rover, <<>>, Arrived(path), Later(path))
    BY <1>1, <2>1 DEF PlanInv
  <2>3. rover = Arrived(path)
    BY <2>2, LeadsFirst
  <2>4. IsPath(path) /\ Len(path) > 1 /\ Last(path) = to
    BY <1>1, <2>2, PathIs DEF SearchInv
  <2>5. Last(path) \in Tiles /\ Arrival(path) \in Rotations
    BY <2>4, LookTurns
  <2>6. QED
    BY <2>3, <2>4, <2>5, AtIsRover DEF Arrived
<1>2. QED
  BY <1>1, PlansInv, PTL

(***************************************************************************)
(* A plan that is carried out drives over no obstacle of the map           *)
(* (map_paths.go:52).                                                      *)
(***************************************************************************)
THEOREM PlansAvoidObstacles == Spec => AvoidsObstacles
<1> DEFINE Avoids ==
      CarryOut /\ Head(left).kind = "forward" =>
        \A t \in Swept(rover, Head(left).value) \ {Place(rover)} : map[t] <= Empty
<1>1. ASSUME SearchInv, PlanInv, [Next]_vars PROVE [Avoids]_vars
  <2>1. SUFFICES ASSUME CarryOut, Head(left).kind = "forward",
                        NEW t \in Swept(rover, Head(left).value) \ {Place(rover)}
                 PROVE  map[t] <= Empty
    OBVIOUS
  <2>2. t \in Later(path) /\ path \in ShortestPaths(map, from, to)
    BY <1>1, <2>1, CarryOutKeeps DEF Passed
  <2>3. QED
    BY <1>1, <2>2, PathIs DEF SearchInv
<1>2. QED
  BY <1>1, PlansInv, PTL DEF Spec, AvoidsObstacles

(***************************************************************************)
(* A plan of a discovery mode ends with a look at every neighbour of the   *)
(* destination but the one the rover came from (drive.go:26).              *)
(***************************************************************************)
THEOREM PlansLookAround == Spec => []LooksAround
<1>1. ASSUME SearchInv, PlanInv PROVE LooksAround
  <2>1. SUFFICES ASSUME planned, left = <<>>, mode # Simple
                 PROVE  Neighbours(to) \ {path[Len(path) - 1]} \subseteq seen
    BY DEF LooksAround
  <2>2. path \in ShortestPaths(map, from, to) /\ Looking(rover, <<>>, path, seen)
    BY <1>1, <2>1 DEF PlanInv
  <2>3. IsPath(path) /\ Len(path) > 1 /\ Last(path) = to
    BY <1>1, <2>2, PathIs DEF SearchInv
  <2>4. QED
    BY <2>2, <2>3, LookedAround
<1>2. QED
  BY <1>1, PlansInv, PTL

=============================================================================
