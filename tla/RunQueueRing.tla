--------------------------- MODULE RunQueueRing ----------------------------
(***************************************************************************)
(* The linked list of the run queue for every number of processes: the     *)
(* nodes that are linked form one ring through the sentinel, schedule and  *)
(* pit_handler keep it one, and the search of pit_handler finds the first  *)
(* runnable task behind the current one.                                   *)
(***************************************************************************)
EXTENDS RunQueue, WellFoundedInduction, TLAPS

(* A leaf that names no prover is the SMT solver's.                        *)
USE SMTT(60)

-----------------------------------------------------------------------------
(* Induction, on a set instead of a predicate.                             *)

LEMMA Least ==
    ASSUME NEW T \in SUBSET Nat, T # {}
    PROVE  \E x \in T : \A y \in T : x <= y
<1>1. IsWellFoundedOn(OpToRel(<, Nat), Nat)
  BY NatLessThanWellFounded, Zenon
<1>2. PICK x \in T : \A y \in T : <<y, x>> \notin OpToRel(<, Nat)
  BY <1>1, WFMin, Zenon
<1>3. \A y \in T : ~(y < x)
  BY <1>2, Zenon DEF OpToRel
<1> QED
  BY <1>3

LEMMA Induction ==
    ASSUME NEW S, 0 \in S, \A n \in Nat : n \in S => n + 1 \in S
    PROVE  Nat \subseteq S
<1> DEFINE T == {n \in Nat : n \notin S}
<1>1. SUFFICES ASSUME T # {} PROVE FALSE
  OBVIOUS
<1>2. PICK x \in T : \A y \in T : x <= y
  BY <1>1, Least, Zenon
<1>3. x # 0 /\ x \in Nat
  OBVIOUS
<1>4. x - 1 \in Nat /\ x - 1 \notin T
  BY <1>2, <1>3
<1> QED
  BY <1>2, <1>3, <1>4

(* There are no more places than a set has numbers for them.               *)
Injects(f, n, m) ==
    f \in [0 .. n -> 0 .. m] /\ \A j, k \in 0 .. n : f[j] = f[k] => j = k

LEMMA Pigeonhole ==
    ASSUME NEW m \in Nat, NEW n \in Nat, NEW f, Injects(f, n, m)
    PROVE  n <= m
<1> DEFINE Good == {i \in Nat : \A l \in Nat : \A g \in [0 .. l -> 0 .. i] :
                                    Injects(g, l, i) => l <= i}
<1>1. 0 \in Good
  <2> SUFFICES ASSUME NEW l \in Nat, NEW g \in [0 .. l -> 0 .. 0], Injects(g, l, 0), 1 <= l
               PROVE  FALSE
    OBVIOUS
  <2>1. 0 \in 0 .. l /\ 1 \in 0 .. l
    OBVIOUS
  <2>2. g[0] = 0 /\ g[1] = 0
    BY <2>1
  <2> QED
    BY <2>1, <2>2 DEF Injects
<1>2. ASSUME NEW i \in Nat, i \in Good PROVE i + 1 \in Good
  <2> SUFFICES ASSUME NEW l \in Nat, NEW g \in [0 .. l -> 0 .. i + 1], Injects(g, l, i + 1), 1 <= l
               PROVE  l <= i + 1
    OBVIOUS
  <2> DEFINE h == [k \in 0 .. l - 1 |-> IF g[k] = i + 1 THEN g[l] ELSE g[k]]
  <2>1. \A j, k \in 0 .. l : g[j] = g[k] => j = k
    BY DEF Injects
  <2>2. l \in 0 .. l /\ l - 1 \in Nat /\ \A k \in 0 .. l - 1 : k \in 0 .. l /\ k # l
    OBVIOUS
  <2>3. \A k \in 0 .. l - 1 : g[k] # g[l]
    BY <2>1, <2>2
  <2>4. \A k \in 0 .. l : g[k] \in 0 .. i + 1
    OBVIOUS
  <2>5. h \in [0 .. l - 1 -> 0 .. i]
    BY <2>2, <2>3, <2>4
  <2>6. ASSUME NEW j \in 0 .. l - 1, NEW k \in 0 .. l - 1, h[j] = h[k] PROVE j = k
    <3>1. g[j] = g[k]
      BY <2>3, <2>6
    <3> QED
      BY <2>1, <2>2, <3>1
  <2>7. Injects(h, l - 1, i)
    BY <2>5, <2>6 DEF Injects
  <2> HIDE DEF h
  <2>8. l - 1 <= i
    BY <1>2, <2>2, <2>5, <2>7
  <2> QED
    BY <2>8
<1> HIDE DEF Good
<1>3. m \in Good
  BY <1>1, <1>2, Induction
<1> QED
  BY <1>3 DEF Good, Injects

-----------------------------------------------------------------------------
(* Follow is what its definition says.                                     *)
Steps == NumPids + 1
Walks(f, step, start, n) == f[0] = start /\ \A k \in 1 .. n : f[k] = step[f[k - 1]]

LEMMA WalkExists ==
    ASSUME NEW S, NEW step \in [S -> S], NEW start \in S, NEW n \in Nat
    PROVE  \E f \in [0 .. n -> S] : Walks(f, step, start, n)
<1> DEFINE Good == {m \in Nat : \E f \in [0 .. m -> S] : Walks(f, step, start, m)}
<1>1. 0 \in Good
  <2> DEFINE f == [k \in 0 .. 0 |-> start]
  <2>1. f \in [0 .. 0 -> S] /\ Walks(f, step, start, 0)
    BY DEF Walks
  <2> HIDE DEF f
  <2> QED
    BY <2>1
<1>2. ASSUME NEW m \in Nat, m \in Good PROVE m + 1 \in Good
  <2>1. PICK f \in [0 .. m -> S] : Walks(f, step, start, m)
    BY <1>2
  <2> DEFINE g == [k \in 0 .. m + 1 |-> IF k = m + 1 THEN step[f[m]] ELSE f[k]]
  <2>2. g \in [0 .. m + 1 -> S]
    OBVIOUS
  <2>3. Walks(g, step, start, m + 1)
    BY <2>1 DEF Walks
  <2> HIDE DEF g
  <2> QED
    BY <2>2, <2>3
<1>3. n \in Good
  <2> HIDE DEF Good
  <2> QED
    BY <1>1, <1>2, Induction
<1> QED
  BY <1>3

LEMMA WalkIn ==
    ASSUME NEW S, NEW step \in [S -> S], NEW start \in S, NEW n \in Nat,
           NEW f, Walks(f, step, start, n)
    PROVE  \A k \in 0 .. n : f[k] \in S
<1> DEFINE Good == {k \in Nat : k <= n => f[k] \in S}
<1>1. 0 \in Good
  BY DEF Walks
<1>2. \A k \in Nat : k \in Good => k + 1 \in Good
  BY DEF Walks
<1> HIDE DEF Good
<1>3. Nat \subseteq Good
  BY <1>1, <1>2, Induction
<1> QED
  BY <1>3 DEF Good

LEMMA FollowDef ==
    ASSUME NEW S, NEW step \in [S -> S], NEW start \in S
    PROVE  /\ Walks(Follow(step, start), step, start, Steps)
           /\ \A k \in 0 .. Steps : Follow(step, start)[k] \in S
<1>0. Steps \in Nat
  BY PidAssumption DEF Steps
<1> DEFINE f == Follow(step, start)
           P(g) == g = [k \in 0 .. NumPids + 1 |-> IF k = 0 THEN start ELSE step[g[k - 1]]]
<1>1. f = CHOOSE g : P(g)
  BY Zenon DEF Follow
<1>2. \E g : P(g)
  <2>1. PICK g \in [0 .. Steps -> S] : Walks(g, step, start, Steps)
    BY <1>0, WalkExists
  <2>2. P(g)
    BY <1>0, <2>1 DEF Walks, Steps
  <2> HIDE DEF P
  <2> QED
    BY <2>2, Zenon
<1>3. P(f)
  <2> HIDE DEF P, f
  <2> QED
    BY <1>1, <1>2, Zenon
<1> HIDE DEF f
<1>4. Walks(f, step, start, Steps)
  <2>1. \A k \in 0 .. NumPids + 1 : f[k] = IF k = 0 THEN start ELSE step[f[k - 1]]
    <3> DEFINE h == [k \in 0 .. NumPids + 1 |-> IF k = 0 THEN start ELSE step[f[k - 1]]]
    <3>1. f = h
      BY <1>3, Zenon
    <3>2. \A k \in 0 .. NumPids + 1 : h[k] = IF k = 0 THEN start ELSE step[f[k - 1]]
      BY Zenon
    <3> HIDE DEF h, P
    <3> QED
      BY <3>1, <3>2, Zenon
  <2>2. f[0] = start /\ \A k \in 1 .. NumPids + 1 : f[k] = step[f[k - 1]]
    BY <2>1, PidAssumption
  <2> QED
    BY <2>2 DEF Walks, Steps
<1>5. \A k \in 0 .. Steps : f[k] \in S
  BY <1>0, <1>4, WalkIn, Zenon
<1> QED
  BY <1>4, <1>5 DEF f

-----------------------------------------------------------------------------
(* The list is one ring: from the sentinel along next_task every linked    *)
(* node is met once before the sentinel is met again, and prev_task leads  *)
(* back the same way.                                                      *)
Ring(links, back, last, n, ord) ==
    /\ n \in Nat /\ ord \in [0 .. n -> Nodes]
    /\ ord[0] = Sentinel /\ ord[n] = last
    /\ links[last] = Sentinel /\ back[Sentinel] = last
    /\ \A k \in 1 .. n : links[ord[k - 1]] = ord[k] /\ back[ord[k]] = ord[k - 1]
    /\ \A j, k \in 0 .. n : ord[j] = ord[k] => j = k
    /\ \A m \in Nodes : links[m] # Null => \E k \in 0 .. n : ord[k] = m

Links == [Nodes -> Nodes \cup {Null}]

LEMMA NodeFacts ==
    /\ NumPids \in Nat /\ NumShells \in Nat /\ 1 <= NumShells /\ NumShells <= NumPids
    /\ Sentinel \in Nodes /\ Null \notin Nodes /\ Sentinel \notin Pids /\ Pids \subseteq Nodes
    /\ Nodes = -1 .. NumPids - 1 /\ Sentinel # Null /\ Null \notin Pids
BY PidAssumption DEF Nodes, Pids, Sentinel, Null

(* There is room for every ring.                                           *)
LEMMA RingBound ==
    ASSUME NEW links, NEW back, NEW last, NEW n, NEW ord, Ring(links, back, last, n, ord)
    PROVE  n \in 0 .. NumPids
<1> DEFINE f == [k \in 0 .. n |-> ord[k] + 1]
<1>1. n \in Nat /\ ord \in [0 .. n -> Nodes] /\ \A j, k \in 0 .. n : ord[j] = ord[k] => j = k
  BY DEF Ring
<1>2. NumPids \in Nat /\ \A m \in Nodes : m \in Int /\ m + 1 \in 0 .. NumPids
  BY NodeFacts
<1>3. Injects(f, n, NumPids)
  BY <1>1, <1>2 DEF Injects
<1> HIDE DEF f
<1>4. n <= NumPids
  BY <1>1, <1>2, <1>3, Pigeonhole, Zenon
<1> QED
  BY <1>1, <1>2, <1>4

(* A node is in the ring exactly when it is linked.                        *)
LEMMA RingLinked ==
    ASSUME NEW links \in Links, NEW back \in Links, NEW last, NEW n, NEW ord,
           Ring(links, back, last, n, ord)
    PROVE  /\ \A k \in 0 .. n : ord[k] \in Nodes /\ links[ord[k]] \in Nodes
                                /\ back[ord[k]] \in Nodes
           /\ \A k \in 1 .. n : ord[k] \in Pids
           /\ last \in Nodes
<1>1. /\ n \in Nat /\ ord \in [0 .. n -> Nodes]
      /\ ord[0] = Sentinel /\ ord[n] = last
      /\ links[last] = Sentinel /\ back[Sentinel] = last
      /\ \A k \in 1 .. n : links[ord[k - 1]] = ord[k] /\ back[ord[k]] = ord[k - 1]
      /\ \A j, k \in 0 .. n : ord[j] = ord[k] => j = k
  BY DEF Ring
<1>2. \A k \in 0 .. n : ord[k] \in Nodes
  BY <1>1
<1>3. ASSUME NEW k \in 0 .. n PROVE links[ord[k]] \in Nodes
  <2>1. CASE k = n
    BY <1>1, <2>1, NodeFacts
  <2>2. CASE k + 1 \in 1 .. n
    <3>1. links[ord[(k + 1) - 1]] = ord[k + 1] /\ (k + 1) - 1 = k /\ k + 1 \in 0 .. n
      BY <1>1, <2>2
    <3> QED
      BY <1>2, <3>1
  <2> QED
    BY <1>1, <2>1, <2>2
<1>4. ASSUME NEW k \in 0 .. n PROVE back[ord[k]] \in Nodes
  <2>1. CASE k = 0
    BY <1>1, <1>2, <2>1
  <2>2. CASE k \in 1 .. n
    BY <1>1, <1>2, <2>2
  <2> QED
    BY <1>1, <2>1, <2>2
<1>5. ASSUME NEW k \in 1 .. n PROVE ord[k] \in Pids
  <2>1. ord[k] \in Nodes /\ ord[k] # Sentinel
    BY <1>1
  <2> QED
    BY <2>1 DEF Nodes
<1> QED
  BY <1>1, <1>2, <1>3, <1>4, <1>5

(* schedule links a new node behind the tail.                              *)
LinksAdd(links, last, p) == [links EXCEPT ![p] = links[last], ![last] = p]
BackAdd(back, last, p) == [back EXCEPT ![p] = last, ![Sentinel] = p]
OrdAdd(ord, n, p) == [k \in 0 .. n + 1 |-> IF k = n + 1 THEN p ELSE ord[k]]

LEMMA RingAdd ==
    ASSUME NEW links \in Links, NEW back \in Links, NEW last, NEW n, NEW ord,
           Ring(links, back, last, n, ord), NEW p \in Pids, links[p] = Null
    PROVE  Ring(LinksAdd(links, last, p), BackAdd(back, last, p), p, n + 1, OrdAdd(ord, n, p))
<1> DEFINE l2 == [links EXCEPT ![p] = links[last], ![last] = p]
           b2 == [back EXCEPT ![p] = last, ![Sentinel] = p]
           o2 == [k \in 0 .. n + 1 |-> IF k = n + 1 THEN p ELSE ord[k]]
<1>1. /\ n \in Nat /\ ord \in [0 .. n -> Nodes]
      /\ ord[0] = Sentinel /\ ord[n] = last
      /\ links[last] = Sentinel /\ back[Sentinel] = last
      /\ \A k \in 1 .. n : links[ord[k - 1]] = ord[k] /\ back[ord[k]] = ord[k - 1]
      /\ \A j, k \in 0 .. n : ord[j] = ord[k] => j = k
      /\ \A m \in Nodes : links[m] # Null => \E k \in 0 .. n : ord[k] = m
  BY DEF Ring
<1>2. \A k \in 0 .. n : ord[k] \in Nodes /\ ord[k] # p
  <2>1. \A k \in 0 .. n : links[ord[k]] # Null
    BY RingLinked, NodeFacts
  <2> QED
    BY <1>1, <2>1
<1>3. last \in Nodes /\ last # p /\ p \in Nodes /\ p # Sentinel /\ Sentinel \in Nodes
  BY <1>1, <1>2, NodeFacts
<1>4. \A m \in Nodes : /\ l2[m] = IF m = last THEN p ELSE IF m = p THEN Sentinel ELSE links[m]
                       /\ b2[m] = IF m = Sentinel THEN p ELSE IF m = p THEN last ELSE back[m]
  BY <1>1, <1>3 DEF Links
<1>5. /\ o2 \in [0 .. n + 1 -> Nodes] /\ o2[n + 1] = p
      /\ \A k \in 0 .. n : o2[k] = ord[k]
  BY <1>1, <1>3
<1> HIDE DEF l2, b2, o2
<1>6. ASSUME NEW k \in 1 .. n + 1 PROVE l2[o2[k - 1]] = o2[k] /\ b2[o2[k]] = o2[k - 1]
  <2>1. CASE k = n + 1
    <3>1. o2[k - 1] = last /\ o2[k] = p
      BY <1>1, <1>5, <2>1
    <3> QED
      BY <1>3, <1>4, <3>1
  <2>2. CASE k \in 1 .. n
    <3>1. /\ k - 1 \in 0 .. n /\ k \in 0 .. n
          /\ o2[k - 1] = ord[k - 1] /\ o2[k] = ord[k]
          /\ ord[k - 1] \in Nodes /\ ord[k] \in Nodes
      BY <1>1, <1>2, <1>5, <2>2
    <3>2. ord[k - 1] # last /\ ord[k - 1] # p /\ ord[k] # p /\ ord[k] # Sentinel
      BY <1>1, <1>2, <2>2, <3>1
    <3> QED
      BY <1>1, <1>4, <2>2, <3>1, <3>2
  <2> QED
    BY <1>1, <2>1, <2>2
<1>7. \A j, k \in 0 .. n + 1 : o2[j] = o2[k] => j = k
  BY <1>1, <1>2, <1>5
<1>8. \A m \in Nodes : l2[m] # Null => \E k \in 0 .. n + 1 : o2[k] = m
  BY <1>1, <1>3, <1>4, <1>5
<1>9. n + 1 \in Nat /\ o2[0] = Sentinel /\ l2[p] = Sentinel /\ b2[Sentinel] = p
  BY <1>1, <1>3, <1>4, <1>5
<1>10. Ring(l2, b2, p, n + 1, o2)
  BY <1>5, <1>6, <1>7, <1>8, <1>9 DEF Ring
<1> QED
  BY <1>10 DEF l2, b2, o2, LinksAdd, BackAdd, OrdAdd

(* pit_handler unlinks the j-th node.                                      *)
LinksDrop(links, back, c) == [links EXCEPT ![back[c]] = links[c], ![c] = Null]
BackDrop(links, back, c) == [back EXCEPT ![links[c]] = back[c], ![c] = Null]
LastDrop(back, last, c) == IF c = last THEN back[c] ELSE last
OrdDrop(ord, n, j) == [k \in 0 .. n - 1 |-> IF k < j THEN ord[k] ELSE ord[k + 1]]

LEMMA RingDrop ==
    ASSUME NEW links \in Links, NEW back \in Links, NEW last, NEW n, NEW ord,
           Ring(links, back, last, n, ord), NEW j \in 1 .. n
    PROVE  Ring(LinksDrop(links, back, ord[j]), BackDrop(links, back, ord[j]),
                LastDrop(back, last, ord[j]), n - 1, OrdDrop(ord, n, j))
<1> DEFINE c == ord[j]
           l2 == [links EXCEPT ![back[c]] = links[c], ![c] = Null]
           b2 == [back EXCEPT ![links[c]] = back[c], ![c] = Null]
           t2 == IF c = last THEN back[c] ELSE last
           o2 == [k \in 0 .. n - 1 |-> IF k < j THEN ord[k] ELSE ord[k + 1]]
<1>1. /\ n \in Nat /\ ord \in [0 .. n -> Nodes]
      /\ ord[0] = Sentinel /\ ord[n] = last
      /\ links[last] = Sentinel /\ back[Sentinel] = last
      /\ \A k \in 1 .. n : links[ord[k - 1]] = ord[k] /\ back[ord[k]] = ord[k - 1]
      /\ \A i, k \in 0 .. n : ord[i] = ord[k] => i = k
      /\ \A m \in Nodes : links[m] # Null => \E k \in 0 .. n : ord[k] = m
  BY DEF Ring
<1>2. j \in Int /\ j \in 0 .. n /\ j - 1 \in 0 .. n /\ 1 <= j /\ j <= n
  BY <1>1
<1>3. /\ c \in Nodes /\ back[c] = ord[j - 1] /\ ord[j - 1] \in Nodes /\ ord[j - 1] # c
      /\ c # Sentinel /\ links[c] \in Nodes
  <2>1. \A k \in 0 .. n : ord[k] \in Nodes /\ links[ord[k]] \in Nodes
    BY RingLinked, Zenon
  <2>2. c \in Nodes /\ links[c] \in Nodes /\ ord[j - 1] \in Nodes
    BY <1>2, <2>1, Zenon
  <2>3. back[c] = ord[j - 1]
    BY <1>1
  <2>4. ord[j - 1] # c /\ c # Sentinel
    BY <1>1, <1>2
  <2> QED
    BY <2>2, <2>3, <2>4
<1>4. links[c] = IF j = n THEN Sentinel ELSE ord[j + 1]
  <2>1. CASE j = n
    BY <1>1, <2>1
  <2>2. CASE j # n
    <3>1. j + 1 \in 1 .. n /\ (j + 1) - 1 = j
      BY <1>1, <1>2, <2>2
    <3>2. links[ord[(j + 1) - 1]] = ord[j + 1]
      BY <1>1, <3>1
    <3> QED
      BY <2>2, <3>1, <3>2
  <2> QED
    BY <2>1, <2>2
<1>5. links[c] # c
  BY <1>1, <1>2, <1>3, <1>4
<1>6. \A m \in Nodes :
        /\ l2[m] = IF m = c THEN Null ELSE IF m = ord[j - 1] THEN links[c] ELSE links[m]
        /\ b2[m] = IF m = c THEN Null ELSE IF m = links[c] THEN ord[j - 1] ELSE back[m]
  BY <1>3, <1>5 DEF Links
<1>7. /\ o2 \in [0 .. n - 1 -> Nodes]
      /\ \A k \in 0 .. n - 1 : o2[k] = IF k < j THEN ord[k] ELSE ord[k + 1]
  BY <1>1, <1>2
<1>8. \A k \in 0 .. n : ord[k] \in Nodes
  BY <1>1
<1>9. \A k \in 0 .. n : (k # j => ord[k] # c) /\ (k # j - 1 => ord[k] # ord[j - 1])
                        /\ (k # 0 => ord[k] # Sentinel)
  BY <1>1, <1>2
<1>10. \A k \in 0 .. n : k # 0 /\ k # j + 1 => ord[k] # links[c]
  BY <1>1, <1>2, <1>4, <1>9
<1> HIDE DEF c, l2, b2, o2, t2
<1>11. ASSUME NEW k \in 1 .. n - 1 PROVE l2[o2[k - 1]] = o2[k] /\ b2[o2[k]] = o2[k - 1]
  <2>0. k \in Int /\ k - 1 \in 0 .. n - 1 /\ k \in 0 .. n - 1 /\ k \in 1 .. n /\ k - 1 \in 0 .. n
        /\ k + 1 \in 1 .. n /\ k + 1 \in 0 .. n /\ k \in 0 .. n /\ 1 <= k
    BY <1>1
  <2>1. CASE k < j
    <3>1. o2[k - 1] = ord[k - 1] /\ o2[k] = ord[k]
      BY <1>2, <1>7, <2>0, <2>1
    <3>2. ord[k - 1] # c /\ ord[k - 1] # ord[j - 1] /\ ord[k] # c /\ ord[k] # links[c]
      BY <1>2, <1>9, <1>10, <2>0, <2>1
    <3>3. ord[k - 1] \in Nodes /\ ord[k] \in Nodes
          /\ links[ord[k - 1]] = ord[k] /\ back[ord[k]] = ord[k - 1]
      BY <1>1, <1>8, <2>0
    <3> QED
      BY <1>6, <3>1, <3>2, <3>3
  <2>2. CASE k = j
    <3>1. o2[k - 1] = ord[j - 1] /\ o2[k] = ord[j + 1]
      BY <1>2, <1>7, <2>0, <2>2
    <3>2. links[c] = ord[j + 1]
      BY <1>4, <2>0, <2>2, <1>1
    <3> QED
      BY <1>3, <1>5, <1>6, <3>1, <3>2
  <2>3. CASE k > j
    <3>1. o2[k - 1] = ord[k] /\ o2[k] = ord[k + 1]
      BY <1>2, <1>7, <2>0, <2>3
    <3>2. ord[k] # c /\ ord[k] # ord[j - 1] /\ ord[k + 1] # c /\ ord[k + 1] # links[c]
      BY <1>2, <1>9, <1>10, <2>0, <2>3
    <3>3. /\ ord[k + 1] \in Nodes /\ ord[k] \in Nodes /\ (k + 1) - 1 = k
          /\ links[ord[(k + 1) - 1]] = ord[k + 1] /\ back[ord[k + 1]] = ord[(k + 1) - 1]
      BY <1>1, <1>8, <2>0
    <3> QED
      BY <1>6, <3>1, <3>2, <3>3
  <2> QED
    BY <1>2, <2>0, <2>1, <2>2, <2>3
<1>12. ASSUME NEW i \in 0 .. n - 1, NEW k \in 0 .. n - 1, o2[i] = o2[k] PROVE i = k
  <2> DEFINE a == IF i < j THEN i ELSE i + 1
             b == IF k < j THEN k ELSE k + 1
  <2>1. a \in 0 .. n /\ b \in 0 .. n /\ o2[i] = ord[a] /\ o2[k] = ord[b]
    BY <1>1, <1>2, <1>7
  <2>2. a = b
    <3> HIDE DEF a, b
    <3>1. ord[a] = ord[b]
      BY <1>12, <2>1, Zenon
    <3>2. \A x, y \in 0 .. n : ord[x] = ord[y] => x = y
      BY <1>1
    <3> QED
      BY <2>1, <3>1, <3>2, Zenon
  <2>3. i \in Int /\ k \in Int /\ j \in Int
    BY <1>1, <1>2
  <2> QED
    BY <2>2, <2>3
<1>13. ASSUME NEW m \in Nodes, l2[m] # Null PROVE \E k \in 0 .. n - 1 : o2[k] = m
  <2>1. m # c /\ links[m] # Null
    <3>1. links[ord[j - 1]] = c
      BY <1>1, <1>2 DEF c
    <3> QED
      BY <1>3, <1>6, <1>13, <3>1, NodeFacts
  <2>2. PICK k \in 0 .. n : ord[k] = m
    BY <2>1, Zenon DEF Ring
  <2>3. k # j
    BY <2>1, <2>2 DEF c
  <2>4. CASE k < j
    <3>1. k \in 0 .. n - 1
      BY <1>1, <1>2, <2>4
    <3>2. o2[k] = ord[k]
      BY <1>7, <2>4, <3>1
    <3> QED
      BY <2>2, <3>1, <3>2
  <2>5. CASE k > j
    <3>1. k - 1 \in 0 .. n - 1 /\ ~(k - 1 < j) /\ (k - 1) + 1 = k
      BY <1>1, <1>2, <2>5
    <3>2. o2[k - 1] = ord[k]
      BY <1>7, <3>1
    <3> QED
      BY <2>2, <3>1, <3>2
  <2> QED
    BY <1>2, <2>3, <2>4, <2>5
<1>14. n - 1 \in Nat /\ o2[0] = Sentinel
  BY <1>1, <1>2, <1>7
<1>15. o2[n - 1] = t2 /\ l2[t2] = Sentinel /\ b2[Sentinel] = t2
  <2>1. CASE j = n
    <3>1. t2 = ord[n - 1] /\ c = last /\ links[c] = Sentinel
      BY <1>1, <1>3, <1>4, <2>1 DEF t2, c
    <3>2. o2[n - 1] = ord[n - 1]
      BY <1>2, <1>7, <1>14, <2>1
    <3> QED
      BY <1>3, <1>6, <2>1, <3>1, <3>2, NodeFacts
  <2>2. CASE j # n
    <3>1. t2 = last /\ c # last /\ last = ord[n] /\ last \in Nodes /\ last # ord[j - 1]
      BY <1>1, <1>2, <1>8, <1>9, <2>2 DEF t2
    <3>2. o2[n - 1] = ord[n]
      BY <1>1, <1>2, <1>7, <1>14, <2>2
    <3>3. links[c] # Sentinel
      BY <1>1, <1>2, <1>4, <1>9, <2>2
    <3> QED
      BY <1>1, <1>3, <1>6, <3>1, <3>2, <3>3, NodeFacts
  <2> QED
    BY <2>1, <2>2
<1>16. Ring(l2, b2, t2, n - 1, o2)
  BY <1>7, <1>11, <1>12, <1>13, <1>14, <1>15 DEF Ring
<1> QED
  BY <1>16 DEF l2, b2, t2, o2, c, LinksDrop, BackDrop, LastDrop, OrdDrop

-----------------------------------------------------------------------------
(* Going round the ring from the j-th node: the place that is reached      *)
(* after d steps.                                                          *)
Place(n, j, d) == IF j + d <= n THEN j + d ELSE j + d - (n + 1)

LEMMA RingStep ==
    ASSUME NEW links \in Links, NEW back \in Links, NEW last, NEW n, NEW ord,
           Ring(links, back, last, n, ord), NEW j \in 1 .. n, NEW d \in 0 .. n
    PROVE  links[ord[Place(n, j, d)]] = ord[Place(n, j, d + 1)]
<1> DEFINE p == Place(n, j, d)
           q == Place(n, j, d + 1)
<1>1. /\ n \in Nat /\ ord[0] = Sentinel /\ ord[n] = last /\ links[last] = Sentinel
      /\ \A k \in 1 .. n : links[ord[k - 1]] = ord[k]
  BY DEF Ring
<1>2. p \in 0 .. n /\ q \in 0 .. n /\ ((p = n /\ q = 0) \/ (p < n /\ q = p + 1))
  BY <1>1 DEF Place
<1> HIDE DEF p, q
<1>3. CASE p = n /\ q = 0
  BY <1>1, <1>3 DEF p, q
<1>4. CASE p < n /\ q = p + 1
  <2>1. q \in 1 .. n /\ q - 1 = p
    BY <1>1, <1>2, <1>4
  <2>2. links[ord[q - 1]] = ord[q]
    BY <1>1, <2>1
  <2>3. links[ord[p]] = ord[q]
    BY <2>1, <2>2
  <2> QED
    BY <2>3 DEF p, q
<1> QED
  BY <1>2, <1>3, <1>4

(* Relinking keeps the types of the links.                                 *)
LEMMA AfterTypes ==
    ASSUME RQTypeOK, LinksIntact
    PROVE  NextAfter \in Links /\ PrevAfter \in Links /\ TailAfter \in Nodes
<1>1. next \in Links /\ prev \in Links /\ curr_node \in Nodes /\ tail \in Nodes
  BY DEF RQTypeOK, Links
<1>2. next[curr_node] \in Nodes /\ (Leaving => prev[curr_node] \in Nodes)
  BY <1>1 DEF LinksIntact, Links
<1> QED
  BY <1>1, <1>2 DEF NextAfter, PrevAfter, TailAfter, Links

(* The handler finds the first runnable task behind the current one.       *)
LEMMA SearchFinds ==
    ASSUME RQTypeOK, NEW n, NEW ord, Ring(next, prev, tail, n, ord),
           NEW j \in 1 .. n, curr_node = ord[j],
           NEW d \in 1 .. n + 1, running[ord[Place(n, j, d)]] = "RUNNING",
           \A e \in 1 .. d - 1 : running[ord[Place(n, j, e)]] # "RUNNING"
    PROVE  LinksIntact /\ Search = ord[Place(n, j, d)]
<1>1. /\ n \in Nat /\ next \in Links /\ prev \in Links /\ j \in Int /\ d \in Int
      /\ n \in 0 .. NumPids /\ NumPids \in Nat
  <2>1. n \in 0 .. NumPids
    BY RingBound
  <2> QED
    BY <2>1, NodeFacts DEF Ring, RQTypeOK, Links
<1>2. \A k \in 0 .. n : ord[k] \in Nodes /\ next[ord[k]] \in Nodes /\ prev[ord[k]] \in Nodes
  BY <1>1, RingLinked, Zenon
<1>3. LinksIntact
  BY <1>1, <1>2, NodeFacts DEF LinksIntact
<1>4. NextAfter \in Links
  BY <1>3, AfterTypes
<1>5. Onward \in [Nodes \cup {Null} -> Nodes \cup {Null}]
  BY <1>4 DEF Onward, Links
<1> DEFINE at(e) == ord[Place(n, j, e)]
<1>6. \A e \in 0 .. n + 1 : Place(n, j, e) \in 0 .. n /\ at(e) \in Nodes
  BY <1>1, <1>2 DEF Place
<1>7. next[curr_node] = at(1)
  <2>1. Place(n, j, 0) = j /\ 0 \in 0 .. n
    BY <1>1 DEF Place
  <2>2. next[ord[Place(n, j, 0)]] = at(0 + 1)
    BY <1>1, <2>1, RingStep
  <2> QED
    BY <2>1, <2>2
<1>8. Leaving => d <= n
  <2>1. d = n + 1 => ord[Place(n, j, d)] = curr_node
    BY <1>1 DEF Place
  <2> QED
    BY <1>1, <2>1 DEF Leaving
<1>9. ASSUME NEW e \in 1 .. d - 1 PROVE Onward[at(e)] = at(e + 1)
  <2>1. e \in 0 .. n /\ e \in 0 .. n + 1 /\ e \in Int /\ 1 <= e /\ e < d
    BY <1>1
  <2>2. next[at(e)] = at(e + 1) /\ at(e) \in Nodes /\ running[at(e)] # "RUNNING"
    BY <1>1, <1>6, <2>1, RingStep
  <2>3. Onward[at(e)] = NextAfter[at(e)]
    BY <2>2, NodeFacts DEF Onward
  <2>4. NextAfter[at(e)] = next[at(e)]
    <3>1. CASE ~Leaving
      BY <3>1 DEF NextAfter
    <3>2. CASE Leaving
      <4>1. Place(n, j, e) # j /\ Place(n, j, e) # j - 1 /\ Place(n, j, e) \in 0 .. n
            /\ j - 1 \in 0 .. n /\ j \in 0 .. n
        BY <1>1, <1>8, <2>1, <3>2 DEF Place
      <4>2. prev[curr_node] = ord[j - 1]
        BY DEF Ring
      <4>3. at(e) # ord[j] /\ at(e) # ord[j - 1]
        BY <4>1 DEF Ring
      <4> QED
        BY <1>1, <2>2, <3>2, <4>2, <4>3 DEF NextAfter, Links
    <3> QED
      BY <3>1, <3>2
  <2> QED
    BY <2>2, <2>3, <2>4
<1>10. Onward[at(d)] = at(d)
  BY <1>1, <1>6 DEF Onward
<1> DEFINE f == Follow(Onward, next[curr_node])
           Good == {k \in Nat : k <= Steps => f[k] = at(IF k + 1 <= d THEN k + 1 ELSE d)}
<1>11. Walks(f, Onward, next[curr_node], Steps)
  <2>1. next[curr_node] \in Nodes \cup {Null}
    BY <1>1, <1>2
  <2> QED
    BY <1>5, <2>1, FollowDef, Zenon
<1> HIDE DEF f, at
<1>12. 0 \in Good
  BY <1>1, <1>7, <1>11 DEF Walks
<1>13. ASSUME NEW k \in Nat, k \in Good PROVE k + 1 \in Good
  <2> SUFFICES ASSUME k + 1 <= Steps
               PROVE  f[k + 1] = at(IF (k + 1) + 1 <= d THEN (k + 1) + 1 ELSE d)
    OBVIOUS
  <2>1. k + 1 \in 1 .. Steps /\ (k + 1) - 1 = k /\ k <= Steps
    BY <1>1 DEF Steps
  <2>2. f[k + 1] = Onward[f[(k + 1) - 1]]
    BY <1>11, <2>1 DEF Walks
  <2>3. f[k] = at(IF k + 1 <= d THEN k + 1 ELSE d)
    BY <1>13, <2>1
  <2>4. CASE k + 1 < d
    <3>1. k + 1 \in 1 .. d - 1 /\ (k + 1) + 1 <= d
      BY <1>1, <2>4
    <3>2. f[k] = at(k + 1)
      BY <1>1, <2>3, <2>4
    <3> QED
      BY <1>9, <2>1, <2>2, <3>1, <3>2
  <2>5. CASE ~(k + 1 < d)
    <3>1. f[k] = at(d)
      BY <1>1, <2>3, <2>5
    <3>2. ~((k + 1) + 1 <= d)
      BY <1>1, <2>5
    <3> QED
      BY <1>10, <2>1, <2>2, <3>1, <3>2
  <2> QED
    BY <2>4, <2>5
<1>14. Steps \in Good
  <2>1. Steps \in Nat
    BY <1>1 DEF Steps
  <2> HIDE DEF Good
  <2> QED
    BY <1>12, <1>13, <2>1, Induction
<1>15. f[Steps] = at(d)
  BY <1>1, <1>14 DEF Steps
<1> QED
  BY <1>3, <1>15 DEF Search, Steps, f, at

(* If a task of the ring is runnable, one of them is the first behind the  *)
(* current one.                                                            *)
FirstAt(n, ord, j, d) ==
    /\ running[ord[Place(n, j, d)]] = "RUNNING"
    /\ \A e \in 1 .. d - 1 : running[ord[Place(n, j, e)]] # "RUNNING"

LEMMA FirstRunnable ==
    ASSUME NEW links \in Links, NEW back \in Links, NEW last, NEW n, NEW ord,
           Ring(links, back, last, n, ord), NEW j \in 1 .. n,
           NEW r \in Nodes, links[r] # Null, running[r] = "RUNNING"
    PROVE  \E d \in 1 .. n + 1 : FirstAt(n, ord, j, d)
<1>1. n \in Nat /\ j \in Int
  BY DEF Ring
<1>2. PICK m \in 0 .. n : ord[m] = r
  BY DEF Ring
<1> DEFINE T == {d \in 1 .. n + 1 : running[ord[Place(n, j, d)]] = "RUNNING"}
<1>3. T # {}
  <2> DEFINE d == IF m > j THEN m - j ELSE m - j + n + 1
  <2>1. d \in 1 .. n + 1 /\ Place(n, j, d) = m
    BY <1>1 DEF Place
  <2> HIDE DEF d
  <2> QED
    BY <1>2, <2>1
<1>4. T \in SUBSET Nat
  BY <1>1
<1>5. PICK d \in T : \A e \in T : d <= e
  <2> HIDE DEF T
  <2> QED
    BY <1>3, <1>4, Least, Zenon
<1>6. d \in 1 .. n + 1 /\ running[ord[Place(n, j, d)]] = "RUNNING"
  OBVIOUS
<1>7. ASSUME NEW e \in 1 .. d - 1 PROVE running[ord[Place(n, j, e)]] # "RUNNING"
  BY <1>1, <1>5, <1>6
<1> QED
  BY <1>6, <1>7 DEF FirstAt

-----------------------------------------------------------------------------
(* Some ring.                                                              *)
Ringed(links, back, last) ==
    \E n \in 0 .. NumPids : \E ord \in [0 .. n -> Nodes] : Ring(links, back, last, n, ord)

LEMMA RingedBy ==
    ASSUME NEW links, NEW back, NEW last, NEW n, NEW ord, Ring(links, back, last, n, ord)
    PROVE  Ringed(links, back, last)
<1>1. n \in 0 .. NumPids
  BY RingBound, Zenon
<1>2. ord \in [0 .. n -> Nodes]
  BY DEF Ring
<1> QED
  BY <1>1, <1>2, Zenon DEF Ringed

(* sched_init makes the list the ring of the sentinel alone, ...           *)
LEMMA RingedInit == RQInit => Ringed(next, prev, tail)
<1> SUFFICES ASSUME RQInit PROVE Ringed(next, prev, tail)
  OBVIOUS
<1> DEFINE ord == [k \in 0 .. 0 |-> Sentinel]
<1>1. Ring(next, prev, tail, 0, ord)
  BY NodeFacts DEF RQInit, Ring
<1> HIDE DEF ord
<1> QED
  BY <1>1, RingedBy, Zenon

(* schedule keeps it one, ...                                              *)
LEMMA RingedSchedule ==
    ASSUME RQTypeOK, Ringed(next, prev, tail), NEW p \in Pids, next[p] = Null,
           NEW q, Schedule(p, q)
    PROVE  Ringed(next', prev', tail')
<1>1. next \in Links /\ prev \in Links
  BY DEF RQTypeOK, Links
<1>2. PICK n \in 0 .. NumPids : \E ord \in [0 .. n -> Nodes] : Ring(next, prev, tail, n, ord)
  BY Zenon DEF Ringed
<1>3. PICK ord \in [0 .. n -> Nodes] : Ring(next, prev, tail, n, ord)
  BY <1>2, Zenon
<1>4. Ring(LinksAdd(next, tail, p), BackAdd(prev, tail, p), p, n + 1, OrdAdd(ord, n, p))
  BY <1>1, <1>3, RingAdd, Zenon
<1>5. next' = LinksAdd(next, tail, p) /\ prev' = BackAdd(prev, tail, p) /\ tail' = p
  BY Zenon DEF Schedule, LinksAdd, BackAdd
<1>6. Ringed(LinksAdd(next, tail, p), BackAdd(prev, tail, p), p)
  BY <1>4, RingedBy, Zenon
<1> QED
  BY <1>5, <1>6, Zenon

(* ... and so does pit_handler when it unlinks the current node.           *)
LEMMA RingedRelink ==
    ASSUME RQTypeOK, Ringed(next, prev, tail), curr_node \in Pids, next[curr_node] # Null, Relink
    PROVE  Ringed(next', prev', tail')
<1>1. next \in Links /\ prev \in Links /\ curr_node \in Nodes /\ curr_node # Sentinel
  BY NodeFacts DEF RQTypeOK, Links
<1>2. PICK n \in 0 .. NumPids : \E ord \in [0 .. n -> Nodes] : Ring(next, prev, tail, n, ord)
  BY Zenon DEF Ringed
<1>3. PICK ord \in [0 .. n -> Nodes] : Ring(next, prev, tail, n, ord)
  BY <1>2, Zenon
<1>4. PICK j \in 1 .. n : ord[j] = curr_node
  <2>1. PICK k \in 0 .. n : ord[k] = curr_node
    BY <1>1, <1>3, Zenon DEF Ring
  <2>2. ord[0] = Sentinel
    BY <1>3 DEF Ring
  <2>3. k \in 1 .. n
    BY <1>1, <2>1, <2>2
  <2> QED
    BY <2>1, <2>3
<1>5. CASE ~Leaving
  BY <1>5 DEF Relink, NextAfter, PrevAfter, TailAfter
<1>6. CASE Leaving
  <2>1. /\ next' = LinksDrop(next, prev, ord[j])
        /\ prev' = BackDrop(next, prev, ord[j])
        /\ tail' = LastDrop(prev, tail, ord[j])
    BY <1>4, <1>6 DEF Relink, NextAfter, PrevAfter, TailAfter, LinksDrop, BackDrop, LastDrop
  <2>2. Ring(LinksDrop(next, prev, ord[j]), BackDrop(next, prev, ord[j]),
             LastDrop(prev, tail, ord[j]), n - 1, OrdDrop(ord, n, j))
    BY <1>1, <1>3, RingDrop, Zenon
  <2>3. Ringed(LinksDrop(next, prev, ord[j]), BackDrop(next, prev, ord[j]),
               LastDrop(prev, tail, ord[j]))
    BY <2>2, RingedBy, Zenon
  <2> QED
    BY <2>1, <2>3, Zenon
<1> QED
  BY <1>5, <1>6

(* The search ends at a task when one of the ring is runnable.             *)
LEMMA PicksSome ==
    ASSUME RQTypeOK, Ringed(next, prev, tail), curr_node \in Pids, next[curr_node] # Null,
           running[Sentinel] = "SENTINEL", NEW r \in Pids, next[r] # Null, running[r] = "RUNNING"
    PROVE  \E t \in Pids : PicksTask(t)
<1>1. /\ next \in Links /\ prev \in Links /\ curr_node \in Nodes /\ curr_node # Sentinel
      /\ r \in Nodes
  BY NodeFacts DEF RQTypeOK, Links
<1>2. PICK n \in 0 .. NumPids : \E ord \in [0 .. n -> Nodes] : Ring(next, prev, tail, n, ord)
  BY Zenon DEF Ringed
<1>3. PICK ord \in [0 .. n -> Nodes] : Ring(next, prev, tail, n, ord)
  BY <1>2, Zenon
<1>4. PICK j \in 1 .. n : ord[j] = curr_node
  <2>1. PICK k \in 0 .. n : ord[k] = curr_node
    BY <1>1, <1>3, Zenon DEF Ring
  <2>2. ord[0] = Sentinel
    BY <1>3 DEF Ring
  <2>3. k \in 1 .. n
    BY <1>1, <2>1, <2>2
  <2> QED
    BY <2>1, <2>3
<1>5. PICK d \in 1 .. n + 1 : FirstAt(n, ord, j, d)
  BY <1>1, <1>3, FirstRunnable, Zenon
<1>6. /\ running[ord[Place(n, j, d)]] = "RUNNING"
      /\ \A e \in 1 .. d - 1 : running[ord[Place(n, j, e)]] # "RUNNING"
  BY <1>5, Zenon DEF FirstAt
<1> DEFINE t == ord[Place(n, j, d)]
<1>7. LinksIntact /\ Search = t
  BY <1>3, <1>4, <1>6, SearchFinds, Zenon
<1>8. t \in Pids
  <2>1. Place(n, j, d) \in 0 .. n
    BY DEF Place
  <2>2. t \in Nodes /\ t # Sentinel
    BY <1>6, <2>1
  <2> QED
    BY <2>2 DEF Nodes
<1> HIDE DEF t
<1>9. running[t] = "RUNNING"
  BY <1>6, Zenon DEF t
<1> QED
  BY <1>7, <1>8, <1>9, Zenon DEF PicksTask
=============================================================================
