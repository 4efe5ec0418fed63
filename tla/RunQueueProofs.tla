--------------------------- MODULE RunQueueProofs ---------------------------
(***************************************************************************)
(* The linked list of the run queue implements the round robin of TaskList *)
(* for every number of processes.                                          *)
(***************************************************************************)
EXTENDS MCRunQueue, RunQueueRing, Sequences

-----------------------------------------------------------------------------
(* Sequences, element by element.                                          *)

LEMMA PartOf ==
    ASSUME NEW S, NEW s \in Seq(S), NEW a \in Int, NEW b \in Int,
           1 <= a, a <= b + 1, b <= Len(s)
    PROVE  /\ SubSeq(s, a, b) \in Seq(S) /\ Len(SubSeq(s, a, b)) = b - a + 1
           /\ \A k \in 1 .. b - a + 1 : SubSeq(s, a, b)[k] = s[a + k - 1]
OBVIOUS

LEMMA Joined ==
    ASSUME NEW S, NEW s \in Seq(S), NEW t \in Seq(S)
    PROVE  /\ s \o t \in Seq(S) /\ Len(s \o t) = Len(s) + Len(t)
           /\ \A k \in 1 .. Len(s) + Len(t) :
                 (s \o t)[k] = IF k <= Len(s) THEN s[k] ELSE t[k - Len(s)]
OBVIOUS

LEMMA SameSeq ==
    ASSUME NEW S, NEW s \in Seq(S), NEW t \in Seq(S), Len(s) = Len(t),
           \A k \in 1 .. Len(s) : s[k] = t[k]
    PROVE  s = t
OBVIOUS

LEMMA EmptySeqIs ==
    ASSUME NEW S, NEW s \in Seq(S), Len(s) = 0
    PROVE  s = <<>>
OBVIOUS

(* What Round and Without of TaskList do.                                  *)
RoundOf(s, i) == SubSeq(s, i + 1, Len(s)) \o SubSeq(s, 1, i)

LEMMA Rounded ==
    ASSUME NEW S, NEW s \in Seq(S), NEW i \in 1 .. Len(s)
    PROVE  /\ RoundOf(s, i) \in Seq(S) /\ Len(RoundOf(s, i)) = Len(s)
           /\ \A k \in 1 .. Len(s) :
                 RoundOf(s, i)[k] = IF k <= Len(s) - i THEN s[i + k] ELSE s[k - (Len(s) - i)]
<1> DEFINE a == SubSeq(s, i + 1, Len(s))
           b == SubSeq(s, 1, i)
           n == Len(s)
           r == RoundOf(s, i)
<1>1. n \in Nat /\ i \in Int /\ i + 1 \in Int /\ n \in Int /\ 1 \in Int /\ 1 <= i /\ i <= n
  OBVIOUS
<1>2. /\ a \in Seq(S) /\ Len(a) = n - (i + 1) + 1
      /\ \A k \in 1 .. n - (i + 1) + 1 : a[k] = s[(i + 1) + k - 1]
  BY <1>1, PartOf
<1>3. /\ b \in Seq(S) /\ Len(b) = i - 1 + 1
      /\ \A k \in 1 .. i - 1 + 1 : b[k] = s[1 + k - 1]
  BY <1>1, PartOf
<1>4. r = a \o b
  BY DEF RoundOf
<1> HIDE DEF a, b, r
<1>5. /\ r \in Seq(S) /\ Len(r) = Len(a) + Len(b)
      /\ \A k \in 1 .. Len(a) + Len(b) :
            r[k] = IF k <= Len(a) THEN a[k] ELSE b[k - Len(a)]
  BY <1>2, <1>3, <1>4, Joined, Zenon
<1> HIDE DEF n
<1>6. Len(a) = n - i /\ Len(b) = i
  BY <1>1, <1>2, <1>3
<1>7. r \in Seq(S) /\ Len(r) = n
  BY <1>1, <1>5, <1>6
<1>8. ASSUME NEW k \in 1 .. n
      PROVE  r[k] = IF k <= n - i THEN s[i + k] ELSE s[k - (n - i)]
  <2>1. k \in Int /\ k \in 1 .. Len(a) + Len(b)
    BY <1>1, <1>6
  <2>2. CASE k <= n - i
    <3>1. r[k] = a[k] /\ k \in 1 .. n - (i + 1) + 1 /\ (i + 1) + k - 1 = i + k
      BY <1>1, <1>5, <1>6, <2>1, <2>2
    <3>2. a[k] = s[(i + 1) + k - 1]
      BY <1>2, <3>1
    <3> QED
      BY <2>2, <3>1, <3>2
  <2>3. CASE ~(k <= n - i)
    <3>1. r[k] = b[k - (n - i)] /\ k - (n - i) \in 1 .. i - 1 + 1
          /\ 1 + (k - (n - i)) - 1 = k - (n - i)
      BY <1>1, <1>5, <1>6, <2>1, <2>3
    <3>2. b[k - (n - i)] = s[1 + (k - (n - i)) - 1]
      BY <1>3, <3>1
    <3> QED
      BY <2>3, <3>1, <3>2
  <2> QED
    BY <2>2, <2>3
<1> QED
  BY <1>7, <1>8 DEF n, r

LEMMA Removed ==
    ASSUME NEW S, NEW s \in Seq(S), NEW i \in 1 .. Len(s), NEW t \in Seq(S),
           Len(t) = Len(s) - 1,
           \A k \in 1 .. Len(s) - 1 : t[k] = IF k < i THEN s[k] ELSE s[k + 1]
    PROVE  t = SubSeq(s, 1, i - 1) \o SubSeq(s, i + 1, Len(s))
<1> DEFINE a == SubSeq(s, 1, i - 1)
           b == SubSeq(s, i + 1, Len(s))
           n == Len(s)
<1>1. n \in Nat /\ i \in Int /\ i + 1 \in Int /\ i - 1 \in Int /\ n \in Int /\ 1 \in Int
      /\ 1 <= i /\ i <= n
  OBVIOUS
<1>2. /\ a \in Seq(S) /\ Len(a) = (i - 1) - 1 + 1
      /\ \A k \in 1 .. (i - 1) - 1 + 1 : a[k] = s[1 + k - 1]
  BY <1>1, PartOf
<1>3. /\ b \in Seq(S) /\ Len(b) = n - (i + 1) + 1
      /\ \A k \in 1 .. n - (i + 1) + 1 : b[k] = s[(i + 1) + k - 1]
  BY <1>1, PartOf
<1> HIDE DEF a, b
<1>4. /\ a \o b \in Seq(S) /\ Len(a \o b) = Len(a) + Len(b)
      /\ \A k \in 1 .. Len(a) + Len(b) :
            (a \o b)[k] = IF k <= Len(a) THEN a[k] ELSE b[k - Len(a)]
  BY <1>2, <1>3, Joined, Zenon
<1>5. Len(t) = n - 1 /\ \A k \in 1 .. n - 1 : t[k] = IF k < i THEN s[k] ELSE s[k + 1]
  OBVIOUS
<1> DEFINE r == a \o b
<1>0. r = a \o b
  OBVIOUS
<1> HIDE DEF n, r
<1>6. Len(a) = i - 1 /\ Len(b) = n - i
  BY <1>1, <1>2, <1>3
<1>7. r \in Seq(S) /\ Len(r) = n - 1
  BY <1>0, <1>1, <1>4, <1>6
<1>8. ASSUME NEW k \in 1 .. n - 1 PROVE t[k] = r[k]
  <2>1. k \in Int /\ k \in 1 .. Len(a) + Len(b)
    BY <1>1, <1>6
  <2>2. CASE k < i
    <3>1. r[k] = a[k] /\ k \in 1 .. (i - 1) - 1 + 1 /\ 1 + k - 1 = k
      BY <1>0, <1>1, <1>4, <1>6, <2>1, <2>2
    <3>2. a[k] = s[1 + k - 1]
      BY <1>2, <3>1
    <3> QED
      BY <1>5, <2>2, <3>1, <3>2
  <2>3. CASE ~(k < i)
    <3>1. r[k] = b[k - (i - 1)] /\ k - (i - 1) \in 1 .. n - (i + 1) + 1
          /\ (i + 1) + (k - (i - 1)) - 1 = k + 1
      BY <1>0, <1>1, <1>4, <1>6, <2>1, <2>3
    <3>2. b[k - (i - 1)] = s[(i + 1) + (k - (i - 1)) - 1]
      BY <1>3, <3>1
    <3> QED
      BY <1>5, <2>3, <3>1, <3>2
  <2> QED
    BY <2>2, <2>3
<1>9. t = r
  BY <1>5, <1>7, <1>8, SameSeq
<1> QED
  BY <1>0, <1>9 DEF a, b, n

-----------------------------------------------------------------------------
(* The order read along next_task is that of the ring.                     *)
Lists(s, n, ord) ==
    s \in Seq(Pids) /\ Len(s) = n /\ \A k \in 1 .. n : s[k] = ord[k]

LEMMA OrderIs ==
    ASSUME NEW links \in Links, NEW back \in Links, NEW last, NEW n, NEW ord,
           Ring(links, back, last, n, ord)
    PROVE  Lists(OrderOf(links), n, ord)
<1>1. /\ n \in Nat /\ ord[0] = Sentinel /\ \A k \in 1 .. n : links[ord[k - 1]] = ord[k]
      /\ n <= Steps /\ Steps \in Nat
  <2>1. n \in 0 .. NumPids
    BY RingBound
  <2> QED
    BY <2>1, NodeFacts DEF Ring, Steps
<1>2. /\ \A k \in 0 .. n : ord[k] \in Nodes
      /\ \A k \in 1 .. n : ord[k] \in Pids
  BY RingLinked, Zenon
<1>3. After(links) \in [Nodes \cup {Null} -> Nodes \cup {Null}]
      /\ \A m \in Nodes : After(links)[m] = links[m]
  <2>1. Null \notin Nodes
    BY NodeFacts
  <2>2. \A m \in Nodes : links[m] \in Nodes \cup {Null}
    BY DEF Links
  <2> QED
    BY <2>1, <2>2 DEF After
<1> DEFINE at == Follow(After(links), Sentinel)
           Good == {k \in Nat : k <= n => at[k] = ord[k]}
<1>4. Walks(at, After(links), Sentinel, Steps)
  <2>1. Sentinel \in Nodes \cup {Null}
    BY NodeFacts
  <2> QED
    BY <1>3, <2>1, FollowDef, Zenon
<1> HIDE DEF at
<1>6. 0 \in Good
  BY <1>1, <1>4 DEF Walks
<1>7. ASSUME NEW k \in Nat, k \in Good PROVE k + 1 \in Good
  <2> SUFFICES ASSUME k + 1 <= n PROVE at[k + 1] = ord[k + 1]
    OBVIOUS
  <2>1. k + 1 \in 1 .. Steps /\ k + 1 \in 1 .. n /\ (k + 1) - 1 = k /\ k \in 0 .. n
    BY <1>1
  <2>2. at[k + 1] = After(links)[at[(k + 1) - 1]]
    BY <1>4, <2>1 DEF Walks
  <2>3. at[k] = ord[k]
    BY <1>1, <1>7
  <2>4. links[ord[(k + 1) - 1]] = ord[k + 1]
    BY <1>1, <2>1
  <2> QED
    BY <1>2, <1>3, <2>1, <2>2, <2>3, <2>4
<1>8. \A k \in 1 .. n : at[k] = ord[k]
  <2>1. Nat \subseteq Good
    <3> HIDE DEF Good
    <3> QED
      BY <1>6, <1>7, Induction
  <2> QED
    BY <1>1, <2>1
<1>9. OrderOf(links) = [k \in 1 .. n |-> ord[k]]
  <2> DEFINE Ends(m) == at[m + 1] = Sentinel /\ \A k \in 1 .. m : at[k] # Sentinel
             length == CHOOSE m \in 0 .. NumPids : Ends(m)
  <2>1. OrderOf(links) = [k \in 1 .. length |-> at[k]]
    BY Zenon DEF OrderOf, at
  <2>2. n \in 0 .. NumPids /\ Ends(n)
    <3>1. n \in 0 .. NumPids
      BY RingBound
    <3>2. n + 1 \in 1 .. Steps /\ (n + 1) - 1 = n /\ n \in 0 .. n
      BY <1>1, <3>1, NodeFacts DEF Steps
    <3>3. at[n + 1] = After(links)[at[(n + 1) - 1]]
      BY <1>4, <3>2 DEF Walks
    <3>4. at[n] = ord[n]
      BY <1>1, <1>4, <1>8 DEF Walks
    <3>5. links[ord[n]] = Sentinel
      BY DEF Ring
    <3>6. \A k \in 1 .. n : at[k] # Sentinel
      BY <1>2, <1>8, NodeFacts
    <3> QED
      BY <1>2, <1>3, <3>1, <3>2, <3>3, <3>4, <3>5, <3>6
  <2>3. \A m \in 0 .. NumPids : Ends(m) => m = n
    BY <2>2
  <2> HIDE DEF Ends
  <2>4. length \in 0 .. NumPids /\ Ends(length)
    BY <2>2, Zenon
  <2>5. length = n
    BY <2>3, <2>4, Zenon
  <2>6. OrderOf(links) = [k \in 1 .. n |-> at[k]]
    BY <2>1, <2>5, Zenon
  <2> HIDE DEF length
  <2> QED
    BY <1>8, <2>6
<1>10. [k \in 1 .. n |-> ord[k]] \in Seq(Pids)
  BY <1>1, <1>2
<1> QED
  BY <1>1, <1>9, <1>10 DEF Lists

-----------------------------------------------------------------------------
(* The inductive invariant of the run queue: the linked nodes form a ring, *)
(* what is runnable or current is linked, and boot links the shells in     *)
(* order.                                                                  *)
RQInv ==
    /\ RQTypeOK
    /\ Ringed(next, prev, tail)
    /\ running[Sentinel] = "SENTINEL"
    /\ \A p \in Pids : running[p] = "RUNNING" => next[p] # Null
    /\ next[curr_node] # Null
    /\ curr_node = Sentinel => \A p \in Pids : next[p] # Null <=> p <= tail

LEMMA RQInitInv == RQInit => RQInv
<1> SUFFICES ASSUME RQInit PROVE RQInv
  OBVIOUS
<1>1. RQTypeOK
  BY NodeFacts DEF RQInit, RQTypeOK, TaskState
<1> DEFINE ord == [k \in 0 .. 0 |-> Sentinel]
<1>2. Ring(next, prev, tail, 0, ord)
  BY NodeFacts DEF RQInit, Ring
<1>3. Ringed(next, prev, tail)
  <2> HIDE DEF ord
  <2> QED
    BY <1>2, RingedBy, Zenon
<1>4. /\ running[Sentinel] = "SENTINEL"
      /\ \A p \in Pids : running[p] = "RUNNING" => next[p] # Null
      /\ next[curr_node] # Null
  <2>1. Sentinel \in Nodes /\ Sentinel \notin Pids /\ Pids \subseteq Nodes /\ Sentinel # Null
    BY NodeFacts
  <2>2. \A p \in Pids : running[p] = "INACTIVE"
    BY <2>1 DEF RQInit
  <2>3. running[Sentinel] = "SENTINEL" /\ next[Sentinel] = Sentinel /\ curr_node = Sentinel
    BY <2>1 DEF RQInit
  <2> QED
    BY <2>1, <2>2, <2>3
<1>5. \A p \in Pids : next[p] # Null <=> p <= tail
  BY NodeFacts DEF RQInit, Pids, Sentinel
<1> QED
  BY <1>1, <1>3, <1>4, <1>5 DEF RQInv

(* The order is a sequence of tasks.                                       *)
LEMMA OrderSeq ==
    ASSUME RQTypeOK, Ringed(next, prev, tail)
    PROVE  Order \in Seq(Pids) /\ DOMAIN Order = 1 .. Len(Order)
<1>1. next \in Links /\ prev \in Links
  BY DEF RQTypeOK, Links
<1>2. PICK n \in 0 .. NumPids : \E ord \in [0 .. n -> Nodes] : Ring(next, prev, tail, n, ord)
  BY Zenon DEF Ringed
<1>3. PICK ord \in [0 .. n -> Nodes] : Ring(next, prev, tail, n, ord)
  BY <1>2, Zenon
<1>4. Lists(OrderOf(next), n, ord)
  BY <1>1, <1>3, OrderIs, Zenon
<1>5. Order \in Seq(Pids)
  BY <1>4, Zenon DEF Order, Lists
<1> QED
  BY <1>5

(* Every linked task is in it.                                             *)
LEMMA InOrder ==
    ASSUME RQTypeOK, Ringed(next, prev, tail), NEW q \in Pids, next[q] # Null
    PROVE  \E i \in DOMAIN Order : Order[i] = q
<1>1. next \in Links /\ prev \in Links
  BY DEF RQTypeOK, Links
<1>2. PICK n \in 0 .. NumPids : \E ord \in [0 .. n -> Nodes] : Ring(next, prev, tail, n, ord)
  BY Zenon DEF Ringed
<1>3. PICK ord \in [0 .. n -> Nodes] : Ring(next, prev, tail, n, ord)
  BY <1>2, Zenon
<1>4. Lists(OrderOf(next), n, ord)
  BY <1>1, <1>3, OrderIs, Zenon
<1>5. Len(Order) = n /\ (\A k \in 1 .. n : Order[k] = ord[k]) /\ DOMAIN Order = 1 .. Len(Order)
  BY <1>4, OrderSeq, Zenon DEF Order, Lists
<1>6. q \in Nodes /\ q # Sentinel
  BY NodeFacts
<1>7. PICK k \in 0 .. n : ord[k] = q
  BY <1>3, <1>6, Zenon DEF Ring
<1>8. ord[0] = Sentinel
  BY <1>3 DEF Ring
<1>9. k \in 1 .. n
  BY <1>6, <1>7, <1>8
<1> QED
  BY <1>5, <1>7, <1>9, Zenon

(* What schedule does to the list.                                         *)
Scheduled(p, q) ==
    /\ RQTypeOK' /\ Ringed(next', prev', tail')
    /\ tail' = p /\ curr_node' = curr_node
    /\ \A m \in Nodes : next'[m] = Null <=> (next[m] = Null /\ m # p)
    /\ \A m \in Nodes : running'[m] = IF m = q THEN "INACTIVE"
                                      ELSE IF m = p THEN "RUNNING" ELSE running[m]
    /\ Order' = Append(Order, p)
    /\ \A k \in DOMAIN Order : Order[k] # p

LEMMA ScheduleDoes ==
    ASSUME RQTypeOK, Ringed(next, prev, tail), NEW p \in Pids, next[p] = Null,
           NEW q \in Nodes \cup {Null}, q # Sentinel, q # p, Schedule(p, q)
    PROVE  Scheduled(p, q)
<1>0. next \in Links /\ prev \in Links /\ tail \in Nodes /\ p \in Nodes
  BY NodeFacts DEF RQTypeOK, Links
<1>1. PICK n \in 0 .. NumPids : \E ord \in [0 .. n -> Nodes] : Ring(next, prev, tail, n, ord)
  BY Zenon DEF Ringed
<1>2. PICK ord \in [0 .. n -> Nodes] : Ring(next, prev, tail, n, ord)
  BY <1>1, Zenon
<1> DEFINE o2 == OrdAdd(ord, n, p)
<1>3. /\ next' = [next EXCEPT ![p] = next[tail], ![tail] = p]
      /\ prev' = [prev EXCEPT ![p] = tail, ![Sentinel] = p]
      /\ tail' = p /\ curr_node' = curr_node
      /\ running' = [m \in Nodes |-> IF m = q THEN "INACTIVE"
                                     ELSE IF m = p THEN "RUNNING" ELSE running[m]]
  BY DEF Schedule
<1>4. Ring(next', prev', tail', n + 1, o2)
  <2>1. Ring(LinksAdd(next, tail, p), BackAdd(prev, tail, p), p, n + 1, o2)
    BY <1>0, <1>2, RingAdd, Zenon
  <2>2. next' = LinksAdd(next, tail, p) /\ prev' = BackAdd(prev, tail, p) /\ tail' = p
    BY <1>3, Zenon DEF LinksAdd, BackAdd
  <2> HIDE DEF o2
  <2> QED
    BY <2>1, <2>2, Zenon
<1>5. n \in Nat /\ n \in Int /\ \A k \in 1 .. n : o2[k] = ord[k]
  BY NodeFacts DEF OrdAdd
<1>6. o2[n + 1] = p
  BY <1>5 DEF OrdAdd
<1> HIDE DEF o2
<1>7. Ringed(next', prev', tail')
  BY <1>4, RingedBy, Zenon
<1>8. RQTypeOK'
  <2>1. next[tail] \in Nodes \cup {Null} /\ Sentinel \in Nodes
    BY <1>0, NodeFacts DEF Links
  <2>2. next' \in Links /\ prev' \in Links
    BY <1>0, <1>3, <2>1 DEF Links
  <2>3. running' \in [Nodes -> TaskState]
    BY <1>3 DEF RQTypeOK, TaskState
  <2> QED
    BY <1>0, <1>3, <2>2, <2>3 DEF RQTypeOK, Links
<1>9. next[tail] = Sentinel /\ next' \in Links /\ prev' \in Links
  BY <1>2, <1>8 DEF Ring, RQTypeOK, Links
<1>10. ASSUME NEW m \in Nodes
       PROVE  /\ next'[m] = Null <=> next[m] = Null /\ m # p
              /\ running'[m] = IF m = q THEN "INACTIVE" ELSE IF m = p THEN "RUNNING" ELSE running[m]
  <2>1. next'[m] = IF m = tail THEN p ELSE IF m = p THEN Sentinel ELSE next[m]
    BY <1>0, <1>3, <1>9 DEF Links
  <2>2. next[m] = Null => m # tail
    BY <1>9, NodeFacts
  <2> QED
    BY <1>3, <1>9, <2>1, <2>2, NodeFacts
<1>11. /\ Order \in Seq(Pids) /\ Len(Order) = n /\ \A k \in 1 .. n : Order[k] = ord[k]
  <2>1. Lists(OrderOf(next), n, ord)
    BY <1>0, <1>2, OrderIs, Zenon
  <2> QED
    BY <2>1, Zenon DEF Order, Lists
<1>12. /\ Order' \in Seq(Pids) /\ Len(Order') = n + 1
       /\ \A k \in 1 .. n + 1 : Order'[k] = o2[k]
  <2>1. Lists(OrderOf(next'), n + 1, o2)
    BY <1>4, <1>9, OrderIs, Zenon
  <2> QED
    BY <2>1, Zenon DEF Order, Lists
<1>13. Order' = Append(Order, p)
  <2> DEFINE s == Append(Order, p)
  <2>1. s \in Seq(Pids) /\ Len(s) = n + 1 /\ s[n + 1] = p /\ \A k \in 1 .. n : s[k] = Order[k]
    BY <1>5, <1>11
  <2> HIDE DEF s
  <2>2. \A k \in 1 .. n + 1 : s[k] = Order'[k]
    BY <1>5, <1>6, <1>11, <1>12, <2>1
  <2>3. s = Order'
    BY <1>12, <2>1, <2>2, SameSeq
  <2> QED
    BY <2>3 DEF s
<1>14. \A k \in 1 .. Len(Order) : Order[k] # p
  <2>1. \A k \in 0 .. n : next[ord[k]] \in Nodes
    BY <1>0, <1>2, RingLinked, Zenon
  <2> QED
    BY <1>5, <1>11, <2>1, NodeFacts
<1>15. DOMAIN Order = 1 .. Len(Order)
  BY OrderSeq
<1>16. \A k \in DOMAIN Order : Order[k] # p
  BY <1>14, <1>15, Zenon
<1> QED
  BY <1>3, <1>7, <1>8, <1>10, <1>13, <1>16, Zenon DEF Scheduled

-----------------------------------------------------------------------------
(* Each step of the list keeps the invariant and is a step of TaskList.    *)

(* RQBoot schedules the next shell.                                        *)
LEMMA BootStep ==
    ASSUME RQInv, RQBoot
    PROVE  RQInv' /\ List!Boot
<1>1. /\ RQTypeOK /\ Ringed(next, prev, tail) /\ running[Sentinel] = "SENTINEL"
      /\ next[curr_node] # Null /\ curr_node = Sentinel
  BY DEF RQInv, RQBoot
<1>2. /\ \A p \in Pids : running[p] = "RUNNING" => next[p] # Null
      /\ \A p \in Pids : next[p] # Null <=> p <= tail
  BY <1>1 DEF RQInv
<1>3. PICK s \in Shells : s = tail + 1 /\ Schedule(s, Null)
  BY DEF RQBoot
<1>4. tail \in Int /\ s \in Pids /\ s \in Nodes
  BY <1>1, NodeFacts DEF RQTypeOK, Shells, Pids
<1>5. next[s] = Null
  BY <1>2, <1>3, <1>4
<1>6. Null \in Nodes \cup {Null} /\ Null # Sentinel /\ Null # s
  BY <1>4, NodeFacts
<1>0. Scheduled(s, Null)
  BY <1>1, <1>3, <1>4, <1>5, <1>6, ScheduleDoes, Zenon
<1>7. /\ RQTypeOK' /\ Ringed(next', prev', tail')
      /\ tail' = s /\ curr_node' = curr_node
      /\ \A m \in Nodes : next'[m] = Null <=> (next[m] = Null /\ m # s)
      /\ Order' = Append(Order, s)
      /\ \A k \in DOMAIN Order : Order[k] # s
  BY <1>0, Zenon DEF Scheduled
<1>8. \A m \in Nodes : running'[m] = IF m = s THEN "RUNNING" ELSE running[m]
  BY <1>0, NodeFacts DEF Scheduled
<1>9. RQInv'
  <2>1. running'[Sentinel] = "SENTINEL" /\ next'[curr_node'] # Null
    BY <1>1, <1>4, <1>7, <1>8, NodeFacts
  <2>2. \A p \in Pids : running'[p] = "RUNNING" => next'[p] # Null
    BY <1>2, <1>7, <1>8, NodeFacts
  <2>3. \A p \in Pids : next'[p] # Null <=> p <= tail'
    <3> SUFFICES ASSUME NEW p \in Pids PROVE next'[p] # Null <=> p <= tail'
      OBVIOUS
    <3>1. p \in Int /\ p \in Nodes
      BY NodeFacts DEF Pids
    <3>2. next'[p] # Null <=> (next[p] # Null \/ p = s)
      BY <1>7, <3>1
    <3> QED
      BY <1>2, <1>3, <1>4, <1>7, <3>1, <3>2
  <2> QED
    BY <1>7, <2>1, <2>2, <2>3 DEF RQInv
<1>10. Runnable' = Runnable \cup {s}
  BY <1>4, <1>8, NodeFacts DEF Runnable
<1>13. Finished' = Finished \ {s}
  <2>1. \A m \in Pids : m \in Nodes
    BY NodeFacts
  <2>2. \A m \in Pids : (next'[m] # Null /\ running'[m] = "FINISHED")
                       <=> (next[m] # Null /\ running[m] = "FINISHED" /\ m # s)
    BY <1>5, <1>7, <1>8, <2>1
  <2> QED
    BY <2>2 DEF Finished, Linked
<1>11. Current = <<>> /\ Current' = Current
  BY <1>1, <1>7 DEF Current
<1> QED
  BY <1>4, <1>7, <1>9, <1>10, <1>11, <1>13, Zenon DEF List!Boot, List!Add

(* RQStart gives the CPU to the first task.                                *)
LEMMA StartStep ==
    ASSUME RQInv, RQStart
    PROVE  RQInv' /\ List!Start
<1>1. /\ RQTypeOK /\ Ringed(next, prev, tail) /\ running[Sentinel] = "SENTINEL"
      /\ \A p \in Pids : running[p] = "RUNNING" => next[p] # Null
  BY DEF RQInv
<1>2. /\ curr_node = Sentinel /\ curr_node' = next[Sentinel]
      /\ next' = next /\ prev' = prev /\ running' = running /\ tail' = tail
  BY DEF RQStart, PitFirst
<1>3. next \in Links /\ prev \in Links
  BY <1>1 DEF RQTypeOK, Links
<1>4. PICK n \in 0 .. NumPids : \E ord \in [0 .. n -> Nodes] : Ring(next, prev, tail, n, ord)
  BY <1>1, Zenon DEF Ringed
<1>5. PICK ord \in [0 .. n -> Nodes] : Ring(next, prev, tail, n, ord)
  BY <1>4, Zenon
<1>6. n \in Int /\ 1 <= n
  <2>1. 0 \in Pids /\ 0 \in Nodes /\ 0 # Sentinel /\ next[0] # Null
    <3>1. 0 \in Shells
      BY NodeFacts DEF Shells
    <3> QED
      BY <3>1, NodeFacts DEF RQStart, Linked, Sentinel
  <2>2. PICK k \in 0 .. n : ord[k] = 0
    BY <1>5, <2>1, Zenon DEF Ring
  <2>3. ord[0] = Sentinel
    BY <1>5 DEF Ring
  <2> QED
    BY <2>1, <2>2, <2>3
<1>7. /\ \A k \in 0 .. n : next[ord[k]] \in Nodes
      /\ \A k \in 1 .. n : ord[k] \in Pids
  BY <1>3, <1>5, RingLinked, Zenon
<1>8. curr_node' = ord[1] /\ curr_node' \in Pids /\ next[curr_node'] \in Nodes
  <2>1. 1 \in 1 .. n /\ 1 \in 0 .. n /\ 1 - 1 = 0
    BY <1>6
  <2>2. next[ord[1 - 1]] = ord[1] /\ ord[0] = Sentinel
    BY <1>5, <2>1 DEF Ring
  <2> QED
    BY <1>2, <1>7, <2>1, <2>2
<1>9. Lists(OrderOf(next), n, ord)
  BY <1>3, <1>5, OrderIs, Zenon
<1>10. Order \in Seq(Pids) /\ Order # <<>> /\ Head(Order) = curr_node'
  <2>1. Order \in Seq(Pids) /\ Len(Order) = n /\ \A k \in 1 .. n : Order[k] = ord[k]
    BY <1>9, Zenon DEF Lists, Order
  <2>2. 1 \in 1 .. n
    BY <1>6
  <2> QED
    BY <1>6, <1>8, <2>1, <2>2
<1>11. Current = <<>> /\ Current' = <<Head(Order)>>
  BY <1>2, <1>8, <1>10, NodeFacts DEF Current
<1>12. Order' = Order /\ Runnable' = Runnable /\ Finished' = Finished
  BY <1>2, Zenon DEF Order, Runnable, Finished, Linked
<1>13. RQInv'
  <2>1. RQTypeOK'
    BY <1>1, <1>2, <1>8, NodeFacts DEF RQTypeOK
  <2>2. curr_node' # Sentinel /\ next'[curr_node'] # Null
    BY <1>2, <1>8, NodeFacts
  <2> QED
    BY <1>1, <1>2, <2>1, <2>2 DEF RQInv
<1> QED
  BY <1>10, <1>11, <1>12, <1>13, Zenon DEF List!Start

(* RQExecute schedules a program behind its waiting parent.                *)
LEMMA ExecuteStep ==
    ASSUME RQInv, NEW p \in Pids, RQExecute(p)
    PROVE  RQInv' /\ List!Execute
<1>1. /\ RQTypeOK /\ Ringed(next, prev, tail) /\ running[Sentinel] = "SENTINEL"
      /\ next[curr_node] # Null /\ curr_node # Sentinel /\ running[curr_node] = "RUNNING"
      /\ Schedule(p, curr_node) /\ next[p] = Null
  BY DEF RQInv, RQExecute, Linked
<1>2. \A m \in Pids : running[m] = "RUNNING" => next[m] # Null
  BY DEF RQInv
<1>3. curr_node \in Pids /\ curr_node \in Nodes /\ curr_node # p /\ p \in Nodes /\ p # Sentinel
  BY <1>1, NodeFacts DEF RQTypeOK, Nodes
<1>4. Scheduled(p, curr_node)
  <2>1. curr_node \in Nodes \cup {Null}
    BY <1>3
  <2> QED
    BY <1>1, <1>3, <2>1, ScheduleDoes, Zenon
<1>5. /\ RQTypeOK' /\ Ringed(next', prev', tail')
      /\ tail' = p /\ curr_node' = curr_node
      /\ \A m \in Nodes : next'[m] = Null <=> (next[m] = Null /\ m # p)
      /\ \A m \in Nodes : running'[m] = IF m = curr_node THEN "INACTIVE"
                                        ELSE IF m = p THEN "RUNNING" ELSE running[m]
      /\ Order' = Append(Order, p)
      /\ \A k \in DOMAIN Order : Order[k] # p
  BY <1>4, Zenon DEF Scheduled
<1>6. RQInv'
  <2>1. running'[Sentinel] = "SENTINEL"
    BY <1>1, <1>3, <1>5, NodeFacts
  <2>2. \A m \in Pids : running'[m] = "RUNNING" => next'[m] # Null
    BY <1>2, <1>5, NodeFacts
  <2>3. next'[curr_node'] # Null /\ curr_node' # Sentinel
    BY <1>1, <1>3, <1>5
  <2> QED
    BY <1>5, <2>1, <2>2, <2>3 DEF RQInv
<1>7. Runnable' = (Runnable \ {curr_node}) \cup {p}
  <2>1. \A m \in Pids : running'[m] = "RUNNING"
                          <=> ((running[m] = "RUNNING" /\ m # curr_node) \/ m = p)
    BY <1>3, <1>5, NodeFacts
  <2> QED
    BY <2>1 DEF Runnable
<1>8. Finished' = Finished \ {p}
  <2>1. \A m \in Pids : (next'[m] # Null /\ running'[m] = "FINISHED")
                       <=> (next[m] # Null /\ running[m] = "FINISHED" /\ m # p)
    BY <1>1, <1>3, <1>5, NodeFacts
  <2> QED
    BY <2>1 DEF Finished, Linked
<1>9. Current = <<curr_node>> /\ Current' = Current /\ Current # <<>> /\ Current[1] = curr_node
  BY <1>3, <1>5, NodeFacts DEF Current
<1>10. curr_node \in Runnable
  BY <1>1, <1>3 DEF Runnable
<1> QED
  BY <1>5, <1>6, <1>7, <1>8, <1>9, <1>10, Zenon DEF List!Execute, List!Add

(* RQHalt marks the current task and wakes one that waits.                 *)
LEMMA HaltStep ==
    ASSUME RQInv, NEW q \in Pids, RQHalt(q)
    PROVE  RQInv' /\ List!Halt
<1>1. /\ RQTypeOK /\ Ringed(next, prev, tail) /\ running[Sentinel] = "SENTINEL"
      /\ next[curr_node] # Null /\ running[curr_node] = "RUNNING"
      /\ curr_node \in Pids /\ curr_node >= NumShells
      /\ next[q] # Null /\ running[q] = "INACTIVE" /\ Unschedule(curr_node, q)
  <2>1. \A m \in Pids \ Shells : m >= NumShells
    BY NodeFacts DEF Pids, Shells
  <2> QED
    BY <2>1 DEF RQInv, RQHalt, Linked
<1>2. \A m \in Pids : running[m] = "RUNNING" => next[m] # Null
  BY DEF RQInv
<1>3. /\ next' = next /\ prev' = prev /\ tail' = tail /\ curr_node' = curr_node
      /\ running' = [m \in Nodes |-> IF m = q THEN "RUNNING"
                                     ELSE IF m = curr_node THEN "FINISHED" ELSE running[m]]
  BY <1>1 DEF Unschedule
<1>4. curr_node # q /\ q \in Nodes /\ curr_node \in Nodes /\ q # Sentinel /\ curr_node # Sentinel
  BY <1>1, NodeFacts
<1>5. RQInv'
  <2>1. RQTypeOK'
    BY <1>1, <1>3 DEF RQTypeOK, TaskState
  <2>2. \A m \in Pids : running'[m] = "RUNNING" => next'[m] # Null
    BY <1>1, <1>2, <1>3, NodeFacts
  <2>3. running'[Sentinel] = "SENTINEL"
    BY <1>1, <1>3, <1>4, NodeFacts
  <2> QED
    BY <1>1, <1>3, <1>4, <2>1, <2>2, <2>3 DEF RQInv
<1>6. Runnable' = (Runnable \ {curr_node}) \cup {q}
  BY <1>1, <1>3, <1>4, NodeFacts DEF Runnable
<1>7. Finished' = Finished \cup {curr_node}
  <2>1. \A m \in Pids : (next'[m] # Null /\ running'[m] = "FINISHED")
                       <=> ((next[m] # Null /\ running[m] = "FINISHED") \/ m = curr_node)
    BY <1>1, <1>3, <1>4, NodeFacts
  <2> QED
    BY <1>1, <2>1 DEF Finished, Linked
<1>8. /\ Order' = Order
      /\ Current = <<curr_node>> /\ Current' = Current /\ Current # <<>> /\ Current[1] = curr_node
  BY <1>3, <1>4 DEF Order, Current
<1>9. curr_node \in Runnable /\ q \notin Runnable \cup Finished
  BY <1>1 DEF Runnable, Finished
<1>10. PICK i \in DOMAIN Order : Order[i] = q
  BY <1>1, <1>4, InOrder, Zenon
<1> QED
  BY <1>5, <1>6, <1>7, <1>8, <1>9, <1>10, Zenon DEF List!Halt

(* What relinking does to the ring: the current node leaves it if it is    *)
(* FINISHED, and nothing else changes.                                     *)
Relinked(j) ==
    /\ Ringed(next', prev', tail')
    /\ \A m \in Nodes : next'[m] = Null <=> (next[m] = Null \/ (Leaving /\ m = curr_node))
    /\ Order' = IF Leaving THEN SubSeq(Order, 1, j - 1) \o SubSeq(Order, j + 1, Len(Order))
                ELSE Order

LEMMA RelinkDoes ==
    ASSUME RQTypeOK, NEW n, NEW ord, Ring(next, prev, tail, n, ord),
           NEW j \in 1 .. n, curr_node = ord[j], Relink
    PROVE  Relinked(j)
<1>1. next \in Links /\ prev \in Links /\ curr_node \in Nodes
  BY DEF RQTypeOK, Links
<1>2. n \in Nat /\ n \in Int /\ j \in Int /\ 1 <= j /\ j <= n
  BY DEF Ring
<1>3. CASE ~Leaving
  <2>1. next' = next /\ prev' = prev /\ tail' = tail
    BY <1>3 DEF Relink, NextAfter, PrevAfter, TailAfter
  <2>2. Ringed(next, prev, tail)
    BY RingedBy, Zenon
  <2> QED
    BY <1>3, <2>1, <2>2, Zenon DEF Relinked, Order
<1>4. CASE Leaving
  <2> DEFINE o2 == OrdDrop(ord, n, j)
  <2>1. /\ next' = LinksDrop(next, prev, curr_node)
        /\ prev' = BackDrop(next, prev, curr_node)
        /\ tail' = LastDrop(prev, tail, curr_node)
    BY <1>4 DEF Relink, NextAfter, PrevAfter, TailAfter, LinksDrop, BackDrop, LastDrop
  <2>2. Ring(LinksDrop(next, prev, ord[j]), BackDrop(next, prev, ord[j]),
             LastDrop(prev, tail, ord[j]), n - 1, o2)
    BY <1>1, RingDrop, Zenon
  <2>3. Ring(next', prev', tail', n - 1, o2)
    <3> HIDE DEF o2
    <3> QED
      BY <2>1, <2>2, Zenon
  <2>4. \A k \in 1 .. n - 1 : o2[k] = IF k < j THEN ord[k] ELSE ord[k + 1]
    BY <1>2 DEF OrdDrop
  <2> HIDE DEF o2
  <2>5. Ringed(next', prev', tail')
    BY <2>3, RingedBy, Zenon
  <2>6. /\ \A k \in 0 .. n : ord[k] \in Nodes /\ next[ord[k]] \in Nodes /\ prev[ord[k]] \in Nodes
    BY <1>1, RingLinked, Zenon
  <2>7. j \in 0 .. n /\ j - 1 \in 0 .. n
    BY <1>2
  <2>8. /\ next[curr_node] \in Nodes /\ prev[curr_node] = ord[j - 1] /\ ord[j - 1] \in Nodes
        /\ ord[j - 1] # curr_node /\ next[ord[j - 1]] # Null
    <3>1. prev[curr_node] = ord[j - 1] /\ (ord[j - 1] = ord[j] => j - 1 = j)
      BY <2>7 DEF Ring
    <3> QED
      BY <1>2, <2>6, <2>7, <3>1, NodeFacts
  <2>9. \A m \in Nodes : next'[m] = IF m = curr_node THEN Null
                                    ELSE IF m = ord[j - 1] THEN next[curr_node] ELSE next[m]
    BY <1>1, <2>1, <2>8 DEF LinksDrop, Links
  <2>10. \A m \in Nodes : next'[m] = Null <=> (next[m] = Null \/ (Leaving /\ m = curr_node))
    BY <1>4, <2>8, <2>9, NodeFacts
  <2>11. next' \in Links /\ prev' \in Links
    <3>1. LinksIntact
      BY <2>8, NodeFacts DEF LinksIntact
    <3> QED
      BY <3>1, AfterTypes DEF Relink
  <2>12. Lists(OrderOf(next), n, ord) /\ Lists(OrderOf(next'), n - 1, o2)
    BY <1>1, <2>3, <2>11, OrderIs, Zenon
  <2>13. /\ Order \in Seq(Pids) /\ Len(Order) = n /\ \A k \in 1 .. n : Order[k] = ord[k]
         /\ Order' \in Seq(Pids) /\ Len(Order') = n - 1
         /\ \A k \in 1 .. n - 1 : Order'[k] = o2[k]
    BY <2>12, Zenon DEF Lists, Order
  <2>14. \A k \in 1 .. n - 1 : Order'[k] = IF k < j THEN Order[k] ELSE Order[k + 1]
    <3> SUFFICES ASSUME NEW k \in 1 .. n - 1
                 PROVE  Order'[k] = IF k < j THEN Order[k] ELSE Order[k + 1]
      OBVIOUS
    <3>1. k \in 1 .. n /\ k + 1 \in 1 .. n
      BY <1>2
    <3> QED
      BY <2>4, <2>13, <3>1
  <2> DEFINE t == Order'
             s == Order
  <2>15. t = SubSeq(s, 1, j - 1) \o SubSeq(s, j + 1, Len(s))
    <3>1. s \in Seq(Pids) /\ t \in Seq(Pids) /\ Len(t) = Len(s) - 1 /\ j \in 1 .. Len(s)
      BY <2>13
    <3>2. \A k \in 1 .. Len(s) - 1 : t[k] = IF k < j THEN s[k] ELSE s[k + 1]
      BY <2>13, <2>14
    <3> HIDE DEF s, t
    <3> QED
      BY <3>1, <3>2, Removed, Zenon
  <2> QED
    BY <1>4, <2>5, <2>10, <2>15, Zenon DEF Relinked
<1> QED
  BY <1>3, <1>4

(* RQTick goes round to the first runnable task behind the current one.    *)
LEMMA TickStep ==
    ASSUME RQInv, NEW t \in Pids, PitHandler(t)
    PROVE  RQInv' /\ List!Switch
<1>1. /\ RQTypeOK /\ Ringed(next, prev, tail) /\ running[Sentinel] = "SENTINEL"
      /\ next[curr_node] # Null /\ curr_node # Sentinel
      /\ t = Search /\ running[t] = "RUNNING" /\ LinksIntact /\ Relink
      /\ curr_node' = t /\ running' = running
  BY DEF RQInv, PitHandler, PicksTask, Relink
<1>2. \A m \in Pids : running[m] = "RUNNING" => next[m] # Null
  BY DEF RQInv
<1>3. /\ next \in Links /\ prev \in Links /\ tail \in Nodes /\ curr_node \in Nodes
      /\ curr_node \in Pids /\ t \in Nodes
  BY <1>1, NodeFacts DEF RQTypeOK, Links, Nodes
<1>4. PICK n \in 0 .. NumPids : \E ord \in [0 .. n -> Nodes] : Ring(next, prev, tail, n, ord)
  BY <1>1, Zenon DEF Ringed
<1>5. PICK ord \in [0 .. n -> Nodes] : Ring(next, prev, tail, n, ord)
  BY <1>4, Zenon
<1>6. n \in Nat /\ n \in Int /\ ord[0] = Sentinel
  BY <1>5 DEF Ring
<1>7. PICK j \in 1 .. n : ord[j] = curr_node
  <2>1. PICK k \in 0 .. n : ord[k] = curr_node
    BY <1>1, <1>3, <1>5, Zenon DEF Ring
  <2>2. k \in 1 .. n
    BY <1>1, <1>6, <2>1
  <2> QED
    BY <2>1, <2>2
<1>8. j \in Int /\ 1 <= j /\ j <= n
  BY <1>6
<1>9. PICK d \in 1 .. n + 1 :
         /\ running[ord[Place(n, j, d)]] = "RUNNING"
         /\ \A e \in 1 .. d - 1 : running[ord[Place(n, j, e)]] # "RUNNING"
  <2>1. t \in Nodes /\ next[t] # Null /\ running[t] = "RUNNING"
    BY <1>1, <1>2, <1>3
  <2>2. \E d \in 1 .. n + 1 : FirstAt(n, ord, j, d)
    BY <1>3, <1>5, <2>1, FirstRunnable, Zenon
  <2> QED
    BY <2>2, Zenon DEF FirstAt
<1>10. t = ord[Place(n, j, d)]
  BY <1>1, <1>5, <1>7, <1>9, SearchFinds, Zenon
<1>11. Relinked(j)
  BY <1>1, <1>5, <1>7, RelinkDoes, Zenon
<1>12. Lists(OrderOf(next), n, ord)
  BY <1>3, <1>5, OrderIs, Zenon
<1>13. Order \in Seq(Pids) /\ Len(Order) = n /\ \A k \in 1 .. n : Order[k] = ord[k]
  BY <1>12, Zenon DEF Lists, Order
<1>14. DOMAIN Order = 1 .. n
  BY <1>1, <1>13, OrderSeq
<1>15. t # curr_node \/ ~Leaving
  BY <1>1 DEF Leaving
<1>16. RQInv'
  <2>1. RQTypeOK'
    <3>1. next' \in Links /\ prev' \in Links /\ tail' \in Nodes
      BY <1>1, AfterTypes DEF Relink
    <3> QED
      BY <1>1, <1>3, <3>1 DEF RQTypeOK, Links
  <2>2. /\ Ringed(next', prev', tail')
        /\ \A m \in Nodes : next'[m] = Null <=> (next[m] = Null \/ (Leaving /\ m = curr_node))
    BY <1>11, Zenon DEF Relinked
  <2>3. \A m \in Pids : running'[m] = "RUNNING" => next'[m] # Null
    BY <1>1, <1>2, <2>2, NodeFacts DEF Leaving
  <2>4. curr_node' # Sentinel /\ next'[curr_node'] # Null
    BY <1>1, <2>3, NodeFacts
  <2> QED
    BY <1>1, <2>1, <2>2, <2>3, <2>4 DEF RQInv
<1> DEFINE r == RoundOf(Order, j)
<1>17. /\ r \in Seq(Pids) /\ Len(r) = n
       /\ \A k \in 1 .. n : r[k] = IF k <= n - j THEN Order[j + k] ELSE Order[k - (n - j)]
  <2> DEFINE s == Order
  <2>1. s \in Seq(Pids) /\ j \in 1 .. Len(s) /\ Len(s) = n
    BY <1>13
  <2>2. /\ RoundOf(s, j) \in Seq(Pids) /\ Len(RoundOf(s, j)) = Len(s)
        /\ \A k \in 1 .. Len(s) : RoundOf(s, j)[k] =
              IF k <= Len(s) - j THEN s[j + k] ELSE s[k - (Len(s) - j)]
    <3> HIDE DEF s
    <3> QED
      BY <2>1, Rounded
  <2> QED
    BY <2>1, <2>2
<1>18. DOMAIN r = 1 .. n
  <2> HIDE DEF r
  <2> QED
    BY <1>17
<1> HIDE DEF r
<1>19. ASSUME NEW e \in 1 .. n + 1, Place(n, j, e) # 0
       PROVE  r[IF j + e <= n THEN e ELSE e - 1] = ord[Place(n, j, e)]
  <2>1. CASE j + e <= n
    <3>1. e \in 1 .. n /\ e <= n - j /\ j + e \in 1 .. n /\ Place(n, j, e) = j + e
      BY <1>6, <1>8, <2>1 DEF Place
    <3> QED
      BY <1>13, <1>17, <2>1, <3>1
  <2>2. CASE ~(j + e <= n)
    <3>1. /\ e - 1 \in 1 .. n /\ ~(e - 1 <= n - j)
          /\ Place(n, j, e) = (e - 1) - (n - j) /\ (e - 1) - (n - j) \in 1 .. n
      BY <1>6, <1>8, <1>19, <2>2 DEF Place
    <3> QED
      BY <1>13, <1>17, <2>2, <3>1
  <2> QED
    BY <2>1, <2>2
<1> DEFINE k == IF j + d <= n THEN d ELSE d - 1
<1>20. Place(n, j, d) # 0
  BY <1>1, <1>6, <1>9, NodeFacts
<1>21. r[k] = t
  BY <1>10, <1>19, <1>20
<1>22. k \in 1 .. n /\ k \in Int
  BY <1>6, <1>8, <1>20 DEF Place
<1>23. ASSUME NEW i \in 1 .. k - 1 PROVE running[r[i]] # "RUNNING"
  <2> DEFINE e == IF i <= n - j THEN i ELSE i + 1
  <2>1. e \in 1 .. d - 1 /\ e \in 1 .. n + 1 /\ Place(n, j, e) # 0
    BY <1>6, <1>8, <1>22 DEF Place
  <2>2. i = IF j + e <= n THEN e ELSE e - 1
    BY <1>6, <1>8
  <2> HIDE DEF e, k
  <2>3. r[i] = ord[Place(n, j, e)]
    BY <1>19, <2>1, <2>2
  <2> QED
    BY <1>9, <2>1, <2>3
<1> HIDE DEF k
<1>24. /\ Current = <<curr_node>> /\ Current # <<>> /\ Current[1] = curr_node
       /\ Current' = <<r[k]>>
  BY <1>1, <1>3, <1>21, NodeFacts DEF Current
<1>25. Runnable' = Runnable /\ Finished' = Finished \ {curr_node}
  <2>1. \A m \in Nodes : next'[m] = Null <=> (next[m] = Null \/ (Leaving /\ m = curr_node))
    BY <1>11, Zenon DEF Relinked
  <2>2. \A m \in Pids : (next'[m] # Null /\ running'[m] = "FINISHED")
                       <=> (next[m] # Null /\ running[m] = "FINISHED" /\ m # curr_node)
    BY <1>1, <2>1, NodeFacts DEF Leaving
  <2> QED
    BY <1>1, <2>2 DEF Runnable, Finished, Linked
<1>26. r[k] \in Runnable /\ \A i \in 1 .. k - 1 : r[i] \notin Runnable
  BY <1>1, <1>21, <1>23 DEF Runnable
<1>27. curr_node \in Finished <=> Leaving
  BY <1>1, <1>3 DEF Finished, Linked, Leaving
<1>28. /\ Order' = IF Current[1] \in Finished THEN List!Without(j) ELSE Order
       /\ Order[j] = Current[1] /\ j \in DOMAIN Order
       /\ r = List!Round(j) /\ k \in DOMAIN r
  <2>1. Order' = IF Leaving THEN List!Without(j) ELSE Order
    BY <1>11, Zenon DEF Relinked, List!Without
  <2>2. r = List!Round(j)
    BY Zenon DEF r, RoundOf, List!Round
  <2> QED
    BY <1>7, <1>13, <1>14, <1>18, <1>22, <1>24, <1>27, <2>1, <2>2, Zenon
<1>29. List!Switch
  <2>1. \E i \in DOMAIN List!Round(j) :
           /\ List!Round(j)[i] \in Runnable
           /\ \A h \in 1 .. i - 1 : List!Round(j)[h] \notin Runnable
           /\ Current' = <<List!Round(j)[i]>>
    BY <1>24, <1>26, <1>28, Zenon
  <2> QED
    BY <1>24, <1>25, <1>28, <2>1, Zenon DEF List!Switch
<1> QED
  BY <1>16, <1>29

-----------------------------------------------------------------------------
LEMMA RQStep ==
    ASSUME RQInv, RQNext
    PROVE  RQInv' /\ List!Next
<1>1. CASE RQBoot
  BY <1>1, BootStep, Zenon DEF List!Next
<1>2. CASE RQStart
  BY <1>2, StartStep, Zenon DEF List!Next
<1>3. ASSUME NEW p \in Pids, RQExecute(p) PROVE RQInv' /\ List!Next
  BY <1>3, ExecuteStep, Zenon DEF List!Next
<1>4. ASSUME NEW q \in Pids, RQHalt(q) PROVE RQInv' /\ List!Next
  BY <1>4, HaltStep, Zenon DEF List!Next
<1>5. ASSUME NEW t \in Pids, PitHandler(t) PROVE RQInv' /\ List!Next
  BY <1>5, TickStep, Zenon DEF List!Next
<1> QED
  BY <1>1, <1>2, <1>3, <1>4, <1>5, Zenon DEF RQNext, RQTick

LEMMA RQStutter ==
    ASSUME RQInv, UNCHANGED rqVars
    PROVE  RQInv' /\ UNCHANGED List!tlVars
<1>1. next' = next /\ prev' = prev /\ running' = running /\ tail' = tail
      /\ curr_node' = curr_node
  BY DEF rqVars
<1>2. Order' = Order /\ Runnable' = Runnable /\ Finished' = Finished /\ Current' = Current
  BY <1>1, Zenon DEF Order, Runnable, Finished, Linked, Current
<1>3. RQInv'
  BY <1>1 DEF RQInv, RQTypeOK
<1> QED
  BY <1>2, <1>3, Zenon DEF List!tlVars

(* The list starts out empty.                                              *)
LEMMA RQListInit == RQInit => List!Init
<1> SUFFICES ASSUME RQInit PROVE List!Init
  OBVIOUS
<1> DEFINE ord == [k \in 0 .. 0 |-> Sentinel]
<1>1. Ring(next, prev, tail, 0, ord) /\ next \in Links /\ prev \in Links
  BY NodeFacts DEF RQInit, Ring, Links
<1>2. Order = <<>>
  <2> HIDE DEF ord
  <2>1. Lists(OrderOf(next), 0, ord)
    BY <1>1, OrderIs, Zenon
  <2>2. Order \in Seq(Pids) /\ Len(Order) = 0
    BY <2>1, Zenon DEF Lists, Order
  <2> QED
    BY <2>2, EmptySeqIs
<1>3. Runnable = {} /\ Finished = {}
  <2>1. \A p \in Pids : p \in Nodes /\ p # Sentinel
    BY NodeFacts
  <2>2. \A p \in Pids : running[p] = "INACTIVE"
    BY <2>1 DEF RQInit
  <2> QED
    BY <2>2 DEF Runnable, Finished, Linked
<1>4. Current = <<>>
  BY DEF RQInit, Current
<1> QED
  BY <1>2, <1>3, <1>4, Zenon DEF List!Init

(* However tasks are scheduled, halted and switched, the nodes that are    *)
(* linked form one ring through the sentinel, prev_task leads back along   *)
(* next_task, and what is runnable or current is in the ring.              *)
THEOREM RunQueueInvariant == RQSpec => []RQInv
<1>1. RQInit => RQInv
  BY RQInitInv
<1>2. RQInv /\ [RQNext]_rqVars => RQInv'
  BY RQStep, RQStutter
<1> QED
  BY <1>1, <1>2, PTL DEF RQSpec

(* The pointer updates of schedule, unschedule and pit_handler implement   *)
(* the round robin of TaskList, for every number of processes and shells.  *)
THEOREM RunQueueImplementsTaskList == RQSpec => ImplementsTaskList
<1>1. RQInit => List!Init
  BY RQListInit
<1>2. RQInv /\ [RQNext]_rqVars => [List!Next]_(List!tlVars)
  BY RQStep, RQStutter
<1>3. RQSpec => []RQInv
  BY RunQueueInvariant
<1> QED
  BY <1>1, <1>2, <1>3, PTL DEF RQSpec, ImplementsTaskList, List!Spec
=============================================================================
