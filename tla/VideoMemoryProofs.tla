------------------------- MODULE VideoMemoryProofs --------------------------
(***************************************************************************)
(* The properties of VideoMemory for every number of processes, of         *)
(* terminals and of nested switches.                                       *)
(*                                                                         *)
(* The PCB tree is a bundle of lines, one per terminal: path[t][n] is the  *)
(* n-th program below the shell of terminal t.  swap_vid_mem walks such a  *)
(* line down, Home goes up.  The invariant says that every program on the  *)
(* line of t has the page of t behind 0xb8000, for the terminal that the   *)
(* open switch is going to display, or the displayed one when none is.     *)
(***************************************************************************)
EXTENDS VideoMemory, WellFoundedInduction, TLAPS

USE SMTT(60)

-----------------------------------------------------------------------------
(* Induction, on a set instead of a predicate.                             *)
LEMMA Induction ==
    ASSUME NEW S, 0 \in S, \A n \in Nat : n \in S => n + 1 \in S
    PROVE  Nat \subseteq S
<1> DEFINE T == {n \in Nat : n \notin S}
<1>1. SUFFICES ASSUME T # {} PROVE FALSE
  BY Zenon
<1>2. IsWellFoundedOn(OpToRel(<, Nat), Nat) /\ T \in SUBSET Nat
  BY NatLessThanWellFounded, Zenon
<1>3. PICK x \in T : \A y \in T : <<y, x>> \notin OpToRel(<, Nat)
  BY <1>1, <1>2, WFMin, Zenon
<1>4. \A y \in T : ~(y < x)
  BY <1>3, Zenon DEF OpToRel
<1>5. x # 0 /\ x \in Nat
  BY Zenon
<1>6. x - 1 \in Nat /\ x - 1 \notin T
  BY <1>4, <1>5
<1> QED
  BY <1>5, <1>6

(* There are no more places than a set has numbers for them.               *)
Injects(f, n, m) ==
    f \in [0 .. n -> 0 .. m] /\ \A j, k \in 0 .. n : f[j] = f[k] => j = k

LEMMA Pigeonhole ==
    ASSUME NEW m \in Nat, NEW n \in Nat, NEW f, Injects(f, n, m)
    PROVE  n <= m
<1> DEFINE Good == {i \in Nat : \A l \in Nat : \A g \in [0 .. l -> 0 .. i] :
                                    Injects(g, l, i) => l <= i}
<1>1. 0 \in Good
  <2> SUFFICES ASSUME NEW l \in Nat, NEW g \in [0 .. l -> 0 .. 0], Injects(g, l, 0), 1 <= l
               PROVE  FALSE
    OBVIOUS
  <2>1. 0 \in 0 .. l /\ 1 \in 0 .. l
    OBVIOUS
  <2>2. g[0] = 0 /\ g[1] = 0
    BY <2>1
  <2> QED
    BY <2>1, <2>2 DEF Injects
<1>2. ASSUME NEW i \in Nat, i \in Good PROVE i + 1 \in Good
  <2> SUFFICES ASSUME NEW l \in Nat, NEW g \in [0 .. l -> 0 .. i + 1], Injects(g, l, i + 1), 1 <= l
               PROVE  l <= i + 1
    OBVIOUS
  <2> DEFINE h == [k \in 0 .. l - 1 |-> IF g[k] = i + 1 THEN g[l] ELSE g[k]]
  <2>1. \A j, k \in 0 .. l : g[j] = g[k] => j = k
    BY Zenon DEF Injects
  <2>2. l \in 0 .. l /\ l - 1 \in Nat /\ \A k \in 0 .. l - 1 : k \in 0 .. l /\ k # l
    OBVIOUS
  <2>3. \A k \in 0 .. l - 1 : g[k] # g[l]
    BY <2>1, <2>2, Zenon
  <2>4. \A k \in 0 .. l : g[k] \in 0 .. i + 1
    BY Zenon
  <2>5. h \in [0 .. l - 1 -> 0 .. i]
    BY <2>2, <2>3, <2>4
  <2>6. ASSUME NEW j \in 0 .. l - 1, NEW k \in 0 .. l - 1, h[j] = h[k] PROVE j = k
    <3>1. g[j] = g[k]
      BY <2>3, <2>6, Zenon
    <3> QED
      BY <2>1, <2>2, <3>1, Zenon
  <2>7. Injects(h, l - 1, i)
    BY <2>5, <2>6, Zenon DEF Injects
  <2> HIDE DEF h
  <2>8. l - 1 <= i
    BY <1>2, <2>2, <2>5, <2>7, Zenon
  <2> QED
    BY <2>8
<1> HIDE DEF Good
<1>3. m \in Good
  BY <1>1, <1>2, Induction, Zenon
<1> QED
  BY <1>3, Zenon DEF Good, Injects

LEMMA Sorts ==
    /\ Shells \subseteq Pids /\ Null \notin Pids /\ 0 \in Shells /\ 0 \in Pids
    /\ NumTasks \in Nat /\ NumTasks - 1 \in Pids /\ Pids \subseteq Nat
    /\ VGA \in Pages /\ \A t \in Shells : Backing(t) \in Pages /\ Backing(t) # VGA
    /\ \A t, u \in Shells : Backing(t) = Backing(u) => t = u
BY SizeAssumption DEF Shells, Pids, Null, VGA, Backing, Pages

(* Two updates of a function.                                              *)
LEMMA TwoPoints ==
    ASSUME NEW S, NEW T, NEW f \in [S -> T], NEW a \in S, NEW b \in S, NEW x \in T, NEW y \in T
    PROVE  /\ [f EXCEPT ![a] = x, ![b] = y] \in [S -> T]
           /\ \A r \in S : [f EXCEPT ![a] = x, ![b] = y][r]
                             = IF r = b THEN y ELSE IF r = a THEN x ELSE f[r]
BY Zenon

(* The shortest sequences.                                                 *)
LEMMA EmptyIs == ASSUME NEW S, NEW x \in Seq(S), Len(x) = 0 PROVE x = << >>
OBVIOUS

LEMMA TailOfOne == ASSUME NEW S, NEW x \in Seq(S), Len(x) = 1 PROVE Tail(x) = << >>
<1>1. Tail(x) \in Seq(S) /\ Len(Tail(x)) = 0
  OBVIOUS
<1> QED
  BY <1>1, EmptyIs, Zenon

LEMMA EmptyInSeq == ASSUME NEW S PROVE << >> \in Seq(S)
OBVIOUS

LEMMA JoinEmpty == ASSUME NEW t PROVE <<t>> \o << >> = <<t>>
OBVIOUS

-----------------------------------------------------------------------------
(* The lines of programs.                                                  *)

Tree == {p \in Pids : pc[p] # "none"}

Lines(path, par, chi, tree) ==
    /\ path \in [Shells -> [Nat -> tree \cup {Null}]]
    /\ \A t \in Shells : path[t][0] = t /\ par[t] = Null
    /\ \A t \in Shells : \A n \in Nat :
          path[t][n] = Null => path[t][n + 1] = Null
    /\ \A t \in Shells : \A n \in Nat : path[t][n] # Null =>
          /\ path[t][n + 1] = chi[path[t][n]]
          /\ path[t][n + 1] # Null => par[path[t][n + 1]] = path[t][n]
    /\ \A t, u \in Shells : \A m, n \in Nat :
          path[t][m] # Null /\ path[t][m] = path[u][n] => t = u /\ m = n
    /\ \A p \in tree : \E t \in Shells : \E n \in Nat : path[t][n] = p

(* A line has at most NumTasks programs.                                   *)
LEMMA LineBound ==
    ASSUME NEW path, NEW par, NEW chi, NEW tree \in SUBSET Pids,
           Lines(path, par, chi, tree),
           NEW t \in Shells, NEW n \in Nat, path[t][n] # Null
    PROVE  n \in Pids /\ \A m \in 0 .. n : path[t][m] \in Pids
<1> DEFINE Good == {k \in Nat : k <= n => path[t][n - k] # Null}
<1>1. 0 \in Good
  OBVIOUS
<1>2. ASSUME NEW k \in Nat, k \in Good PROVE k + 1 \in Good
  <2>1. SUFFICES ASSUME k + 1 <= n PROVE path[t][n - (k + 1)] # Null
    OBVIOUS
  <2>2. /\ n - (k + 1) \in Nat /\ (n - (k + 1)) + 1 = n - k
        /\ path[t][n - k] # Null
    BY <1>2, <2>1
  <2> QED
    BY <2>2 DEF Lines
<1>3. Nat \subseteq Good
  <2> HIDE DEF Good
  <2> QED
    BY <1>1, <1>2, Induction, Zenon
<1>4. ASSUME NEW m \in 0 .. n PROVE path[t][m] \in Pids
  <2>1. n - m \in Good /\ n - (n - m) = m /\ m \in Nat
    BY <1>3
  <2>2. path[t][m] # Null
    BY <2>1
  <2> QED
    BY <2>1, <2>2 DEF Lines
<1> HIDE DEF Good
<1> DEFINE f == [m \in 0 .. n |-> path[t][m]]
<1>5. f \in [0 .. n -> 0 .. NumTasks - 1]
  BY <1>4, Zenon DEF Pids
<1>6. \A x, y \in 0 .. n : f[x] = f[y] => x = y
  BY <1>4, Sorts DEF Lines
<1> HIDE DEF f
<1>7. Injects(f, n, NumTasks - 1)
  BY <1>5, <1>6, Zenon DEF Injects
<1>8. n <= NumTasks - 1
  <2>1. NumTasks - 1 \in Nat
    BY Sorts, Zenon
  <2> QED
    BY <1>7, <2>1, Pigeonhole, Zenon
<1> QED
  BY <1>4, <1>8, Sorts DEF Pids

(* swap_vid_mem's walk is the line.                                        *)
LEMMA ChainIs ==
    ASSUME NEW path, Lines(path, parent, child, Tree), NEW t \in Shells
    PROVE  Chain(t) = {path[t][n] : n \in Nat} \ {Null}
<1> DEFINE P(g) == g = [n \in Pids |->
                          IF n = 0 THEN t
                          ELSE IF g[n - 1] = Null THEN Null ELSE child[g[n - 1]]]
           walk == CHOOSE g : P(g)
           line == [n \in Pids |-> path[t][n]]
<1>1. Chain(t) = {walk[n] : n \in Pids} \ {Null}
  BY Zenon DEF Chain
<1>2. \A n \in Pids : n # 0 => n - 1 \in Pids /\ n - 1 \in Nat /\ (n - 1) + 1 = n
  BY SizeAssumption DEF Pids
<1>3. P(line)
  <2>1. ASSUME NEW n \in Pids
        PROVE  path[t][n] = IF n = 0 THEN t
                            ELSE IF line[n - 1] = Null THEN Null ELSE child[line[n - 1]]
    BY <1>2 DEF Lines
  <2> QED
    BY <2>1, Zenon
<1>4. P(walk)
  <2> HIDE DEF P
  <2> QED
    BY <1>3, Zenon
<1>5. \A n \in Pids : walk[n] = path[t][n]
  <2> HIDE DEF walk
  <2> DEFINE Good == {n \in Nat : n \in Pids => walk[n] = path[t][n]}
  <2>1. 0 \in Good
    BY <1>4 DEF Lines
  <2>2. ASSUME NEW n \in Nat, n \in Good PROVE n + 1 \in Good
    <3>1. SUFFICES ASSUME n + 1 \in Pids PROVE walk[n + 1] = path[t][n + 1]
      OBVIOUS
    <3>2. n \in Pids /\ (n + 1) - 1 = n /\ n + 1 # 0
      BY <3>1, <1>2
    <3>3. walk[n] = path[t][n]
      BY <2>2, <3>2, Zenon
    <3>4. walk[n + 1] = IF walk[n] = Null THEN Null ELSE child[walk[n]]
      BY <1>4, <3>1, <3>2, Zenon
    <3> QED
      BY <3>3, <3>4 DEF Lines
  <2>3. Nat \subseteq Good
    <3> HIDE DEF Good
    <3> QED
      BY <2>1, <2>2, Induction, Zenon
  <2> QED
    BY <2>3, Sorts, Zenon
<1>6. \A n \in Nat : path[t][n] # Null => n \in Pids
  <2>1. Tree \in SUBSET Pids
    BY Zenon DEF Tree
  <2> QED
    BY <2>1, LineBound, Zenon
<1> HIDE DEF walk, P
<1> QED
  BY <1>1, <1>5, <1>6, Sorts, Zenon

(* A program on the line of t is at home in t.                             *)
LEMMA HomeIs ==
    ASSUME NEW path, Lines(path, parent, child, Tree),
           NEW t \in Shells, NEW k \in Nat, path[t][k] # Null
    PROVE  Home(path[t][k]) = t
<1> DEFINE p == path[t][k]
           P(g) == g = [n \in Pids |->
                          IF n = 0 THEN p
                          ELSE IF parent[g[n - 1]] = Null THEN g[n - 1]
                               ELSE parent[g[n - 1]]]
           up == CHOOSE g : P(g)
           line == [n \in Pids |-> IF n <= k THEN path[t][k - n] ELSE t]
<1>1. Home(p) = up[NumTasks - 1]
  BY Zenon DEF Home
<1>2. \A n \in Pids : n # 0 => n - 1 \in Pids /\ n - 1 \in Nat /\ (n - 1) + 1 = n
  BY SizeAssumption DEF Pids
<1>3. k \in Pids /\ \A m \in 0 .. k : path[t][m] \in Pids
  <2>1. Tree \in SUBSET Pids
    BY Zenon DEF Tree
  <2> QED
    BY <2>1, LineBound, Zenon
<1>4. path[t][0] = t /\ parent[t] = Null
  BY Zenon DEF Lines
<1>5. ASSUME NEW x \in Nat, NEW n \in Nat, x <= k, n = IF x < k THEN x + 1 ELSE x
      PROVE  path[t][k - n] = IF parent[path[t][k - x]] = Null THEN path[t][k - x]
                              ELSE parent[path[t][k - x]]
  <2>1. CASE x < k
    <3>1. k - n \in Nat /\ (k - n) + 1 = k - x /\ k - n \in 0 .. k /\ k - x \in 0 .. k
      BY <1>5, <2>1
    <3>2. path[t][k - n] \in Pids /\ path[t][k - x] \in Pids
      BY <1>3, <3>1, Zenon
    <3>3. parent[path[t][k - x]] = path[t][k - n]
      BY <3>1, <3>2, Sorts DEF Lines
    <3> QED
      BY <3>2, <3>3, Sorts, Zenon
  <2>2. CASE x = k
    <3>1. k - n = 0 /\ k - x = 0
      BY <1>5, <2>2
    <3> QED
      BY <3>1, <1>4, Zenon
  <2> QED
    BY <1>5, <2>1, <2>2
<1>6. P(line)
  <2>1. ASSUME NEW n \in Pids, n # 0
        PROVE  line[n] = IF parent[line[n - 1]] = Null THEN line[n - 1]
                         ELSE parent[line[n - 1]]
    <3>1. n - 1 \in Pids /\ n - 1 \in Nat /\ n \in Nat
      BY <1>2, <2>1, Sorts, Zenon
    <3>2. CASE n <= k
      <4>1. /\ n - 1 <= k /\ n - 1 < k /\ n = (n - 1) + 1
            /\ line[n] = path[t][k - n] /\ line[n - 1] = path[t][k - (n - 1)]
        BY <3>1, <3>2
      <4> HIDE DEF line
      <4> QED
        BY <1>5, <3>1, <4>1
    <3>3. CASE n > k
      <4>1. line[n] = t
        BY <3>1, <3>3
      <4>2. line[n - 1] = t
        <5>1. CASE n - 1 = k
          <6>1. line[n - 1] = path[t][k - k] /\ k - k = 0
            BY <3>1, <5>1
          <6> QED
            BY <6>1, <1>4, Zenon
        <5>2. CASE n - 1 > k
          BY <3>1, <5>2
        <5> QED
          BY <3>1, <3>3, <5>1, <5>2
      <4> QED
        BY <1>4, <4>1, <4>2, Zenon
    <3> QED
      BY <3>1, <3>2, <3>3
  <2>2. line[0] = p
    <3>1. 0 \in Pids /\ 0 <= k /\ k - 0 = k
      BY Sorts
    <3> QED
      BY <3>1, Zenon
  <2>3. line = [n \in Pids |-> line[n]]
    BY Zenon
  <2> HIDE DEF line
  <2> QED
    BY <2>1, <2>2, <2>3, Zenon
<1>7. P(up)
  <2> HIDE DEF P
  <2> QED
    BY <1>6, Zenon
<1> HIDE DEF up
<1>8. \A n \in Pids : up[n] = line[n]
  <2> DEFINE Good == {n \in Nat : n \in Pids => up[n] = line[n]}
  <2>1. 0 \in Good
    BY <1>6, <1>7, Sorts, Zenon
  <2>2. ASSUME NEW n \in Nat, n \in Good PROVE n + 1 \in Good
    <3>1. SUFFICES ASSUME n + 1 \in Pids PROVE up[n + 1] = line[n + 1]
      OBVIOUS
    <3>2. n \in Pids /\ (n + 1) - 1 = n /\ n + 1 # 0
      BY <3>1, <1>2
    <3>3. up[n] = line[n]
      BY <2>2, <3>2, Zenon
    <3>4. up[n + 1] = IF parent[up[n]] = Null THEN up[n] ELSE parent[up[n]]
      BY <1>7, <3>1, <3>2
    <3> HIDE DEF line
    <3>5. line[n + 1] = IF parent[line[n]] = Null THEN line[n] ELSE parent[line[n]]
      BY <1>6, <3>1, <3>2, Zenon
    <3> QED
      BY <3>3, <3>4, <3>5, Zenon
  <2>3. Nat \subseteq Good
    <3> HIDE DEF Good
    <3> QED
      BY <2>1, <2>2, Induction, Zenon
  <2> HIDE DEF line
  <2> QED
    BY <2>3, Sorts, Zenon
<1>9. line[NumTasks - 1] = t
  <2>1. NumTasks - 1 \in Pids /\ NumTasks - 1 \in Nat /\ k <= NumTasks - 1
    BY <1>3, Sorts DEF Pids
  <2>2. CASE k = NumTasks - 1
    <3>1. k - (NumTasks - 1) = 0 /\ NumTasks - 1 <= k
      BY <2>1, <2>2
    <3> QED
      BY <1>4, <2>1, <3>1, Zenon
  <2>3. CASE k < NumTasks - 1
    BY <2>1, <2>3
  <2> QED
    BY <2>1, <2>2, <2>3
<1> QED
  BY <1>1, <1>8, <1>9, Sorts, Zenon

-----------------------------------------------------------------------------
(* A line with another program, or none, in one place.                     *)
With(path, t, k, q) ==
    [u \in Shells |-> [m \in Nat |-> IF u = t /\ m = k THEN q ELSE path[u][m]]]

(* pcb_init appends a program to the line of its parent.                   *)
LEMMA LineGrows ==
    ASSUME NEW par \in [Pids -> Pids \cup {Null}], NEW chi \in [Pids -> Pids \cup {Null}],
           NEW tree \in SUBSET Pids, NEW path, Lines(path, par, chi, tree),
           NEW t \in Shells, NEW n \in Nat, NEW p \in tree, path[t][n] = p, chi[p] = Null,
           NEW q \in Pids \ tree
    PROVE  Lines(With(path, t, n + 1, q), [par EXCEPT ![q] = p],
                 [chi EXCEPT ![q] = Null, ![p] = q], tree \cup {q})
<1> DEFINE new_path == With(path, t, n + 1, q)
           par1 == [par EXCEPT ![q] = p]
           chi1 == [chi EXCEPT ![q] = Null, ![p] = q]
           tree1 == tree \cup {q}
<1>1. /\ q # p /\ q \in Pids /\ p \in Pids /\ q # Null /\ p # Null
      /\ n + 1 \in Nat /\ n + 1 # 0 /\ n # n + 1 /\ (n + 1) + 1 # n + 1
  BY Sorts
<1>2. path[t][n + 1] = Null /\ path[t][(n + 1) + 1] = Null
  BY <1>1 DEF Lines
<1>3. \A u \in Shells : \A m \in Nat :
         new_path[u][m] = IF u = t /\ m = n + 1 THEN q ELSE path[u][m]
  BY Zenon DEF With
<1>4. \A r \in Pids : /\ par1[r] = IF r = q THEN p ELSE par[r]
                      /\ chi1[r] = IF r = p THEN q ELSE IF r = q THEN Null ELSE chi[r]
  BY <1>1, Zenon
<1>5. \A u \in Shells : \A m \in Nat : path[u][m] # q /\ path[u][m] \in tree \cup {Null}
  BY <1>1 DEF Lines
<1>6. \A m \in Nat : m + 1 = n + 1 => m = n
  OBVIOUS
<1>7. new_path \in [Shells -> [Nat -> tree1 \cup {Null}]]
  BY <1>5, Zenon DEF With
<1> HIDE DEF new_path, par1, chi1
<1>8. \A u \in Shells : new_path[u][0] = u /\ par1[u] = Null
  <2> SUFFICES ASSUME NEW u \in Shells PROVE new_path[u][0] = u /\ par1[u] = Null
    BY Zenon
  <2>1. path[u][0] = u /\ par[u] = Null /\ u # q /\ u \in Pids
    BY <1>5, Sorts DEF Lines
  <2> QED
    BY <1>1, <1>3, <1>4, <2>1
<1>9. ASSUME NEW u \in Shells, NEW m \in Nat
      PROVE  /\ new_path[u][m] = Null => new_path[u][m + 1] = Null
             /\ new_path[u][m] # Null =>
                  /\ new_path[u][m + 1] = chi1[new_path[u][m]]
                  /\ new_path[u][m + 1] # Null => par1[new_path[u][m + 1]] = new_path[u][m]
  <2>0. m + 1 \in Nat
    OBVIOUS
  <2>1. CASE u = t /\ m = n
    BY <1>1, <1>3, <1>4, <2>0, <2>1
  <2>2. CASE u = t /\ m = n + 1
    BY <1>1, <1>2, <1>3, <1>4, <2>0, <2>2, Zenon
  <2>3. CASE ~(u = t /\ m = n) /\ ~(u = t /\ m = n + 1)
    <3>1. new_path[u][m] = path[u][m] /\ new_path[u][m + 1] = path[u][m + 1]
      BY <1>3, <1>6, <2>0, <2>3, Zenon
    <3>2. path[u][m] # p
      BY <1>1, <2>3 DEF Lines
    <3>3. path[u][m] # q /\ path[u][m + 1] # q
      BY <1>5, <2>0, Zenon
    <3>4. path[u][m] \in Pids \cup {Null} /\ path[u][m + 1] \in Pids \cup {Null}
      BY <1>5, <2>0, Zenon
    <3> QED
      BY <1>4, <3>1, <3>2, <3>3, <3>4 DEF Lines
  <2> QED
    BY <2>1, <2>2, <2>3, Zenon
<1>10. ASSUME NEW u \in Shells, NEW v \in Shells, NEW m \in Nat, NEW k \in Nat,
              new_path[u][m] # Null, new_path[u][m] = new_path[v][k]
       PROVE  u = v /\ m = k
  <2>1. CASE u = t /\ m = n + 1
    BY <1>3, <1>5, <1>10, <2>1
  <2>2. CASE v = t /\ k = n + 1
    BY <1>3, <1>5, <1>10, <2>2
  <2>3. CASE ~(u = t /\ m = n + 1) /\ ~(v = t /\ k = n + 1)
    <3>1. path[u][m] # Null /\ path[u][m] = path[v][k]
      BY <1>3, <1>10, <2>3, Zenon
    <3> QED
      BY <3>1 DEF Lines
  <2> QED
    BY <2>1, <2>2, <2>3, Zenon
<1>11. ASSUME NEW r \in tree1 PROVE \E u \in Shells : \E m \in Nat : new_path[u][m] = r
  <2>1. CASE r = q
    BY <1>1, <1>3, <2>1, Zenon
  <2>2. CASE r # q
    <3>1. PICK u \in Shells : \E m \in Nat : path[u][m] = r
      BY <2>2, Zenon DEF Lines
    <3>2. PICK m \in Nat : path[u][m] = r
      BY <3>1, Zenon
    <3>3. r # Null
      BY <2>2, Sorts, Zenon
    <3> QED
      BY <1>2, <1>3, <3>2, <3>3, Zenon
  <2> QED
    BY <2>1, <2>2, Zenon
<1>12. Lines(new_path, par1, chi1, tree1)
  <2> HIDE DEF tree1
  <2> QED
    BY <1>7, <1>8, <1>9, <1>10, <1>11 DEF Lines
<1> QED
  BY <1>12, Zenon DEF new_path, par1, chi1

(* khalt takes the last program off its line.                              *)
LEMMA LineShrinks ==
    ASSUME NEW par \in [Pids -> Pids \cup {Null}], NEW chi \in [Pids -> Pids \cup {Null}],
           NEW tree \in SUBSET Pids, NEW path, Lines(path, par, chi, tree),
           NEW t \in Shells, NEW n \in Nat, NEW p \in tree, NEW o \in tree,
           path[t][n] = o, path[t][n + 1] = p, chi[p] = Null
    PROVE  Lines(With(path, t, n + 1, Null), [par EXCEPT ![p] = Null],
                 [chi EXCEPT ![o] = Null], tree \ {p})
<1> DEFINE new_path == With(path, t, n + 1, Null)
           par1 == [par EXCEPT ![p] = Null]
           chi1 == [chi EXCEPT ![o] = Null]
           tree1 == tree \ {p}
<1>1. /\ p \in Pids /\ o \in Pids /\ p # Null /\ o # Null
      /\ n + 1 \in Nat /\ n + 1 # 0 /\ n # n + 1 /\ (n + 1) + 1 # n + 1
  BY Sorts
<1>2. path[t][(n + 1) + 1] = Null /\ p # o
  BY <1>1 DEF Lines
<1>3. \A u \in Shells : \A m \in Nat :
         new_path[u][m] = IF u = t /\ m = n + 1 THEN Null ELSE path[u][m]
  BY Zenon DEF With
<1>4. \A r \in Pids : /\ par1[r] = IF r = p THEN Null ELSE par[r]
                      /\ chi1[r] = IF r = o THEN Null ELSE chi[r]
  BY <1>1, Zenon
<1>5. \A u \in Shells : \A m \in Nat :
         /\ path[u][m] \in tree \cup {Null}
         /\ path[u][m] = p => u = t /\ m = n + 1
         /\ path[u][m] = o => u = t /\ m = n
  BY <1>1 DEF Lines
<1>6. \A m \in Nat : m + 1 = n + 1 => m = n
  OBVIOUS
<1>7. new_path \in [Shells -> [Nat -> tree1 \cup {Null}]]
  BY <1>5 DEF With
<1> HIDE DEF new_path, par1, chi1
<1>8. \A u \in Shells : new_path[u][0] = u /\ par1[u] = Null
  <2> SUFFICES ASSUME NEW u \in Shells PROVE new_path[u][0] = u /\ par1[u] = Null
    BY Zenon
  <2>1. path[u][0] = u /\ par[u] = Null /\ u \in Pids
    BY Sorts, Zenon DEF Lines
  <2> QED
    BY <1>1, <1>3, <1>4, <2>1
<1>9. ASSUME NEW u \in Shells, NEW m \in Nat
      PROVE  /\ new_path[u][m] = Null => new_path[u][m + 1] = Null
             /\ new_path[u][m] # Null =>
                  /\ new_path[u][m + 1] = chi1[new_path[u][m]]
                  /\ new_path[u][m + 1] # Null => par1[new_path[u][m + 1]] = new_path[u][m]
  <2>0. m + 1 \in Nat
    OBVIOUS
  <2>1. CASE u = t /\ m = n
    BY <1>1, <1>3, <1>4, <2>0, <2>1, Zenon
  <2>2. CASE u = t /\ m = n + 1
    BY <1>1, <1>2, <1>3, <1>4, <2>0, <2>2, Zenon
  <2>3. CASE ~(u = t /\ m = n) /\ ~(u = t /\ m = n + 1)
    <3>1. new_path[u][m] = path[u][m] /\ new_path[u][m + 1] = path[u][m + 1]
      BY <1>3, <1>6, <2>0, <2>3, Zenon
    <3>2. path[u][m] # o /\ path[u][m] # p /\ path[u][m + 1] # p
      BY <1>5, <1>6, <2>0, <2>3, Zenon
    <3>3. path[u][m] \in Pids \cup {Null} /\ path[u][m + 1] \in Pids \cup {Null}
      BY <1>5, <2>0, Zenon
    <3> QED
      BY <1>4, <3>1, <3>2, <3>3 DEF Lines
  <2> QED
    BY <2>1, <2>2, <2>3, Zenon
<1>10. ASSUME NEW u \in Shells, NEW v \in Shells, NEW m \in Nat, NEW k \in Nat,
              new_path[u][m] # Null, new_path[u][m] = new_path[v][k]
       PROVE  u = v /\ m = k
  <2>1. path[u][m] # Null /\ path[u][m] = path[v][k]
    BY <1>3, <1>10
  <2> QED
    BY <2>1 DEF Lines
<1>11. ASSUME NEW r \in tree1 PROVE \E u \in Shells : \E m \in Nat : new_path[u][m] = r
  <2>1. PICK u \in Shells : \E m \in Nat : path[u][m] = r
    BY Zenon DEF Lines
  <2>2. PICK m \in Nat : path[u][m] = r
    BY <2>1, Zenon
  <2> QED
    BY <1>3, <2>2, Zenon
<1>12. Lines(new_path, par1, chi1, tree1)
  <2> HIDE DEF tree1
  <2> QED
    BY <1>7, <1>8, <1>9, <1>10, <1>11 DEF Lines
<1> QED
  BY <1>12, Zenon DEF new_path, par1, chi1

-----------------------------------------------------------------------------
(* The invariant.                                                          *)

(* Where programs are in kexecute, and which directory is active.          *)
Control ==
    /\ \A p \in Pids : ~pid_arr[p] => pc[p] = "none"
    /\ \A p \in Pids : pc[p] \in {"load", "loaded"} =>
          /\ curr_process = p /\ switching[p] = <<>>
          /\ new[p] \in Pids /\ pc[new[p]] = "none" /\ vidmem[new[p]] = vidmem[p]
    /\ \A p \in Pids : pc[p] = "load" => cr3 = new[p]
    /\ \A p \in Pids : pc[p] = "loaded" => pid_arr[new[p]]
    /\ \A p \in Pids : pc[p] = "born" => curr_process = p /\ p \notin Shells
    /\ pc[curr_process] \in {"user", "load", "loaded", "born"}
    /\ pc[curr_process] = "user" => cr3 = curr_process
    /\ \A p \in Tree : pc[p] = "wait" <=> child[p] # Null

(* One switch at most is open.                                             *)
OneSwitch ==
    /\ \A r, s \in Open : r = s
    /\ \A s \in Open : Len(switching[s]) = 1

(* The terminal that is displayed when the open switch is done.            *)
Goal(g) == IF Open = {} THEN g = curr_terminal
           ELSE \E s \in Open : g = Head(switching[s])

(* The page of a terminal while g is displayed.                            *)
PageAt(g, t) == IF t = g THEN VGA ELSE Backing(t)

Mapped(path, g) ==
    \A t \in Shells : \A n \in Nat :
       path[t][n] # Null => vidmem[path[t][n]] = PageAt(g, t)
Shows(g) == \A t \in Shells : images[PageAt(g, t)] = {t}

Drawn(path, g) ==
    /\ Lines(path, parent, child, Tree) /\ Mapped(path, g)
    /\ g \in Shells /\ Goal(g) /\ Shows(g)

VideoInv ==
    /\ TypeOK
    /\ ~hit => Control /\ OneSwitch /\ \E path, g : Drawn(path, g)

-----------------------------------------------------------------------------
(* What the invariant says about the tree and the running process.         *)

LEMMA OnLine ==
    ASSUME TypeOK, NEW path, Lines(path, parent, child, Tree), NEW p \in Tree
    PROVE  /\ \E t \in Shells : \E n \in Nat : path[t][n] = p
           /\ p \notin Shells =>
                /\ parent[p] \in Tree /\ child[parent[p]] = p /\ parent[p] # p
                /\ \E t \in Shells : \E n \in Nat :
                      path[t][n] = parent[p] /\ path[t][n + 1] = p
<1>1. PICK t \in Shells : \E n \in Nat : path[t][n] = p
  BY Zenon DEF Lines
<1>2. PICK n \in Nat : path[t][n] = p
  BY <1>1, Zenon
<1>3. p \in Pids /\ p # Null
  BY Sorts, Zenon DEF Tree
<1>4. ASSUME p \notin Shells
      PROVE  \E m \in Nat : /\ path[t][m] = parent[p] /\ path[t][m + 1] = p
                            /\ parent[p] \in Tree /\ child[parent[p]] = p
                            /\ parent[p] # p
  <2>1. n # 0
    BY <1>2, <1>4, Zenon DEF Lines
  <2>2. n - 1 \in Nat /\ (n - 1) + 1 = n /\ n - 1 # n
    BY <2>1
  <2>3. path[t][n - 1] # Null
    BY <1>2, <1>3, <2>2 DEF Lines
  <2>4. parent[p] = path[t][n - 1] /\ child[path[t][n - 1]] = p
    BY <1>2, <1>3, <2>2, <2>3 DEF Lines
  <2>5. path[t][n - 1] \in Tree /\ path[t][n - 1] # p
    BY <1>2, <2>2, <2>3 DEF Lines
  <2> QED
    BY <1>2, <2>2, <2>4, <2>5, Zenon
<1> QED
  BY <1>1, <1>2, <1>4, Zenon

LEMMA Who ==
    ASSUME TypeOK, Control, NEW path, Lines(path, parent, child, Tree)
    PROVE  /\ Running \in Pids /\ curr_process \in Tree
           /\ pc[curr_process] # "born" => Running = curr_process
           /\ pc[curr_process] = "born" =>
                Running = parent[curr_process] /\ pc[Running] = "wait"
           /\ pc[Running] # "wait" => Running = curr_process
<1>1. curr_process \in Pids /\ curr_process \in Tree
  BY Zenon DEF TypeOK, Control, Tree
<1>2. CASE pc[curr_process] = "born"
  <2>1. curr_process \notin Shells
    BY <1>1, <1>2, Zenon DEF Control
  <2>2. /\ parent[curr_process] \in Tree
        /\ child[parent[curr_process]] = curr_process
    BY <1>1, <2>1, OnLine, Zenon
  <2>3. child[parent[curr_process]] # Null
    BY <1>1, <2>2, Sorts, Zenon
  <2>4. pc[parent[curr_process]] = "wait"
    BY <2>2, <2>3, Zenon DEF Control
  <2> QED
    BY <1>1, <1>2, <2>2, <2>4, Zenon DEF Running, Tree
<1>3. CASE pc[curr_process] # "born"
  BY <1>1, <1>3, Zenon DEF Running
<1> QED
  BY <1>2, <1>3, Zenon

(* What a step leaves alone.                                               *)
LEMMA DrawnSame ==
    ASSUME NEW path, NEW g, Drawn(path, g), Tree' = Tree,
           UNCHANGED <<curr_terminal, parent, child, switching, images>>,
           \A p \in Tree : vidmem'[p] = vidmem[p]
    PROVE  Drawn(path, g)'
<1>1. UNCHANGED <<curr_terminal, parent, child, switching, images>>
  BY Zenon
<1>2. Lines(path, parent, child, Tree)'
  BY <1>1 DEF Drawn, Lines
<1>3. Mapped(path, g)'
  <2>1. \A t \in Shells : \A n \in Nat : path[t][n] # Null => path[t][n] \in Tree
    BY DEF Drawn, Lines
  <2> QED
    BY <1>1, <2>1, Zenon DEF Drawn, Mapped
<1>4. (g \in Shells /\ Goal(g) /\ Shows(g))'
  BY <1>1, Zenon DEF Drawn, Goal, Shows, Open
<1> QED
  BY <1>2, <1>3, <1>4, Zenon DEF Drawn

LEMMA SwitchSame ==
    ASSUME OneSwitch, UNCHANGED switching
    PROVE  OneSwitch'
BY Zenon DEF OneSwitch, Open

-----------------------------------------------------------------------------
(* The steps.                                                              *)

Before(path, g) ==
    TypeOK /\ hit = FALSE /\ Control /\ OneSwitch /\ Drawn(path, g)

LEMMA After ==
    ASSUME NEW path, NEW g, TypeOK', Control', OneSwitch', Drawn(path, g)'
    PROVE  VideoInv'
BY Zenon DEF VideoInv

LEMMA BeforeLines ==
    ASSUME NEW path, NEW g, Before(path, g)
    PROVE  /\ TypeOK /\ Control /\ OneSwitch /\ Drawn(path, g)
           /\ Lines(path, parent, child, Tree)
BY Zenon DEF Before, Drawn

LEMMA AtIs ==
    ASSUME NEW path, NEW g, Before(path, g), NEW p \in Pids, NEW point,
           At(p, point), point # "wait"
    PROVE  curr_process = p /\ pc[p] = point /\ switching[p] = <<>>
<1>1. Running = p /\ pc[p] = point /\ switching[p] = <<>>
  BY Zenon DEF At
<1>2. pc[Running] # "wait" => Running = curr_process
  BY BeforeLines, Who, Zenon
<1> QED
  BY <1>1, <1>2, Zenon

LEMMA StepTick ==
    ASSUME NEW path, NEW g, Before(path, g), NEW p \in Pids, Tick(p)
    PROVE  VideoInv'
<1> USE DEF Before
<1>1. pc[curr_process] = "user" /\ pc[p] = "user" /\ curr_process' = p /\ cr3' = p
      /\ UNCHANGED <<curr_terminal, pcbVars, pteVars, execVars, switching, images, hit>>
  BY Zenon DEF Tick, Runnable
<1>2. TypeOK'
  BY <1>1, Zenon DEF TypeOK, pcbVars, pteVars, execVars
<1>3. Control'
  BY <1>1, Zenon DEF Control, TypeOK, pcbVars, pteVars, execVars, Tree
<1>4. OneSwitch'
  BY <1>1, SwitchSame, Zenon
<1>5. Drawn(path, g)'
  BY <1>1, DrawnSame, Zenon DEF pcbVars, pteVars, execVars, Tree
<1> QED
  BY <1>2, <1>3, <1>4, <1>5, After, Zenon

LEMMA StepNewPaging ==
    ASSUME NEW path, NEW g, Before(path, g), NEW p \in Pids, NewPaging(p)
    PROVE  VideoInv'
<1> USE DEF Before
<1>0. PICK q \in Pids :
        /\ At(p, "user") /\ ~pid_arr[q]
        /\ vidmem' = [vidmem EXCEPT ![q] = vidmem[p]] /\ cr3' = q
        /\ pc' = [pc EXCEPT ![p] = "load"] /\ new' = [new EXCEPT ![p] = q]
        /\ UNCHANGED <<curr_terminal, curr_process, pcbVars, vidmap, mapped,
                       switching, images, hit>>
  BY Zenon DEF NewPaging, Inherited, Activated
<1>1. curr_process = p /\ pc[p] = "user" /\ switching[p] = <<>>
  <2> HIDE DEF Before
  <2> QED
    BY <1>0, AtIs, Zenon
<1>2. pc[q] = "none" /\ q # p /\ q \notin Tree
  BY <1>0, <1>1, Zenon DEF Control, Tree
<1>3. TypeOK'
  BY <1>0, Zenon DEF TypeOK, pcbVars
<1>4. Tree' = Tree
  BY <1>0, <1>1, Zenon DEF Tree, TypeOK
<1>5. /\ \A r \in Pids : pc'[r] = IF r = p THEN "load" ELSE pc[r]
      /\ \A r \in Pids : vidmem'[r] = IF r = q THEN vidmem[p] ELSE vidmem[r]
      /\ \A r \in Pids : new'[r] = IF r = p THEN q ELSE new[r]
      /\ UNCHANGED <<curr_process, pid_arr, child, switching>>
  BY <1>0, Zenon DEF TypeOK, pcbVars
<1>6. Control'
  BY <1>0, <1>1, <1>2, <1>4, <1>5 DEF Control, Tree
<1>7. OneSwitch'
  BY <1>0, SwitchSame, Zenon
<1>8. Drawn(path, g)'
  BY <1>0, <1>2, <1>4, <1>5, DrawnSame, Zenon DEF pcbVars, Tree
<1> QED
  BY <1>3, <1>6, <1>7, <1>8, After, Zenon

LEMMA StepLoad ==
    ASSUME NEW path, NEW g, Before(path, g), NEW p \in Pids, Load(p)
    PROVE  VideoInv'
<1> USE DEF Before
<1>1. /\ curr_process = p /\ pc[p] = "load" /\ switching[p] = <<>>
      /\ pid_arr' = [pid_arr EXCEPT ![new[p]] = TRUE]
      /\ pc' = [pc EXCEPT ![p] = "loaded"]
      /\ UNCHANGED <<curr_terminal, curr_process, cr3, parent, child,
                     pteVars, new, switching, images, hit>>
  <2> HIDE DEF Before
  <2> QED
    BY AtIs, Zenon DEF Load
<1>2. TypeOK'
  <2>1. pid_arr' \in [Pids -> BOOLEAN]
    BY <1>1, Zenon DEF TypeOK
  <2>2. pc' \in [Pids -> {"none", "user", "load", "loaded", "wait", "born"}]
    BY <1>1, Zenon DEF TypeOK
  <2> QED
    BY <1>1, <2>1, <2>2, Zenon DEF TypeOK, pteVars
<1>3. Tree' = Tree
  BY <1>1, Zenon DEF Tree, TypeOK
<1>4. /\ \A r \in Pids : pc'[r] = IF r = p THEN "loaded" ELSE pc[r]
      /\ \A r \in Pids : ~pid_arr'[r] => ~pid_arr[r]
      /\ UNCHANGED <<curr_process, cr3, new, vidmem, child, switching>>
  BY <1>1, Zenon DEF TypeOK, pteVars
<1>4a. pid_arr'[new[p]]
  BY <1>1, Zenon DEF Control, TypeOK
<1>5. Control'
  BY <1>1, <1>3, <1>4, <1>4a DEF Control, Tree
<1>6. OneSwitch'
  BY <1>1, SwitchSame, Zenon
<1>7. Drawn(path, g)'
  BY <1>1, <1>3, <1>4, DrawnSame, Zenon
<1> QED
  BY <1>2, <1>5, <1>6, <1>7, After, Zenon

LEMMA StepDispatch ==
    ASSUME NEW path, NEW g, Before(path, g), NEW p \in Pids, Dispatch(p)
    PROVE  VideoInv'
<1> USE DEF Before
<1> DEFINE q == curr_process
<1>1. /\ pc[q] = "born" /\ pc' = [pc EXCEPT ![q] = "user"]
      /\ curr_process' \in Runnable \cup {q} /\ cr3' = curr_process'
      /\ UNCHANGED <<curr_terminal, pcbVars, pteVars, new, switching, images, hit>>
  BY Zenon DEF Dispatch
<1>2. q \in Pids /\ curr_process' \in Pids
  BY <1>1, Zenon DEF TypeOK, Runnable
<1>3. TypeOK'
  BY <1>1, <1>2, Zenon DEF TypeOK, pcbVars, pteVars
<1>4. Tree' = Tree
  BY <1>1, Zenon DEF Tree, TypeOK
<1>5. /\ \A r \in Pids : pc'[r] = IF r = q THEN "user" ELSE pc[r]
      /\ pc'[curr_process'] = "user" /\ cr3' = curr_process'
      /\ UNCHANGED <<pid_arr, new, vidmem, child, switching>>
  BY <1>1, <1>2, Zenon DEF TypeOK, pcbVars, pteVars, Runnable
<1>6. Control'
  BY <1>1, <1>2, <1>4, <1>5 DEF Control, Tree
<1>7. OneSwitch'
  BY <1>1, SwitchSame, Zenon
<1>8. Drawn(path, g)'
  BY <1>1, <1>4, <1>5, DrawnSame, Zenon DEF pcbVars
<1> QED
  BY <1>3, <1>6, <1>7, <1>8, After, Zenon

LEMMA StepVidmap ==
    ASSUME NEW path, NEW g, Before(path, g), NEW p \in Pids, Vidmap(p)
    PROVE  VideoInv'
<1> USE DEF Before
<1>1. /\ curr_process = p /\ pc[p] = "user" /\ cr3' = p
      /\ mapped' = [mapped EXCEPT ![p] = TRUE]
      /\ UNCHANGED <<curr_terminal, curr_process, pcbVars, vidmem, vidmap,
                     execVars, switching, images, hit>>
  <2> HIDE DEF Before
  <2> QED
    BY AtIs, Zenon DEF Vidmap
<1>2. TypeOK'
  BY <1>1, Zenon DEF TypeOK, pcbVars, execVars
<1>3. Control'
  BY <1>1, Zenon DEF Control, Tree, pcbVars, execVars
<1>4. OneSwitch'
  BY <1>1, SwitchSame, Zenon
<1>5. Drawn(path, g)'
  BY <1>1, DrawnSame, Zenon DEF pcbVars, execVars, Tree
<1> QED
  BY <1>2, <1>3, <1>4, <1>5, After, Zenon

LEMMA StepPcbInit ==
    ASSUME NEW path, NEW g, Before(path, g), NEW p \in Pids, PcbInit(p)
    PROVE  VideoInv'
<1>0. PICK q \in Pids : q = new[p]
  <2>1. pc[p] = "loaded"
    BY Zenon DEF PcbInit, At
  <2> QED
    BY <2>1, Zenon DEF Before, Control
<1>1. /\ curr_process = p /\ pc[p] = "loaded" /\ switching[p] = <<>>
      /\ curr_process' = q
      /\ UNCHANGED <<curr_terminal, cr3, pid_arr, pteVars, new, switching, images, hit>>
  BY <1>0, AtIs, Zenon DEF PcbInit
<1>1a. /\ parent' = [parent EXCEPT ![q] = p]
       /\ child' = [child EXCEPT ![q] = Null, ![p] = q]
       /\ pc' = [pc EXCEPT ![p] = "wait", ![q] = "born"]
  BY <1>0, Zenon DEF PcbInit
<1> USE DEF Before
<1>2. /\ q \in Pids /\ pc[q] = "none" /\ vidmem[q] = vidmem[p] /\ pid_arr[q]
      /\ q # p /\ q \notin Tree /\ p \in Tree /\ child[p] = Null
  BY <1>0, <1>1, Zenon DEF Control, Tree
<1>3. PICK t \in Shells : \E n \in Nat : path[t][n] = p
  BY <1>2, Zenon DEF Drawn, Lines
<1>4. PICK n \in Nat : path[t][n] = p
  BY <1>3, Zenon
<1>5. /\ pc' \in [Pids -> {"none", "user", "load", "loaded", "wait", "born"}]
      /\ \A r \in Pids : pc'[r] = IF r = q THEN "born" ELSE IF r = p THEN "wait" ELSE pc[r]
  <2>1. pc \in [Pids -> {"none", "user", "load", "loaded", "wait", "born"}] /\ q \in Pids
    BY <1>2, Zenon DEF TypeOK
  <2>2. /\ "wait" \in {"none", "user", "load", "loaded", "wait", "born"}
        /\ "born" \in {"none", "user", "load", "loaded", "wait", "born"}
    BY Zenon
  <2> QED
    BY <1>1a, <2>1, <2>2, TwoPoints, Zenon
<1>5a. /\ child' \in [Pids -> Pids \cup {Null}]
       /\ \A r \in Pids : child'[r] = IF r = p THEN q ELSE IF r = q THEN Null ELSE child[r]
  <2>1. child \in [Pids -> Pids \cup {Null}] /\ q \in Pids
    BY <1>2, Zenon DEF TypeOK
  <2>2. Null \in Pids \cup {Null} /\ q \in Pids \cup {Null}
    BY <2>1, Zenon
  <2> QED
    BY <1>1a, <2>1, <2>2, TwoPoints, Zenon
<1>5b. q \in Pids /\ vidmem' = vidmem
  BY <1>1, <1>2, Zenon DEF TypeOK, pteVars
<1>5c. parent' \in [Pids -> Pids \cup {Null}]
  <2>1. parent' = [parent EXCEPT ![q] = p]
    BY <1>1a, Zenon
  <2> QED
    BY <2>1, Zenon DEF TypeOK
<1>6. TypeOK'
  BY <1>1, <1>5, <1>5a, <1>5b, <1>5c, Zenon DEF TypeOK, pteVars
<1>7. Tree' = Tree \cup {q}
  BY <1>2, <1>5, Zenon DEF Tree
<1>8. q \notin Shells
  <2>1. ASSUME NEW u \in Shells PROVE u \in Tree
    BY Sorts DEF Drawn, Lines
  <2> QED
    BY <1>2, <2>1, Zenon
<1>9. Control'
  <2>1. UNCHANGED <<cr3, pid_arr, new, switching, vidmem>> /\ curr_process' = q
    BY <1>1, <1>5b, Zenon
  <2>2. \A r \in Pids : pc[r] \in {"load", "loaded", "born"} => r = p
    BY <1>1, Zenon DEF Control
  <2>3. \A r \in Pids : pc'[r] \notin {"load", "loaded"} /\ (pc'[r] = "born" => r = q)
    BY <1>5, <2>2, Zenon
  <2>4. \A r \in Pids : ~pid_arr[r] => pc'[r] = "none"
    BY <1>1, <1>2, <1>5 DEF Control
  <2>5. pc'[q] = "born"
    BY <1>5, Zenon
  <2>6. ASSUME NEW r \in Tree' PROVE pc'[r] = "wait" <=> child'[r] # Null
    <3>1. CASE r = q
      BY <1>2, <1>5, <1>5a, <3>1, Zenon
    <3>2. CASE r = p
      BY <1>2, <1>5, <1>5a, <3>2, Sorts, Zenon
    <3>3. CASE r # p /\ r # q
      <4>1. r \in Tree /\ r \in Pids
        BY <1>7, <3>3, Zenon DEF Tree
      <4>2. pc'[r] = pc[r] /\ child'[r] = child[r]
        BY <1>5, <1>5a, <3>3, <4>1, Zenon
      <4> QED
        BY <4>1, <4>2, Zenon DEF Control
    <3> QED
      BY <3>1, <3>2, <3>3, Zenon
  <2> QED
    BY <1>8, <2>1, <2>3, <2>4, <2>5, <2>6 DEF Control
<1>10. OneSwitch'
  BY <1>1, SwitchSame, Zenon
<1> DEFINE longer == With(path, t, n + 1, q)
<1>11. Lines(longer, parent, child, Tree)'
  <2>1. Lines(longer, parent', child', Tree \cup {q})
    <3>1. Lines(path, parent, child, Tree) /\ Tree \in SUBSET Pids
          /\ parent \in [Pids -> Pids \cup {Null}] /\ child \in [Pids -> Pids \cup {Null}]
      BY Zenon DEF Drawn, Tree, TypeOK
    <3>2. p \in Tree /\ child[p] = Null /\ q \in Pids \ Tree
      BY <1>2, Zenon
    <3>3. Lines(longer, [parent EXCEPT ![q] = p], [child EXCEPT ![q] = Null, ![p] = q],
                Tree \cup {q})
      BY <1>4, <3>1, <3>2, LineGrows, Zenon
    <3> HIDE DEF longer
    <3> QED
      BY <1>1a, <3>3, Zenon
  <2>2. longer' = longer
    BY Zenon DEF With
  <2> HIDE DEF longer
  <2> QED
    BY <1>7, <2>1, <2>2, Zenon
<1>12. Mapped(longer, g)'
  <2>1. \A u \in Shells : \A m \in Nat :
           longer[u][m] = IF u = t /\ m = n + 1 THEN q ELSE path[u][m]
    BY Zenon DEF With
  <2>2. vidmem'[q] = PageAt(g, t)
    BY <1>2, <1>4, <1>5b, Sorts, Zenon DEF Drawn, Mapped
  <2> HIDE DEF longer
  <2> QED
    BY <1>5b, <2>1, <2>2 DEF Drawn, Mapped
<1>13. (g \in Shells /\ Goal(g) /\ Shows(g))'
  BY <1>1, Zenon DEF Drawn, Goal, Shows, Open
<1>14. Drawn(longer, g)'
  <2> HIDE DEF longer
  <2> QED
    BY <1>11, <1>12, <1>13, Zenon DEF Drawn
<1> HIDE DEF longer, Before
<1> QED
  BY <1>6, <1>9, <1>10, <1>14, After, Zenon

LEMMA StepHalt ==
    ASSUME NEW path, NEW g, Before(path, g), NEW p \in Pids, Halt(p)
    PROVE  VideoInv'
<1>1. curr_process = p /\ pc[p] = "user" /\ p \notin Shells /\ p \in Tree
  <2>1. curr_process = p /\ pc[p] = "user" /\ p \notin Shells
    BY AtIs, Zenon DEF Halt
  <2> QED
    BY <2>1, Zenon DEF Tree
<1>2. PICK o \in Pids : o = parent[p] /\ o \in Tree
  <2>1. parent[p] \in Tree
    BY <1>1, BeforeLines, OnLine, Zenon
  <2> QED
    BY <2>1, Zenon DEF Tree
<1>3. /\ child[o] = p /\ o # p
      /\ \E t \in Shells : \E n \in Nat : path[t][n] = o /\ path[t][n + 1] = p
  BY <1>1, <1>2, BeforeLines, OnLine
<1>1a. /\ child' = [child EXCEPT ![o] = Null]
       /\ parent' = [parent EXCEPT ![p] = Null]
       /\ new' = [new EXCEPT ![o] = Null]
  BY <1>2, Zenon DEF Halt, Unlinked
<1>1b. /\ pid_arr' = [pid_arr EXCEPT ![p] = FALSE]
       /\ mapped' = [mapped EXCEPT ![p] = FALSE]
       /\ pc' = [pc EXCEPT ![p] = "none", ![o] = "user"]
  BY <1>2, Zenon DEF Halt
<1>1c. UNCHANGED <<curr_terminal, vidmem, vidmap, switching, images, hit>>
  BY Zenon DEF Halt
<1>1d. \E r \in (Runnable \ {p}) \cup {o} : curr_process' = r /\ cr3' = r
  BY <1>2, Zenon DEF Halt
<1> USE DEF Before
<1>4. pc[o] = "wait" /\ child[p] = Null
  <2>1. child[o] # Null
    BY <1>3, Sorts, Zenon
  <2> QED
    BY <1>1, <1>2, <2>1, Zenon DEF Control
<1>5. PICK t \in Shells : \E n \in Nat : path[t][n] = o /\ path[t][n + 1] = p
  BY <1>3, Zenon
<1>6. PICK n \in Nat : path[t][n] = o /\ path[t][n + 1] = p
  BY <1>5, Zenon
<1>7. curr_process' \in (Runnable \ {p}) \cup {o} /\ cr3' = curr_process'
      /\ curr_process' \in Pids
  BY <1>1d, Zenon DEF Runnable
<1>8a. /\ pc' \in [Pids -> {"none", "user", "load", "loaded", "wait", "born"}]
       /\ \A r \in Pids : pc'[r] = IF r = o THEN "user" ELSE IF r = p THEN "none" ELSE pc[r]
  <2>1. pc \in [Pids -> {"none", "user", "load", "loaded", "wait", "born"}] /\ o \in Pids
    BY Zenon DEF TypeOK
  <2>2. /\ "user" \in {"none", "user", "load", "loaded", "wait", "born"}
        /\ "none" \in {"none", "user", "load", "loaded", "wait", "born"}
    BY Zenon
  <2> QED
    BY <1>1b, <2>1, <2>2, TwoPoints, Zenon
<1>8. TypeOK'
  <2>1. pid_arr' \in [Pids -> BOOLEAN] /\ mapped' \in [Pids -> BOOLEAN]
    BY <1>1b, Zenon DEF TypeOK
  <2>3. /\ parent' \in [Pids -> Pids \cup {Null}] /\ child' \in [Pids -> Pids \cup {Null}]
        /\ new' \in [Pids -> Pids \cup {Null}]
    BY <1>1a, Zenon DEF TypeOK
  <2> QED
    BY <1>1c, <1>7, <1>8a, <2>1, <2>3, Zenon DEF TypeOK
<1>9. /\ \A r \in Pids : child'[r] = IF r = o THEN Null ELSE child[r]
      /\ UNCHANGED <<vidmem, switching>>
  BY <1>1a, <1>1c, Zenon DEF TypeOK
<1>9a. \A r \in Pids : r # p => pid_arr'[r] = pid_arr[r]
  BY <1>1b, Zenon DEF TypeOK
<1>10. Tree' = Tree \ {p}
  BY <1>2, <1>3, <1>4, <1>8a, Zenon DEF Tree
<1>11. pc'[curr_process'] = "user"
  BY <1>7, <1>8a, Zenon DEF Runnable
<1>12. Control'
  BY <1>1, <1>2, <1>3, <1>4, <1>7, <1>8a, <1>9, <1>9a, <1>10, <1>11, Sorts DEF Control, Tree
<1>13. OneSwitch'
  BY <1>1c, SwitchSame, Zenon
<1> DEFINE shorter == With(path, t, n + 1, Null)
<1>14. Lines(shorter, parent, child, Tree)'
  <2>1. Lines(shorter, parent', child', Tree \ {p})
    <3>1. Lines(path, parent, child, Tree) /\ Tree \in SUBSET Pids
          /\ parent \in [Pids -> Pids \cup {Null}] /\ child \in [Pids -> Pids \cup {Null}]
      BY Zenon DEF Drawn, Tree, TypeOK
    <3>2. child[p] = Null /\ o \in Tree /\ p \in Tree
      BY <1>1, <1>2, <1>4, Zenon
    <3>3. Lines(shorter, [parent EXCEPT ![p] = Null], [child EXCEPT ![o] = Null], Tree \ {p})
      BY <1>6, <3>1, <3>2, LineShrinks, Zenon
    <3> HIDE DEF shorter
    <3> QED
      BY <1>1a, <3>3, Zenon
  <2>2. shorter' = shorter
    BY Zenon DEF With
  <2> HIDE DEF shorter
  <2> QED
    BY <1>10, <2>1, <2>2, Zenon
<1>15. Mapped(shorter, g)'
  <2>1. \A u \in Shells : \A m \in Nat :
           shorter[u][m] = IF u = t /\ m = n + 1 THEN Null ELSE path[u][m]
    BY Zenon DEF With
  <2> HIDE DEF shorter
  <2> QED
    BY <1>9, <2>1 DEF Drawn, Mapped
<1>16. (g \in Shells /\ Goal(g) /\ Shows(g))'
  BY <1>1c, Zenon DEF Drawn, Goal, Shows, Open
<1>17. Drawn(shorter, g)'
  <2> HIDE DEF shorter
  <2> QED
    BY <1>14, <1>15, <1>16, Zenon DEF Drawn
<1> HIDE DEF shorter, Before
<1> QED
  BY <1>8, <1>12, <1>13, <1>17, After, Zenon

(* Alt+Fn: the entries of both lines and the two images change together,   *)
(* so that they agree for the terminal that is going to be displayed.      *)
LEMMA SwitchDraws ==
    ASSUME NEW path, NEW t \in Shells, TypeOK, t # curr_terminal,
           Lines(path, parent, child, Tree),
           Mapped(path, curr_terminal), Shows(curr_terminal),
           vidmem' = Remapped(vidmem, curr_terminal, t),
           images' = CopiedImages(curr_terminal, t)
    PROVE  Mapped(path, t)' /\ Shows(t)'
<1> DEFINE old == curr_terminal
<1>1. old \in Shells /\ old # t
  BY Zenon DEF TypeOK
<1>2. ASSUME NEW u \in Shells, NEW n \in Nat, path[u][n] # Null
      PROVE  vidmem'[path[u][n]] = PageAt(t, u)
  <2>1. path[u][n] \in Pids
    BY <1>2 DEF Lines, Tree
  <2>2. \A v \in Shells : path[u][n] \in Chain(v) <=> v = u
    <3> SUFFICES ASSUME NEW v \in Shells PROVE path[u][n] \in Chain(v) <=> v = u
      BY Zenon
    <3>1. Chain(v) = {path[v][m] : m \in Nat} \ {Null}
      BY ChainIs
    <3>2. \A m \in Nat : path[v][m] = path[u][n] => v = u
      BY <1>2 DEF Lines
    <3> QED
      BY <1>2, <3>1, <3>2, Zenon
  <2>3. vidmem'[path[u][n]] = IF u = t THEN VGA
                              ELSE IF u = old THEN Backing(old) ELSE vidmem[path[u][n]]
    BY <1>1, <2>1, <2>2, Zenon DEF Remapped
  <2>4. vidmem[path[u][n]] = PageAt(old, u)
    BY <1>2, Zenon DEF Mapped
  <2> QED
    BY <2>3, <2>4, Zenon DEF PageAt
<1>3. Mapped(path, t)'
  BY <1>2, Zenon DEF Mapped
<1>4. ASSUME NEW u \in Shells PROVE images'[PageAt(t, u)] = {u}
  <2>1. /\ Backing(old) \in Pages /\ VGA \in Pages /\ Backing(u) \in Pages /\ Backing(t) \in Pages
        /\ Backing(old) # VGA /\ Backing(u) # VGA /\ (Backing(u) = Backing(old) => u = old)
    BY <1>1, Sorts, Zenon
  <2>2. \A x \in Pages : images'[x] = IF x = VGA THEN images[Backing(t)]
                                      ELSE IF x = Backing(old) THEN images[VGA] ELSE images[x]
    BY <2>1, Zenon DEF CopiedImages, TypeOK
  <2>3. images[Backing(t)] = {t} /\ images[VGA] = {old}
    BY <1>1, Zenon DEF Shows, PageAt
  <2>4. u # old => images[Backing(u)] = {u}
    BY Zenon DEF Shows, PageAt
  <2> QED
    BY <2>1, <2>2, <2>3, <2>4, Zenon DEF PageAt
<1>5. Shows(t)'
  BY <1>4, Zenon DEF Shows
<1> QED
  BY <1>3, <1>5, Zenon

LEMMA StepSwitchTerminals ==
    ASSUME NEW path, NEW g, Before(path, g), NEW t \in Shells, SwitchTerminals(t)
    PROVE  VideoInv'
<1>1. /\ t # curr_terminal
      /\ images' = CopiedImages(curr_terminal, t)
      /\ vidmem' = Remapped(vidmem, curr_terminal, t)
      /\ vidmap' = Remapped(vidmap, curr_terminal, t)
      /\ hit' = (pc[Running] \in {"load", "loaded"} \/ Open # {})
      /\ UNCHANGED <<curr_terminal, curr_process, cr3, pcbVars, mapped, execVars>>
  BY Zenon DEF SwitchTerminals
<1>2. switching' = [switching EXCEPT ![Running] = <<t>> \o @]
  BY Zenon DEF SwitchTerminals
<1>3. PICK s \in Pids : s = Running /\ (pc[s] # "wait" => s = curr_process)
  BY BeforeLines, Who, Zenon
<1> USE DEF Before
<1>4. /\ switching \in [Pids -> Seq(Shells)]
      /\ switching' = [switching EXCEPT ![s] = <<t>> \o switching[s]]
  BY <1>2, <1>3, Zenon DEF TypeOK
<1>5. switching' \in [Pids -> Seq(Shells)]
  <2>1. switching[s] \in Seq(Shells) /\ <<t>> \in Seq(Shells)
    BY <1>4
  <2>2. <<t>> \o switching[s] \in Seq(Shells)
    BY <2>1
  <2> QED
    BY <1>4, <2>2, Zenon
<1>6. /\ vidmem' \in [Pids -> Pages] /\ vidmap' \in [Pids -> Pages]
      /\ images' \in [Pages -> SUBSET Shells]
  <2>1. /\ VGA \in Pages /\ Backing(curr_terminal) \in Pages /\ Backing(t) \in Pages
        /\ vidmem \in [Pids -> Pages] /\ vidmap \in [Pids -> Pages]
        /\ images \in [Pages -> SUBSET Shells]
    BY Sorts, Zenon DEF TypeOK
  <2>2. vidmem' \in [Pids -> Pages] /\ vidmap' \in [Pids -> Pages]
    BY <1>1, <2>1, Zenon DEF Remapped
  <2>3. images' \in [Pages -> SUBSET Shells]
    BY <1>1, <2>1, Zenon DEF CopiedImages
  <2> QED
    BY <2>2, <2>3, Zenon
<1>7. hit' \in BOOLEAN
  BY <1>1, Zenon
<1>8. TypeOK'
  BY <1>1, <1>5, <1>6, <1>7, Zenon DEF TypeOK, pcbVars, execVars
<1>9. CASE hit'
  BY <1>8, <1>9, Zenon DEF VideoInv
<1>10. CASE ~hit'
  <2>1. Open = {} /\ pc[s] \notin {"load", "loaded"}
    BY <1>1, <1>3, <1>10, Zenon
  <2>2. \A r \in Pids : switching[r] = <<>>
    BY <2>1, Zenon DEF Open
  <2>3. \A r \in Pids : switching'[r] = IF r = s THEN <<t>> ELSE <<>>
    <3>1. <<t>> \o switching[s] = <<t>>
      BY <2>2, JoinEmpty, Zenon
    <3>2. \A r \in Pids : switching'[r] = IF r = s THEN <<t>> \o switching[s] ELSE switching[r]
      BY <1>4, Zenon
    <3> QED
      BY <2>2, <3>1, <3>2, Zenon
  <2>4. Open' = {s}
    BY <2>3 DEF Open
  <2>5. OneSwitch'
    BY <2>3, <2>4 DEF OneSwitch
  <2>6. Goal(t)'
    BY <2>3, <2>4 DEF Goal
  <2>7. \A r \in Pids : pc[r] \notin {"load", "loaded"}
    <3> SUFFICES ASSUME NEW r \in Pids, pc[r] \in {"load", "loaded"} PROVE FALSE
      BY Zenon
    <3>1. curr_process = r
      BY Zenon DEF Control
    <3>2. Running = r
      BY <3>1, Zenon DEF Running
    <3> QED
      BY <1>3, <2>1, <3>2, Zenon
  <2>8. Control'
    BY <1>1, <2>7, Zenon DEF Control, Tree, pcbVars, execVars
  <2>9. g = curr_terminal
    BY <2>1, Zenon DEF Drawn, Goal
  <2>10. Mapped(path, t)' /\ Shows(t)'
    <3>1. TypeOK /\ Lines(path, parent, child, Tree) /\ Mapped(path, curr_terminal)
          /\ Shows(curr_terminal)
      BY <2>9, Zenon DEF Drawn
    <3> HIDE DEF Before
    <3> QED
      BY <1>1, <3>1, SwitchDraws, Zenon
  <2>11. Lines(path, parent, child, Tree)'
    BY <1>1 DEF Drawn, Lines, Tree, pcbVars, execVars
  <2>12. Drawn(path, t)'
    BY <2>6, <2>10, <2>11, Zenon DEF Drawn
  <2> HIDE DEF Before
  <2> QED
    BY <1>8, <2>5, <2>8, <2>12, After, Zenon
<1> QED
  BY <1>9, <1>10, Zenon

(* The switch ends: what it announced is displayed.                        *)
LEMMA StepSwitchDone ==
    ASSUME NEW path, NEW g, Before(path, g), SwitchDone
    PROVE  VideoInv'
<1>1. /\ switching[Running] # <<>>
      /\ cr3' = curr_process
      /\ curr_terminal' = Head(switching[Running])
      /\ switching' = [switching EXCEPT ![Running] = Tail(@)]
      /\ UNCHANGED <<curr_process, pcbVars, pteVars, execVars, images, hit>>
  BY Zenon DEF SwitchDone
<1>2. PICK s \in Pids : s = Running /\ (pc[s] # "wait" => s = curr_process)
  BY BeforeLines, Who, Zenon
<1> USE DEF Before
<1>3. s \in Open /\ Open = {s} /\ Len(switching[s]) = 1 /\ g = Head(switching[s])
  <2>1. s \in Open
    BY <1>1, <1>2, Zenon DEF Open
  <2>2. Open = {s} /\ Len(switching[s]) = 1
    BY <2>1, Zenon DEF OneSwitch
  <2> QED
    BY <2>1, <2>2, Zenon DEF Drawn, Goal
<1>4. curr_terminal' = g /\ g \in Shells
  BY <1>1, <1>2, <1>3, Zenon DEF Drawn
<1>5. \A r \in Pids : switching'[r] = <<>>
  <2>1. \A r \in Pids : r # s => switching[r] = <<>>
    BY <1>3, Zenon DEF Open
  <2>2. switching[s] \in Seq(Shells) /\ switching \in [Pids -> Seq(Shells)]
    BY Zenon DEF TypeOK
  <2>3. Tail(switching[s]) = <<>>
    BY <1>3, <2>2, TailOfOne, Zenon
  <2> QED
    BY <1>1, <1>2, <2>1, <2>2, <2>3, Zenon
<1>6. switching' \in [Pids -> Seq(Shells)]
  <2>1. switching \in [Pids -> Seq(Shells)] /\ switching[s] \in Seq(Shells)
    BY Zenon DEF TypeOK
  <2>2. Tail(switching[s]) \in Seq(Shells)
    <3>1. Tail(switching[s]) = <<>>
      BY <1>3, <2>1, TailOfOne, Zenon
    <3> QED
      BY <3>1, EmptyInSeq, Zenon
  <2> QED
    BY <1>1, <1>2, <2>1, <2>2, Zenon
<1>7. TypeOK'
  BY <1>1, <1>4, <1>6, Zenon DEF TypeOK, pcbVars, pteVars, execVars
<1>8. Open' = {}
  BY <1>5, Zenon DEF Open
<1>9. OneSwitch'
  BY <1>8, Zenon DEF OneSwitch
<1>10. \A r \in Pids : pc[r] \notin {"load", "loaded"}
  <2> SUFFICES ASSUME NEW r \in Pids, pc[r] \in {"load", "loaded"} PROVE FALSE
    BY Zenon
  <2>1. curr_process = r /\ switching[r] = <<>>
    BY Zenon DEF Control
  <2>2. Running = r
    BY <2>1, Zenon DEF Running
  <2> QED
    BY <1>1, <2>1, <2>2, Zenon
<1>11. Control'
  BY <1>1, <1>10, Zenon DEF Control, Tree, pcbVars, pteVars, execVars
<1>12. Drawn(path, g)'
  <2>1. Lines(path, parent, child, Tree)' /\ Mapped(path, g)' /\ Shows(g)'
    BY <1>1 DEF Drawn, Lines, Mapped, Shows, Tree, pcbVars, pteVars, execVars
  <2>2. Goal(g)'
    BY <1>4, <1>8, Zenon DEF Goal
  <2> QED
    BY <1>4, <2>1, <2>2, Zenon DEF Drawn
<1> HIDE DEF Before
<1> QED
  BY <1>7, <1>9, <1>11, <1>12, After, Zenon

(* What a program draws on its own page is already there.                  *)
LEMMA OwnPage ==
    ASSUME NEW path, NEW g, Before(path, g), NEW p \in Tree
    PROVE  /\ Home(p) \in Shells /\ vidmem[p] = PageAt(g, Home(p))
           /\ [images EXCEPT ![vidmem[p]] = @ \cup {Home(p)}] = images
<1>1. TypeOK /\ Lines(path, parent, child, Tree) /\ Mapped(path, g) /\ Shows(g) /\ g \in Shells
  BY Zenon DEF Before, Drawn
<1>2. PICK t \in Shells : \E n \in Nat : path[t][n] = p
  BY <1>1, Zenon DEF Lines
<1>3. PICK n \in Nat : path[t][n] = p
  BY <1>2, Zenon
<1>4. p # Null /\ p \in Pids
  BY Sorts, Zenon DEF Tree
<1>5. Home(p) = t
  BY <1>1, <1>3, <1>4, HomeIs, Zenon
<1>6. vidmem[p] = PageAt(g, t)
  BY <1>1, <1>3, <1>4, Zenon DEF Mapped
<1>7. images[PageAt(g, t)] = {t}
  BY <1>1, Zenon DEF Shows
<1>8. images \in [Pages -> SUBSET Shells] /\ PageAt(g, t) \in Pages
  BY <1>1, Sorts, Zenon DEF TypeOK, PageAt
<1>9. [images EXCEPT ![PageAt(g, t)] = @ \cup {t}] = images
  <2>1. images[PageAt(g, t)] \cup {t} = images[PageAt(g, t)]
    BY <1>7, Zenon
  <2> QED
    BY <1>8, <2>1, Zenon
<1> QED
  BY <1>5, <1>6, <1>9, Zenon

LEMMA StepWrite ==
    ASSUME NEW path, NEW g, Before(path, g), NEW p \in Pids, Write(p)
    PROVE  VideoInv'
<1>1. /\ curr_process = p /\ pc[p] = "user"
      /\ images' = [images EXCEPT ![vidmem[cr3]] = @ \cup {Home(p)}]
      /\ UNCHANGED <<curr_terminal, curr_process, cr3, pcbVars, pteVars,
                     execVars, switching, hit>>
  BY AtIs, Zenon DEF Write
<1>2. cr3 = p /\ p \in Tree
  BY <1>1, Zenon DEF Before, Control, Tree
<1>3. images' = images
  BY <1>1, <1>2, OwnPage, Zenon
<1> USE DEF Before
<1>4. TypeOK'
  BY <1>1, <1>3, Zenon DEF TypeOK, pcbVars, pteVars, execVars
<1>5. Control'
  BY <1>1, Zenon DEF Control, Tree, pcbVars, pteVars, execVars
<1>6. OneSwitch'
  BY <1>1, SwitchSame, Zenon
<1>7. Drawn(path, g)'
  BY <1>1, <1>3, DrawnSame, Zenon DEF pcbVars, pteVars, execVars, Tree
<1> QED
  BY <1>4, <1>5, <1>6, <1>7, After, Zenon

LEMMA StepDraw ==
    ASSUME NEW path, NEW g, Before(path, g), NEW p \in Pids, Draw(p)
    PROVE  VideoInv'
<1>1. /\ curr_process = p /\ pc[p] = "user"
      /\ images' = [images EXCEPT ![vidmap[p]] = @ \cup {Home(p)}]
      /\ hit' = (vidmap[p] # vidmem[p])
      /\ UNCHANGED <<curr_terminal, curr_process, cr3, pcbVars, pteVars,
                     execVars, switching>>
  BY AtIs, Zenon DEF Draw
<1>2. p \in Tree
  BY <1>1, Zenon DEF Tree
<1>3. Home(p) \in Shells
  BY <1>2, OwnPage, Zenon
<1>4. TypeOK'
  <2>1. images \in [Pages -> SUBSET Shells] /\ vidmap[p] \in Pages
    BY Zenon DEF Before, TypeOK
  <2>2. images' \in [Pages -> SUBSET Shells]
    BY <1>1, <1>3, <2>1, Zenon
  <2>3. hit' \in BOOLEAN
    BY <1>1, Zenon
  <2> QED
    BY <1>1, <2>2, <2>3, Zenon DEF Before, TypeOK, pcbVars, pteVars, execVars
<1>5. CASE hit'
  BY <1>4, <1>5, Zenon DEF VideoInv
<1>6. CASE ~hit'
  <2>1. vidmap[p] = vidmem[p]
    BY <1>1, <1>6, Zenon
  <2>2. images' = images
    BY <1>1, <1>2, <2>1, OwnPage, ZenonT(60)
  <2> USE DEF Before
  <2>3. Control'
    BY <1>1, Zenon DEF Control, Tree, pcbVars, pteVars, execVars
  <2>4. OneSwitch'
    BY <1>1, SwitchSame, Zenon
  <2>5. Drawn(path, g)'
    BY <1>1, <2>2, DrawnSame, Zenon DEF pcbVars, pteVars, execVars, Tree
  <2> QED
    BY <1>4, <2>3, <2>4, <2>5, After, Zenon
<1> QED
  BY <1>5, <1>6, Zenon

-----------------------------------------------------------------------------
(* After boot every line is its shell alone.                               *)
LEMMA InitVideo == Init => VideoInv
<1> SUFFICES ASSUME Init PROVE VideoInv
  BY Zenon
<1> DEFINE path == [t \in Shells |-> [n \in Nat |-> IF n = 0 THEN t ELSE Null]]
<1>1. TypeOK
  <2>1. \A p \in Pids : (IF p \in Shells \ {0} THEN Backing(p) ELSE VGA) \in Pages
    BY Sorts, Zenon
  <2>2. \A x \in Pages : (IF x = VGA THEN 0 ELSE x - 1) \in Shells
    BY SizeAssumption DEF Pages, Shells, VGA
  <2>3. pid_arr \in [Pids -> BOOLEAN] /\ mapped \in [Pids -> BOOLEAN] /\ hit \in BOOLEAN
    <3>1. pid_arr = [p \in Pids |-> p \in Shells]
      BY Zenon DEF Init
    <3>2. pid_arr \in [Pids -> BOOLEAN]
      BY <3>1
    <3>3. mapped \in [Pids -> BOOLEAN] /\ hit \in BOOLEAN
      BY Zenon DEF Init
    <3> QED
      BY <3>2, <3>3, Zenon
  <2>4. /\ vidmem \in [Pids -> Pages] /\ vidmap \in [Pids -> Pages]
        /\ images \in [Pages -> SUBSET Shells]
    BY <2>1, <2>2, Sorts DEF Init
  <2>5. switching \in [Pids -> Seq(Shells)]
    BY EmptyInSeq, Zenon DEF Init
  <2> QED
    BY <2>3, <2>4, <2>5, Sorts, Zenon DEF Init, TypeOK
<1>2. /\ \A p \in Pids : pc[p] = IF p \in Shells THEN "user" ELSE "none"
      /\ \A p \in Pids : child[p] = Null /\ switching[p] = <<>>
      /\ curr_process = 0 /\ cr3 = 0 /\ curr_terminal = 0
  BY Zenon DEF Init
<1>3. Tree = Shells
  <2>1. \A p \in Pids : pc[p] # "none" <=> p \in Shells
    BY <1>2, Zenon
  <2> QED
    BY <2>1, Sorts, Zenon DEF Tree
<1>4. \A p \in Pids : pid_arr[p] <=> p \in Shells
  BY Zenon DEF Init
<1>5. Control
  BY <1>2, <1>3, <1>4, Sorts, Zenon DEF Control
<1>6. Open = {}
  BY <1>2, Zenon DEF Open
<1>7. OneSwitch
  BY <1>6, Zenon DEF OneSwitch
<1>8. \A t \in Shells : \A n \in Nat : path[t][n] = IF n = 0 THEN t ELSE Null
  BY Zenon
<1>9. Lines(path, parent, child, Shells)
  <2>1. path \in [Shells -> [Nat -> Shells \cup {Null}]]
    BY Zenon
  <2>2. \A p \in Shells : p # Null /\ parent[p] = Null /\ child[p] = Null
    BY Sorts, Zenon DEF Init
  <2>3. \A n \in Nat : n + 1 # 0 /\ n + 1 \in Nat
    OBVIOUS
  <2> HIDE DEF path
  <2> QED
    BY <1>8, <2>1, <2>2, <2>3 DEF Lines
<1> HIDE DEF path
<1>10. Mapped(path, 0)
  BY <1>8, Sorts, Zenon DEF Mapped, PageAt, Init
<1>11. Shows(0)
  <2> SUFFICES ASSUME NEW t \in Shells PROVE images[PageAt(0, t)] = {t}
    BY Zenon DEF Shows
  <2>1. PageAt(0, t) \in Pages /\ (IF PageAt(0, t) = VGA THEN 0 ELSE PageAt(0, t) - 1) = t
    BY SizeAssumption DEF PageAt, VGA, Backing, Shells, Pages
  <2> QED
    BY <2>1, Zenon DEF Init
<1>12. Goal(0)
  BY <1>2, <1>6, Zenon DEF Goal
<1>13. Drawn(path, 0)
  BY <1>3, <1>9, <1>10, <1>11, <1>12, Sorts, Zenon DEF Drawn
<1> QED
  BY <1>1, <1>5, <1>7, <1>13, Zenon DEF VideoInv

LEMMA StepVideo ==
    ASSUME VideoInv, [Next]_vars
    PROVE  VideoInv'
<1>1. CASE UNCHANGED vars
  <2>1. UNCHANGED <<curr_terminal, curr_process, cr3, pid_arr, parent, child, vidmem, vidmap,
                    mapped, pc, new, switching, images, hit>>
    BY <1>1, Zenon DEF vars, pcbVars, pteVars, execVars
  <2>2. TypeOK'
    BY <2>1, Zenon DEF VideoInv, TypeOK
  <2>3. CASE hit
    BY <2>1, <2>2, <2>3, Zenon DEF VideoInv
  <2>4. CASE ~hit
    <3>1. PICK path, g : Control /\ OneSwitch /\ Drawn(path, g)
      BY <2>4, Zenon DEF VideoInv
    <3>2. Control'
      BY <2>1, <3>1, Zenon DEF Control, Tree
    <3>3. OneSwitch'
      BY <2>1, <3>1, SwitchSame, Zenon
    <3>4. Drawn(path, g)'
      BY <2>1, <3>1, DrawnSame, Zenon DEF Tree
    <3> QED
      BY <2>2, <3>2, <3>3, <3>4, After, Zenon
  <2> QED
    BY <2>3, <2>4, Zenon
<1>2. CASE Next
  <2>1. hit = FALSE
    BY <1>2, Zenon DEF Next, VideoInv, TypeOK
  <2>2. PICK path, g : Before(path, g)
    BY <2>1, Zenon DEF VideoInv, Before
  <2>3. CASE \E t \in Shells : SwitchTerminals(t)
    BY <2>2, <2>3, StepSwitchTerminals, Zenon
  <2>4. CASE SwitchDone
    BY <2>2, <2>4, StepSwitchDone, Zenon
  <2>5. ASSUME NEW p \in Pids,
               \/ Tick(p) \/ NewPaging(p) \/ Load(p) \/ PcbInit(p) \/ Dispatch(p)
               \/ Halt(p) \/ Vidmap(p) \/ Write(p) \/ Draw(p)
        PROVE  VideoInv'
    BY <2>2, <2>5, StepTick, StepNewPaging, StepLoad, StepPcbInit, StepDispatch, StepHalt,
       StepVidmap, StepWrite, StepDraw, Zenon
  <2> QED
    BY <1>2, <2>3, <2>4, <2>5, Zenon DEF Next
<1> QED
  BY <1>1, <1>2, Zenon

(* Outside the windows of kexecute and of a switch, the PCB tree is one    *)
(* line of programs per terminal, all of them mapped to the terminal's     *)
(* page, and every page shows its own terminal.                            *)
THEOREM VideoInvariant == Spec => []VideoInv
<1>1. VideoInv /\ [Next]_vars => VideoInv'
  BY StepVideo, Zenon
<1> QED
  BY <1>1, InitVideo, PTL DEF Spec

(* What a program writes goes to the VGA page exactly when its terminal is *)
(* displayed: swap_vid_mem finds every program, however many terminals,    *)
(* programs and switches there are.                                        *)
THEOREM OutputStaysHome == Spec => []WritesToOwnTerminal
<1>1. VideoInv => WritesToOwnTerminal
  <2> SUFFICES ASSUME VideoInv, Open = {}, ~hit, NEW p \in Live
               PROVE  vidmem[p] = PageOf(Home(p))
    BY Zenon DEF WritesToOwnTerminal
  <2>1. PICK path, g : Control /\ OneSwitch /\ Drawn(path, g)
    BY Zenon DEF VideoInv
  <2>2. Before(path, g)
    BY <2>1, Zenon DEF VideoInv, Before, TypeOK
  <2>3. p \in Tree
    BY Zenon DEF Live, Tree
  <2>4. vidmem[p] = PageAt(g, Home(p))
    BY <2>2, <2>3, OwnPage, Zenon
  <2>5. g = curr_terminal
    BY <2>1, Zenon DEF Drawn, Goal
  <2> QED
    BY <2>4, <2>5, Zenon DEF PageAt, PageOf
<1> QED
  BY <1>1, VideoInvariant, PTL

(* No switch loses an image or mixes two: between switches the VGA page    *)
(* shows the displayed terminal and every backing page its own.            *)
THEOREM ImagesStaySeparate == Spec => []ImagesSeparate
<1>1. VideoInv => ImagesSeparate
  <2> SUFFICES ASSUME VideoInv, Open = {}, ~hit, NEW t \in Shells
               PROVE  images[PageOf(t)] = {t}
    BY Zenon DEF ImagesSeparate, VideoInv
  <2>1. PICK path, g : Drawn(path, g)
    BY Zenon DEF VideoInv
  <2>2. g = curr_terminal /\ Shows(g)
    BY <2>1, Zenon DEF Drawn, Goal
  <2> QED
    BY <2>2, Zenon DEF Shows, PageAt, PageOf
<1> QED
  BY <1>1, VideoInvariant, PTL

(* kexecute loads a program through the page directory it has just made    *)
(* for it, although a terminal switch reloads cr3.                         *)
THEOREM LoadsStayPrivate == Spec => []LoadsThroughOwnDirectory
<1>1. VideoInv => LoadsThroughOwnDirectory
  BY Zenon DEF VideoInv, Control, LoadsThroughOwnDirectory, At
<1> QED
  BY <1>1, VideoInvariant, PTL
=============================================================================
