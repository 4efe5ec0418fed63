---------------------------- MODULE HistoryProofs ---------------------------
(***************************************************************************)
(* The properties of History for every number of terminals, kernel stacks  *)
(* and handlers, and every size of the ring and of the line buffer.        *)
(*                                                                         *)
(* IInv: the test that an arrow key makes is still true when its handler   *)
(* moves the index, because no other handler has moved the indexes of that *)
(* terminal in between.  Ring: the lines that are kept, slot by slot.      *)
(* Lines: how far the handler that works on a line has come, place by      *)
(* place of its code, and that all agrees when there is none.              *)
(***************************************************************************)
EXTENDS History, WellFoundedInduction, TLAPS

USE SMTT(60)

Control ==
    /\ curr_terminal \in Terminals
    /\ num_hist \in [Terminals -> Nat] /\ curr_hist \in [Terminals -> Int]
    /\ min_hist \in [Terminals -> Nat]
    /\ frames \in [Handlers -> Frame]
    /\ crossed \subseteq Terminals

IsArrow(key) == key \in {"up", "down"}
Arrow(h) == IsArrow(frames[h].key)
InArrow(pc) == pc \in {"erase", "type", "copy", "index"}

(* The handlers of arrow keys: their tests still hold, and each terminal   *)
(* has at most one.                                                        *)
Arrows ==
    \A h \in Handlers :
        /\ Arrow(h) <=> InArrow(frames[h].pc)
        /\ frames[h].key = "up"
             => min_hist[frames[h].term] < curr_hist[frames[h].term]
        /\ frames[h].key = "down"
             => curr_hist[frames[h].term] < num_hist[frames[h].term]
        /\ \A g \in Handlers :
             Arrow(h) /\ Arrow(g) /\ frames[h].term = frames[g].term => h = g

Window ==
    \A t \in Terminals :
        /\ min_hist[t] <= curr_hist[t] /\ curr_hist[t] <= num_hist[t]
        /\ num_hist[t] - min_hist[t] <= MAXHIST

IInv == Control /\ (crossed = {} => Arrows /\ Window)

(* A step that leaves the indexes and only adds a handler that is not of   *)
(* an arrow key, moves a handler on or ends it.                            *)
LEMMA FrameKeeps ==
    ASSUME IInv, UNCHANGED <<indexes, crossed, curr_terminal>>, crossed = {},
           NEW h \in Handlers, NEW new \in Frame,
           frames' = [frames EXCEPT ![h] = new],
           IsArrow(new.key) <=> InArrow(new.pc),
           IsArrow(new.key) => new.key = frames[h].key /\ new.term = frames[h].term
    PROVE  IInv'
<1>1. UNCHANGED <<num_hist, curr_hist, min_hist, crossed, curr_terminal>>
  BY Zenon DEF indexes
<1>2. frames \in [Handlers -> Frame]
  BY Zenon DEF IInv, Control
<1>3. Control'
  BY <1>1, <1>2, Zenon DEF IInv, Control
<1>4. Window'
  BY <1>1, Zenon DEF IInv, Window
<1>5. ASSUME NEW g \in Handlers
      PROVE  /\ IsArrow(frames'[g].key) <=> InArrow(frames'[g].pc)
             /\ IsArrow(frames'[g].key) => /\ frames'[g].key = frames[g].key
                                           /\ frames'[g].term = frames[g].term
  <2>1. CASE g = h
    <3>1. frames'[g] = new
      BY <1>2, <2>1, Zenon
    <3> QED
      BY <2>1, <3>1, Zenon
  <2>2. CASE g # h
    <3>1. frames'[g] = frames[g]
      BY <1>2, <2>2, Zenon
    <3> QED
      BY <3>1, Zenon DEF IInv, Arrows, Arrow
  <2> QED
    BY <2>1, <2>2, Zenon
<1>6. Arrows'
  <2>1. Arrows
    BY Zenon DEF IInv
  <2> QED
    BY <1>1, <1>5, <2>1 DEF Arrows, Arrow, IsArrow
<1> QED
  BY <1>3, <1>4, <1>6, Zenon DEF IInv

LEMMA PushKeeps ==
    ASSUME IInv, UNCHANGED <<indexes, crossed, curr_terminal>>, crossed = {},
           NEW h \in Handlers, NEW s \in Stacks,
           NEW key \in Chars \cup {Backspace}, Push(h, s, key, "cmd", 0, 0)
    PROVE  IInv'
<1> DEFINE under == {g \in Handlers : frames[g].stack = s}
           new == [key |-> key, term |-> curr_terminal, pc |-> "cmd", i |-> 0,
                   slot |-> 0, stack |-> s, under |-> under]
<1>1. ~IsArrow(key) /\ ~InArrow("cmd")
  BY HistoryAssumption, Zenon DEF Backspace, IsArrow, InArrow
<1>2. under \in SUBSET Handlers /\ curr_terminal \in Terminals
  BY Zenon DEF IInv, Control
<1>3. frames' = [frames EXCEPT ![h] = new]
  BY Zenon DEF Push
<1> HIDE DEF under
<1>4. new \in Frame /\ new.key = key /\ new.pc = "cmd"
  BY <1>2 DEF Frame
<1> HIDE DEF new
<1>5. /\ IInv /\ UNCHANGED <<indexes, crossed, curr_terminal>> /\ crossed = {}
      /\ h \in Handlers /\ new \in Frame /\ frames' = [frames EXCEPT ![h] = new]
      /\ IsArrow(new.key) <=> InArrow(new.pc)
      /\ IsArrow(new.key) => new.key = frames[h].key /\ new.term = frames[h].term
  BY <1>1, <1>3, <1>4, Zenon
<1> QED
  BY ONLY <1>5, FrameKeeps, ZenonT(30)

LEMMA ContinueKeeps ==
    ASSUME IInv, UNCHANGED <<indexes, crossed, curr_terminal>>, crossed = {},
           NEW h \in Handlers,
           NEW pc \in {"modified", "erase", "type", "copy", "index"},
           NEW i \in Nat, Continue(h, pc, i),
           InArrow(frames[h].pc) <=> InArrow(pc)
    PROVE  IInv'
<1> DEFINE f == frames[h]
           new == [key |-> f.key, term |-> f.term, pc |-> pc, i |-> i,
                   slot |-> f.slot, stack |-> f.stack, under |-> f.under]
<1>1. f \in Frame
  BY Zenon DEF IInv, Control
<1>2. IsArrow(f.key) <=> InArrow(f.pc)
  BY Zenon DEF IInv, Arrows, Arrow
<1>3. frames' = [frames EXCEPT ![h] = new]
  BY Zenon DEF Continue
<1>4. InArrow(f.pc) <=> InArrow(pc)
  BY Zenon
<1> HIDE DEF f
<1>5. new \in Frame /\ new.key = f.key /\ new.term = f.term /\ new.pc = pc
  <2>1. pc \in {"none", "cmd", "modified", "erase", "type", "copy", "index"}
    BY Zenon
  <2>2. /\ f.key \in Chars \cup {Backspace, "up", "down", "none"}
        /\ f.term \in Terminals /\ f.slot \in Int
        /\ f.stack \in Stacks \cup {"none"} /\ f.under \in SUBSET Handlers
    BY <1>1, Zenon DEF Frame
  <2> QED
    BY <2>1, <2>2, Zenon DEF Frame
<1> HIDE DEF new
<1>6. /\ IInv /\ UNCHANGED <<indexes, crossed, curr_terminal>> /\ crossed = {}
      /\ h \in Handlers /\ new \in Frame /\ frames' = [frames EXCEPT ![h] = new]
      /\ IsArrow(new.key) <=> InArrow(new.pc)
      /\ IsArrow(new.key) => new.key = frames[h].key /\ new.term = frames[h].term
  BY <1>2, <1>3, <1>4, <1>5, Zenon DEF f
<1> QED
  BY ONLY <1>6, FrameKeeps, ZenonT(30)

LEMMA IdleIsFrame ==
    Idle \in Frame /\ ~IsArrow(Idle.key) /\ ~InArrow(Idle.pc)
BY HistoryAssumption DEF Idle, Frame, IsArrow, InArrow

LEMMA PopKeeps ==
    ASSUME IInv, UNCHANGED <<indexes, crossed, curr_terminal>>, crossed = {},
           NEW h \in Handlers, Pop(h)
    PROVE  IInv'
<1>1. frames' = [frames EXCEPT ![h] = Idle]
  BY Zenon DEF Pop
<1>2. /\ IInv /\ UNCHANGED <<indexes, crossed, curr_terminal>> /\ crossed = {}
      /\ h \in Handlers /\ Idle \in Frame /\ frames' = [frames EXCEPT ![h] = Idle]
      /\ IsArrow(Idle.key) <=> InArrow(Idle.pc)
      /\ IsArrow(Idle.key) => Idle.key = frames[h].key /\ Idle.term = frames[h].term
  BY <1>1, IdleIsFrame, Zenon
<1> QED
  BY ONLY <1>2, FrameKeeps, ZenonT(30)

(* An arrow key: its test holds, and it is the only one on the terminal    *)
(* unless it crosses another one.                                          *)
LEMMA RecallKeeps ==
    ASSUME IInv, crossed = {}, NEW h \in Handlers, NEW s \in Stacks,
           NEW key \in {"up", "down"}, NEW to \in Int, Recall(h, s, key, to),
           key = "up" => CanGoUp(curr_terminal),
           key = "down" => CanGoDown(curr_terminal)
    PROVE  IInv'
<1> DEFINE under == {g \in Handlers : frames[g].stack = s}
           new == [key |-> key, term |-> curr_terminal, pc |-> "erase", i |-> 1,
                   slot |-> Slot(to), stack |-> s, under |-> under]
<1>1. curr_terminal \in Terminals /\ frames \in [Handlers -> Frame]
      /\ under \in SUBSET Handlers
  BY Zenon DEF IInv, Control
<1>2. UNCHANGED <<num_hist, curr_hist, min_hist, curr_terminal>>
  BY Zenon DEF Recall, indexes
<1>3. Slot(to) \in Int
  BY HistoryAssumption DEF Slot
<1>4. frames' = [frames EXCEPT ![h] = new]
  BY Zenon DEF Recall, Push
<1> HIDE DEF under
<1>5. new \in Frame /\ new.key = key /\ new.term = curr_terminal /\ new.pc = "erase"
  BY <1>1, <1>3, Zenon DEF Frame
<1> HIDE DEF new
<1>6. crossed' = (IF Recalling(curr_terminal) THEN crossed \cup {curr_terminal} ELSE crossed)
  BY Zenon DEF Recall, Crosses
<1>7. Control'
  BY <1>1, <1>2, <1>4, <1>5, <1>6, Zenon DEF IInv, Control
<1>8. Window'
  BY <1>2, Zenon DEF IInv, Window
<1>9. ASSUME crossed' = {} PROVE Arrows'
  <2>1. ~Recalling(curr_terminal)
    BY <1>6, <1>9, Zenon
  <2>2. ASSUME NEW g \in Handlers, Arrow(g)
        PROVE  frames[g].term # curr_terminal
    BY <2>1, <2>2, Zenon DEF Recalling, Arrow, IsArrow
  <2>3. frames'[h] = new /\ \A g \in Handlers : g # h => frames'[g] = frames[g]
    BY <1>1, <1>4, Zenon
  <2>4. ASSUME NEW g \in Handlers
        PROVE  /\ IsArrow(frames'[g].key) <=> InArrow(frames'[g].pc)
               /\ frames'[g].key = "up"
                    => min_hist[frames'[g].term] < curr_hist[frames'[g].term]
               /\ frames'[g].key = "down"
                    => curr_hist[frames'[g].term] < num_hist[frames'[g].term]
    <3>1. CASE g = h
      BY <1>5, <2>3, <3>1, Zenon DEF CanGoUp, CanGoDown, IInv, Control, IsArrow, InArrow
    <3>2. CASE g # h
      BY <2>3, <3>2, Zenon DEF Arrow, IInv, Arrows
    <3> QED
      BY <3>1, <3>2, Zenon
  <2>5. ASSUME NEW d \in Handlers, NEW e \in Handlers, IsArrow(frames'[d].key),
               IsArrow(frames'[e].key), frames'[d].term = frames'[e].term
        PROVE  d = e
    <3>1. CASE d # h /\ e # h
      BY <2>3, <2>5, <3>1, Zenon DEF Arrow, IInv, Arrows
    <3>2. CASE d # h /\ e = h
      BY <1>5, <2>2, <2>3, <2>5, <3>2, Zenon DEF Arrow
    <3>3. CASE d = h /\ e # h
      BY <1>5, <2>2, <2>3, <2>5, <3>3, Zenon DEF Arrow
    <3> QED
      BY <3>1, <3>2, <3>3, Zenon
  <2> QED
    BY <1>2, <2>4, <2>5, Zenon DEF Arrows, Arrow
<1> QED
  BY <1>7, <1>8, <1>9, Zenon DEF IInv

(* The handler of an arrow key moves the index and ends.                   *)
LEMMA MoveIndexKeeps ==
    ASSUME IInv, NEW h \in Handlers, MoveIndex(h)
    PROVE  IInv'
<1> DEFINE t == frames[h].term
<1>1. crossed = {} /\ crossed' = crossed /\ curr_terminal' \in Terminals
      /\ frames \in [Handlers -> Frame] /\ frames[h].pc = "index"
  BY Zenon DEF IInv, Control, MoveIndex, Running, ghosts
<1>2. t \in Terminals /\ Arrow(h)
  <2>1. frames[h] \in Frame
    BY <1>1, Zenon
  <2> QED
    BY <1>1, <2>1, Zenon DEF Frame, IInv, Arrows, InArrow
<1>3. UNCHANGED <<num_hist, min_hist>>
      /\ curr_hist' = [curr_hist EXCEPT ![t] = curr_hist[t] + Step(h)]
  BY Zenon DEF MoveIndex
<1>4. curr_hist \in [Terminals -> Int] /\ num_hist \in [Terminals -> Nat]
      /\ min_hist \in [Terminals -> Nat]
  BY Zenon DEF IInv, Control
<1>5. curr_hist[t] \in Int /\ min_hist[t] \in Nat /\ num_hist[t] \in Nat
      /\ min_hist[t] <= curr_hist[t] /\ curr_hist[t] <= num_hist[t]
  BY <1>1, <1>2, <1>4, Zenon DEF IInv, Window
<1> DEFINE c == curr_hist[t] + Step(h)
<1>6. c \in Int /\ min_hist[t] <= c /\ c <= num_hist[t]
  <2>1. CASE frames[h].key = "up"
    <3>1. Step(h) = -1 /\ min_hist[t] < curr_hist[t]
      BY <1>1, <2>1, Zenon DEF Step, IInv, Arrows
    <3> QED
      BY <1>5, <3>1
  <2>2. CASE frames[h].key = "down"
    <3>1. Step(h) = 1 /\ curr_hist[t] < num_hist[t]
      BY <1>1, <2>2, Zenon DEF Step, IInv, Arrows
    <3> QED
      BY <1>5, <3>1
  <2> QED
    BY <1>2, <2>1, <2>2, Zenon DEF Arrow, IsArrow
<1>7. frames' = [frames EXCEPT ![h] = Idle]
  BY Zenon DEF MoveIndex, Pop
<1>8. curr_hist' = [curr_hist EXCEPT ![t] = c]
  BY <1>3, Zenon
<1> HIDE DEF c
<1>9. Control'
  <2>1. curr_hist' \in [Terminals -> Int]
    <3>1. t \in Terminals
      BY <1>2, Zenon
    <3>2. curr_hist \in [Terminals -> Int]
      BY <1>4, Zenon
    <3>3. c \in Int
      BY <1>6, Zenon
    <3> HIDE DEF t
    <3> QED
      BY ONLY <1>8, <3>1, <3>2, <3>3
  <2>2. frames' \in [Handlers -> Frame]
    BY <1>1, <1>7, IdleIsFrame, Zenon
  <2> QED
    BY <1>1, <1>3, <1>4, <2>1, <2>2, Zenon DEF IInv, Control
<1>10. Window'
  BY <1>1, <1>2, <1>3, <1>4, <1>6, <1>8, Zenon DEF IInv, Window
<1>11. Arrows'
  <2>1. ASSUME NEW g \in Handlers, g # h
        PROVE  frames'[g] = frames[g]
    BY <1>1, <1>7, <2>1, Zenon
  <2>2. frames'[h] = Idle
    BY <1>1, <1>7, Zenon
  <2>3. ASSUME NEW g \in Handlers, g # h, Arrow(g)
        PROVE  curr_hist'[frames[g].term] = curr_hist[frames[g].term]
    <3>1. frames[g].term # t
      BY <1>1, <1>2, <2>3, Zenon DEF IInv, Arrows
    <3>2. frames[g].term \in Terminals
      <4>1. frames[g] \in Frame
        BY <1>1, Zenon
      <4> QED
        BY <4>1, Zenon DEF Frame
    <3> QED
      BY <1>4, <1>8, <3>1, <3>2, Zenon
  <2>4. Arrows
    BY <1>1, Zenon DEF IInv
  <2> HIDE DEF t
  <2>5. ASSUME NEW g \in Handlers
        PROVE  /\ IsArrow(frames'[g].key) <=> InArrow(frames'[g].pc)
               /\ frames'[g].key = "up"
                    => min_hist'[frames'[g].term] < curr_hist'[frames'[g].term]
               /\ frames'[g].key = "down"
                    => curr_hist'[frames'[g].term] < num_hist'[frames'[g].term]
    <3>1. CASE g = h
      BY <2>2, <3>1, IdleIsFrame, Zenon DEF IsArrow
    <3>2. CASE g # h
      BY <1>3, <2>1, <2>3, <2>4, <3>2 DEF Arrows, Arrow, IsArrow
    <3> QED
      BY <3>1, <3>2, Zenon
  <2>6. ASSUME NEW d \in Handlers, NEW e \in Handlers, IsArrow(frames'[d].key),
               IsArrow(frames'[e].key), frames'[d].term = frames'[e].term
        PROVE  d = e
    <3>1. d # h /\ e # h
      BY <2>2, <2>6, IdleIsFrame, Zenon
    <3> QED
      BY <2>1, <2>4, <2>6, <3>1, Zenon DEF Arrows, Arrow
  <2> QED
    BY <2>5, <2>6, Zenon DEF Arrows, Arrow
<1> QED
  BY <1>9, <1>10, <1>11, Zenon DEF IInv

(* Enter moves the window by a line.                                       *)
LEMMA EnterKeeps ==
    ASSUME IInv, KeyEnter
    PROVE  IInv'
<1> DEFINE t == curr_terminal
<1>1. crossed = {} /\ t \in Terminals /\ MAXHIST \in Nat
      /\ frames \in [Handlers -> Frame]
  BY HistoryAssumption, Zenon DEF IInv, Control, KeyEnter
<1>2. curr_hist \in [Terminals -> Int] /\ num_hist \in [Terminals -> Nat]
      /\ min_hist \in [Terminals -> Nat]
  BY Zenon DEF IInv, Control
<1> DEFINE num == num_hist[t] + 1
           min == Oldest(num_hist[t] + 1, min_hist[t])
<1>3. /\ num_hist' = [num_hist EXCEPT ![t] = num]
      /\ curr_hist' = [curr_hist EXCEPT ![t] = num]
      /\ min_hist' = [min_hist EXCEPT ![t] = min]
      /\ UNCHANGED <<curr_terminal, frames>>
      /\ crossed' = (IF Recalling(t) THEN crossed \cup {t} ELSE crossed)
  BY Zenon DEF KeyEnter, Crosses
<1>4. num_hist[t] \in Nat /\ min_hist[t] \in Nat
      /\ min_hist[t] <= num_hist[t] /\ num_hist[t] - min_hist[t] <= MAXHIST
  BY <1>1, <1>2 DEF IInv, Window
<1>5. num \in Nat /\ min \in Nat /\ min <= num /\ num - min <= MAXHIST
  BY <1>1, <1>4 DEF Oldest
<1> HIDE DEF t, num, min
<1>6. Control'
  <2>1. crossed' \subseteq Terminals /\ curr_terminal' \in Terminals
    BY <1>1, <1>3, Zenon DEF t
  <2> QED
    BY <1>1, <1>2, <1>3, <1>5, <2>1 DEF Control
<1>7. Window'
  <2> SUFFICES ASSUME NEW u \in Terminals
               PROVE  /\ min_hist'[u] <= curr_hist'[u] /\ curr_hist'[u] <= num_hist'[u]
                      /\ num_hist'[u] - min_hist'[u] <= MAXHIST
    BY Zenon DEF Window
  <2>1. CASE u = t
    BY <1>1, <1>2, <1>3, <1>5, <2>1
  <2>2. CASE u # t
    BY <1>1, <1>2, <1>3, <2>2, Zenon DEF IInv, Window
  <2> QED
    BY <2>1, <2>2, Zenon
<1>8. ASSUME crossed' = {} PROVE Arrows'
  <2>1. ASSUME NEW h \in Handlers, Arrow(h)
        PROVE  frames[h].term # t /\ frames[h].term \in Terminals
    <3>1. ~Recalling(t)
      BY <1>3, <1>8, Zenon
    <3>2. frames[h] \in Frame
      BY <1>1, Zenon
    <3> QED
      BY <2>1, <3>1, <3>2, Zenon DEF Recalling, Arrow, IsArrow, Frame
  <2>2. ASSUME NEW u \in Terminals, u # t
        PROVE  UNCHANGED <<num_hist[u], curr_hist[u], min_hist[u]>>
    BY <1>2, <1>3, <2>2, Zenon
  <2>3. Arrows
    BY <1>1, Zenon DEF IInv
  <2> QED
    BY <1>3, <2>1, <2>2, <2>3 DEF Arrows, Arrow, IsArrow
<1> QED
  BY <1>6, <1>7, <1>8, Zenon DEF IInv

LEMMA Inductive ==
    ASSUME IInv, [Next]_vars
    PROVE  IInv'
<1>1. ASSUME NEW h \in Handlers, NEW s \in Stacks, NEW c \in Chars \cup {Backspace},
             KeyChar(h, s, c)
      PROVE  IInv'
  <2>1. UNCHANGED <<indexes, crossed, curr_terminal>> /\ crossed = {}
        /\ Push(h, s, c, "cmd", 0, 0)
    BY <1>1, Zenon DEF KeyChar, Interrupt
  <2> QED
    BY <2>1, PushKeeps, Zenon
<1>2. ASSUME NEW h \in Handlers, NEW s \in Stacks, KeyUp(h, s) PROVE IInv'
  <2>1. crossed = {} /\ Recall(h, s, "up", curr_hist[curr_terminal] - 1)
        /\ CanGoUp(curr_terminal) /\ curr_hist[curr_terminal] - 1 \in Int
    BY <1>2 DEF KeyUp, Interrupt, IInv, Control
  <2> QED
    BY <2>1, RecallKeeps, Zenon
<1>3. ASSUME NEW h \in Handlers, NEW s \in Stacks, KeyDown(h, s) PROVE IInv'
  <2>1. crossed = {} /\ Recall(h, s, "down", curr_hist[curr_terminal] + 1)
        /\ CanGoDown(curr_terminal) /\ curr_hist[curr_terminal] + 1 \in Int
    BY <1>3 DEF KeyDown, Interrupt, IInv, Control
  <2> QED
    BY <2>1, RecallKeeps, Zenon
<1>4. ASSUME NEW h \in Handlers PROVE frames[h].i \in Nat
  <2>1. frames[h] \in Frame
    BY Zenon DEF IInv, Control
  <2> QED
    BY <2>1, Zenon DEF Frame
<1>5. ASSUME NEW h \in Handlers, AppendCmd(h) PROVE IInv'
  <2>1. crossed = {} /\ Continue(h, "modified", 0)
        /\ UNCHANGED <<indexes, crossed, curr_terminal>> /\ frames[h].pc = "cmd"
    BY <1>5, Zenon DEF AppendCmd, Running, ghosts
  <2>2. (InArrow(frames[h].pc) <=> InArrow("modified"))
    BY <2>1, Zenon DEF InArrow
  <2> QED
    BY <2>1, <2>2, ContinueKeeps, Zenon
<1>6. ASSUME NEW h \in Handlers, Erase(h) PROVE IInv'
  <2>1. crossed = {} /\ Continue(h, "erase", frames[h].i + 1)
        /\ UNCHANGED <<indexes, crossed, curr_terminal>> /\ frames[h].pc = "erase"
    BY <1>6, Zenon DEF Erase, Running, ghosts
  <2>2. (InArrow(frames[h].pc) <=> InArrow("erase")) /\ frames[h].i + 1 \in Nat
    BY <1>4, <2>1 DEF InArrow
  <2> QED
    BY <2>1, <2>2, ContinueKeeps, Zenon
<1>7. ASSUME NEW h \in Handlers, Erased(h) PROVE IInv'
  <2>1. crossed = {} /\ Continue(h, "type", 0)
        /\ UNCHANGED <<indexes, crossed, curr_terminal>> /\ frames[h].pc = "erase"
    BY <1>7, Zenon DEF Erased, Running, ghosts
  <2>2. (InArrow(frames[h].pc) <=> InArrow("type"))
    BY <2>1, Zenon DEF InArrow
  <2> QED
    BY <2>1, <2>2, ContinueKeeps, Zenon
<1>8. ASSUME NEW h \in Handlers, Type(h) PROVE IInv'
  <2>1. crossed = {} /\ Continue(h, "type", frames[h].i + 1)
        /\ UNCHANGED <<indexes, crossed, curr_terminal>> /\ frames[h].pc = "type"
    BY <1>8, Zenon DEF Type, Running, ghosts
  <2>2. (InArrow(frames[h].pc) <=> InArrow("type")) /\ frames[h].i + 1 \in Nat
    BY <1>4, <2>1 DEF InArrow
  <2> QED
    BY <2>1, <2>2, ContinueKeeps, Zenon
<1>9. ASSUME NEW h \in Handlers, Typed(h) PROVE IInv'
  <2>1. crossed = {} /\ Continue(h, "copy", 0)
        /\ UNCHANGED <<indexes, crossed, curr_terminal>> /\ frames[h].pc = "type"
    BY <1>9, Zenon DEF Typed, Running, ghosts
  <2>2. (InArrow(frames[h].pc) <=> InArrow("copy"))
    BY <2>1, Zenon DEF InArrow
  <2> QED
    BY <2>1, <2>2, ContinueKeeps, Zenon
<1>10. ASSUME NEW h \in Handlers, CopyCmd(h) PROVE IInv'
  <2>1. crossed = {} /\ Continue(h, "index", 0)
        /\ UNCHANGED <<indexes, crossed, curr_terminal>> /\ frames[h].pc = "copy"
    BY <1>10, Zenon DEF CopyCmd, Running, ghosts
  <2>2. (InArrow(frames[h].pc) <=> InArrow("index"))
    BY <2>1, Zenon DEF InArrow
  <2> QED
    BY <2>1, <2>2, ContinueKeeps, Zenon
<1>11. ASSUME NEW h \in Handlers, AppendModified(h) PROVE IInv'
  <2>1. UNCHANGED <<indexes, crossed, curr_terminal>> /\ crossed = {} /\ Pop(h)
    BY <1>11, Zenon DEF AppendModified, Running, ghosts
  <2> QED
    BY <2>1, PopKeeps, Zenon
<1>12. ASSUME NEW h \in Handlers, MoveIndex(h) PROVE IInv'
  BY <1>12, MoveIndexKeeps, Zenon
<1>13. CASE KeyEnter
  BY <1>13, EnterKeeps, Zenon
<1>14. ASSUME UNCHANGED <<indexes, frames, crossed>>, curr_terminal' \in Terminals
       PROVE  IInv'
  BY <1>14, Zenon DEF indexes, IInv, Control, Arrows, Arrow, Window
<1>15. curr_terminal \in Terminals
  BY Zenon DEF IInv, Control
<1>16. CASE KeyEnterNothing
  BY <1>14, <1>15, <1>16, Zenon DEF KeyEnterNothing
<1>17. ASSUME NEW t \in Terminals, KeySwitch(t) \/ EmptyLine(t) PROVE IInv'
  BY <1>14, <1>15, <1>17, Zenon DEF KeySwitch, EmptyLine, ghosts
<1>18. CASE UNCHANGED vars
  BY <1>14, <1>15, <1>18, Zenon DEF vars, ghosts
<1> QED
  BY Zenon, <1>1, <1>2, <1>3, <1>5, <1>6, <1>7, <1>8, <1>9, <1>10, <1>11, <1>12, <1>13,
     <1>16, <1>17, <1>18 DEF Next

LEMMA InitIInv == Init => IInv
<1> SUFFICES ASSUME Init PROVE IInv
  BY Zenon
<1>1. Control
  BY IdleIsFrame, HistoryAssumption DEF Init, Control
<1>2. frames \in [Handlers -> Frame] /\ \A h \in Handlers : frames[h] = Idle
  BY IdleIsFrame, Zenon DEF Init
<1>3. Arrows
  BY <1>2, IdleIsFrame, Zenon DEF Arrows, Arrow, IsArrow
<1>4. Window
  BY HistoryAssumption DEF Init, Window
<1> QED
  BY <1>1, <1>3, <1>4, Zenon DEF IInv

(* The line of the history that is shown is one that is kept, and the      *)
(* lines that are kept fit into the ring, for every number of terminals,   *)
(* lines, stacks and handlers, as long as no Up, Down or Enter comes in    *)
(* during an Up or Down on the same terminal.                              *)
THEOREM HistoryInRange ==
    Spec => []IndexesInRange
<1>1. Init => IInv
  BY InitIInv, Zenon
<1>2. IInv /\ [Next]_vars => IInv'
  BY Inductive, Zenon
<1>3. IInv => IndexesInRange
  BY Zenon DEF IInv, Window, IndexesInRange
<1> QED
  BY <1>1, <1>2, <1>3, PTL DEF Spec
-----------------------------------------------------------------------------
(* Induction, on a set instead of a predicate.                             *)
LEMMA Induction ==
    ASSUME NEW S, 0 \in S, \A n \in Nat : n \in S => n + 1 \in S
    PROVE  Nat \subseteq S
<1> DEFINE T == {n \in Nat : n \notin S}
<1>1. SUFFICES ASSUME T # {} PROVE FALSE
  BY Zenon
<1>2. IsWellFoundedOn(OpToRel(<, Nat), Nat) /\ T \in SUBSET Nat
  BY NatLessThanWellFounded, Zenon
<1>3. PICK x \in T : \A y \in T : <<y, x>> \notin OpToRel(<, Nat)
  BY <1>1, <1>2, WFMin, Zenon
<1>4. \A y \in T : ~(y < x)
  BY <1>3, Zenon DEF OpToRel
<1>5. x # 0 /\ x \in Nat
  BY Zenon
<1>6. x - 1 \in Nat /\ x - 1 \notin T
  BY <1>4, <1>5
<1> QED
  BY <1>5, <1>6

(* The slots of lines that are kept at the same time are different.        *)
LEMMA SlotIn == \A k \in Int : Slot(k) \in Slots
BY HistoryAssumption DEF Slot, Slots

LEMMA Quotient ==
    ASSUME NEW n \in Nat, n > 0, NEW a \in Int
    PROVE  a = n * (a \div n) + (a % n) /\ a \div n \in Int
OBVIOUS

LEMMA Multiple ==
    ASSUME NEW n \in Nat, NEW d \in Int, 0 < n * d
    PROVE  n <= n * d
<1>1. d >= 1
  OBVIOUS
<1>2. n * d = n + n * (d - 1) /\ n * (d - 1) >= 0
  BY <1>1
<1> QED
  BY <1>2

LEMMA SlotApart ==
    ASSUME NEW a \in Nat, NEW b \in Nat, a < b, b - a <= MAXHIST
    PROVE  Slot(a) # Slot(b)
<1> DEFINE n == MAXHIST + 1
           d == (b \div n) - (a \div n)
<1>1. n \in Nat /\ n > 0 /\ b - a < n
  BY HistoryAssumption
<1> SUFFICES ASSUME a % n = b % n PROVE FALSE
  BY Zenon DEF Slot
<1>2. d \in Int /\ b - a = n * d
  <2>1. a = n * (a \div n) + (a % n) /\ b = n * (b \div n) + (b % n)
        /\ a \div n \in Int /\ b \div n \in Int
    BY <1>1, Quotient
  <2> HIDE DEF n
  <2>2. \A p, q, r \in Int : a = n * p + r /\ b = n * q + r => b - a = n * (q - p)
    BY <1>1
  <2> QED
    BY <1>1, <2>1, <2>2
<1> HIDE DEF n, d
<1>3. 0 < n * d
  BY <1>2
<1> QED
  BY <1>1, <1>2, <1>3, Multiple

(* put_char keeps the line buffer within its bounds.                       *)
LEMMA PutIn ==
    ASSUME NEW l \in Seq(Chars), Len(l) <= BUFFER_LIMIT, NEW c \in Chars \cup {Backspace}
    PROVE  Put(l, c) \in Seq(Chars) /\ Len(Put(l, c)) <= BUFFER_LIMIT
<1>1. BUFFER_LIMIT \in Nat
  BY HistoryAssumption, Zenon
<1>2. CASE c = Backspace
  BY <1>1, <1>2 DEF Put
<1>3. CASE c # Backspace
  BY <1>1, <1>3 DEF Put
<1> QED
  BY <1>2, <1>3, Zenon

LEMMA PutBackspace ==
    ASSUME NEW l \in Seq(Chars)
    PROVE  Put(l, Backspace) = <<>> \/ Len(Put(l, Backspace)) = Len(l) - 1
BY DEF Put

LEMMA LineLen == \A l \in Line : Len(l) \in Nat
BY DEF Line

LEMMA AppendIs ==
    ASSUME NEW S, NEW s \in Seq(S), NEW x \in S
    PROVE  /\ Append(s, x) \in Seq(S) /\ Len(Append(s, x)) = Len(s) + 1
           /\ \A k \in 1 .. Len(s) : Append(s, x)[k] = s[k]
           /\ Append(s, x)[Len(s) + 1] = x
OBVIOUS

LEMMA LatestIs ==
    ASSUME NEW S, NEW s \in Seq(S), Len(s) = MAXHIST + 1
    PROVE  /\ Latest(s) \in Seq(S) /\ Len(Latest(s)) = MAXHIST
           /\ \A k \in 1 .. MAXHIST : Latest(s)[k] = s[k + 1]
BY HistoryAssumption DEF Latest

-----------------------------------------------------------------------------
(* Types.                                                                  *)

Keys == Chars \cup {Backspace}

FrameOK(f) ==
    /\ f.pc \in {"cmd", "modified"} => f.key \in Keys
    /\ IsArrow(f.key) <=> InArrow(f.pc)
    /\ InArrow(f.pc) => f.slot \in Slots

FramesOK ==
    /\ curr_terminal \in Terminals
    /\ frames \in [Handlers -> Frame]
    /\ \A h \in Handlers : FrameOK(frames[h])

BuffersOK ==
    /\ hist \in [Terminals -> [Slots -> Line]]
    /\ modified_hist \in [Terminals -> [Slots -> Line]]
    /\ curr_cmd \in [Terminals -> Line]
    /\ line \in [Terminals -> Seq(Chars)]
    /\ \A t \in Terminals : Len(line[t]) <= BUFFER_LIMIT
    /\ log \in [Terminals -> Seq(Line)]
    /\ mixed \subseteq Terminals

(* What Push, Continue and Pop do to the handlers.                         *)
Pushed(h, key, pc, i, slot) ==
    /\ frames' \in [Handlers -> Frame]
    /\ \A g \in Handlers : g # h => frames'[g] = frames[g]
    /\ frames'[h].key = key /\ frames'[h].term = curr_terminal
    /\ frames'[h].pc = pc /\ frames'[h].i = i /\ frames'[h].slot = slot

Continued(h, pc, i) ==
    /\ frames' \in [Handlers -> Frame]
    /\ \A g \in Handlers : g # h => frames'[g] = frames[g]
    /\ frames'[h].key = frames[h].key /\ frames'[h].term = frames[h].term
    /\ frames'[h].pc = pc /\ frames'[h].i = i /\ frames'[h].slot = frames[h].slot

Popped(h) ==
    /\ frames' \in [Handlers -> Frame]
    /\ \A g \in Handlers : g # h => frames'[g] = frames[g]
    /\ frames'[h].pc = "none" /\ frames'[h].key = "none"

LEMMA PushIs ==
    ASSUME FramesOK, NEW h \in Handlers, NEW s \in Stacks,
           NEW key \in Keys \cup {"up", "down"}, NEW pc \in {"cmd", "erase"},
           NEW i \in Nat, NEW slot \in Int, Push(h, s, key, pc, i, slot)
    PROVE  Pushed(h, key, pc, i, slot)
<1> DEFINE under == {g \in Handlers : frames[g].stack = s}
           new == [key |-> key, term |-> curr_terminal, pc |-> pc, i |-> i,
                   slot |-> slot, stack |-> s, under |-> under]
<1>1. frames \in [Handlers -> Frame] /\ curr_terminal \in Terminals /\ under \in SUBSET Handlers
  BY Zenon DEF FramesOK
<1>2. frames' = [frames EXCEPT ![h] = new]
  BY Zenon DEF Push
<1> HIDE DEF under
<1>3. new \in Frame
  BY <1>1, Zenon DEF Frame, Keys
<1>4. /\ new.key = key /\ new.term = curr_terminal /\ new.pc = pc
      /\ new.i = i /\ new.slot = slot
  BY Zenon
<1> HIDE DEF new
<1>5. frames' \in [Handlers -> Frame]
  BY <1>1, <1>2, <1>3, Zenon
<1>6. frames'[h] = new /\ \A g \in Handlers : g # h => frames'[g] = frames[g]
  BY <1>1, <1>2, Zenon
<1> QED
  BY <1>4, <1>5, <1>6, Zenon DEF Pushed

LEMMA ContinueIs ==
    ASSUME FramesOK, NEW h \in Handlers,
           NEW pc \in {"modified", "erase", "type", "copy", "index"},
           NEW i \in Nat, Continue(h, pc, i)
    PROVE  Continued(h, pc, i)
<1> DEFINE f == frames[h]
           new == [key |-> f.key, term |-> f.term, pc |-> pc, i |-> i,
                   slot |-> f.slot, stack |-> f.stack, under |-> f.under]
<1>1. frames \in [Handlers -> Frame] /\ f \in Frame
  BY Zenon DEF FramesOK
<1>2. frames' = [frames EXCEPT ![h] = new]
  BY Zenon DEF Continue
<1> HIDE DEF f
<1>3. new \in Frame
  <2>1. /\ f.key \in Chars \cup {Backspace, "up", "down", "none"}
        /\ f.term \in Terminals /\ f.slot \in Int
        /\ f.stack \in Stacks \cup {"none"} /\ f.under \in SUBSET Handlers
    BY <1>1, Zenon DEF Frame
  <2> QED
    BY <2>1, Zenon DEF Frame
<1>4. /\ new.key = f.key /\ new.term = f.term /\ new.pc = pc
      /\ new.i = i /\ new.slot = f.slot
  BY Zenon
<1> HIDE DEF new
<1>5. frames' \in [Handlers -> Frame]
  BY <1>1, <1>2, <1>3, Zenon
<1>6. frames'[h] = new /\ \A g \in Handlers : g # h => frames'[g] = frames[g]
  BY <1>1, <1>2, Zenon
<1> QED
  BY <1>4, <1>5, <1>6, Zenon DEF Continued, f

LEMMA PopIs ==
    ASSUME FramesOK, NEW h \in Handlers, Pop(h)
    PROVE  Popped(h)
<1>1. frames' = [frames EXCEPT ![h] = Idle] /\ frames \in [Handlers -> Frame]
  BY Zenon DEF Pop, FramesOK
<1>2. Idle \in Frame /\ Idle.pc = "none" /\ Idle.key = "none"
  BY IdleIsFrame, Zenon DEF Idle
<1> HIDE DEF Idle
<1> QED
  BY <1>1, <1>2, Zenon DEF Popped

(* The handlers stay well-formed.                                          *)
LEMMA PushedOK ==
    ASSUME FramesOK, UNCHANGED curr_terminal, NEW h \in Handlers, NEW key, NEW pc, NEW i,
           NEW slot, Pushed(h, key, pc, i, slot),
           \/ key \in Keys /\ pc = "cmd"
           \/ key \in {"up", "down"} /\ pc = "erase" /\ slot \in Slots
    PROVE  FramesOK'
<1>1. FrameOK(frames'[h])
  BY HistoryAssumption, Zenon DEF Pushed, FrameOK, Keys, IsArrow, InArrow, Backspace
<1>2. \A g \in Handlers : g # h => FrameOK(frames'[g])
  BY Zenon DEF Pushed, FramesOK
<1> QED
  BY <1>1, <1>2, Zenon DEF Pushed, FramesOK

LEMMA ContinuedOK ==
    ASSUME FramesOK, UNCHANGED curr_terminal, NEW h \in Handlers, NEW pc, NEW i,
           Continued(h, pc, i),
           \/ frames[h].pc = "cmd" /\ pc = "modified"
           \/ InArrow(frames[h].pc) /\ InArrow(pc)
    PROVE  FramesOK'
<1>1. FrameOK(frames'[h])
  BY Zenon DEF Continued, FramesOK, FrameOK, IsArrow, InArrow
<1>2. \A g \in Handlers : g # h => FrameOK(frames'[g])
  BY Zenon DEF Continued, FramesOK
<1> QED
  BY <1>1, <1>2, Zenon DEF Continued, FramesOK

LEMMA PoppedOK ==
    ASSUME FramesOK, UNCHANGED curr_terminal, NEW h \in Handlers, Popped(h)
    PROVE  FramesOK'
<1>1. FrameOK(frames'[h])
  BY Zenon DEF Popped, FrameOK, IsArrow, InArrow
<1>2. \A g \in Handlers : g # h => FrameOK(frames'[g])
  BY Zenon DEF Popped, FramesOK
<1> QED
  BY <1>1, <1>2, Zenon DEF Popped, FramesOK

(* The buffers keep their types.                                           *)
LEMMA FrameFields ==
    ASSUME FramesOK, NEW h \in Handlers
    PROVE  /\ frames[h].term \in Terminals /\ frames[h].i \in Nat
           /\ frames[h].pc \in {"none", "cmd", "modified", "erase", "type", "copy", "index"}
           /\ FrameOK(frames[h])
<1>1. frames[h] \in Frame
  BY Zenon DEF FramesOK
<1> QED
  BY <1>1, Zenon DEF FramesOK, Frame

LEMMA LineTyped ==
    ASSUME FramesOK, BuffersOK, NEW c \in Keys, PutChar(c)
    PROVE  /\ line' \in [Terminals -> Seq(Chars)]
           /\ \A t \in Terminals : Len(line'[t]) <= BUFFER_LIMIT
<1> DEFINE t == curr_terminal
           l == Put(line[t], c)
<1>1. t \in Terminals /\ line \in [Terminals -> Seq(Chars)] /\ Len(line[t]) <= BUFFER_LIMIT
      /\ \A u \in Terminals : Len(line[u]) <= BUFFER_LIMIT
  BY Zenon DEF FramesOK, BuffersOK
<1>2. l \in Seq(Chars) /\ Len(l) <= BUFFER_LIMIT
  BY <1>1, PutIn, Zenon DEF Keys
<1>3. line' = [line EXCEPT ![t] = l]
  BY Zenon DEF PutChar
<1> HIDE DEF t, l
<1> QED
  BY <1>1, <1>2, <1>3, Zenon

LEMMA SourceKey ==
    ASSUME FramesOK, BuffersOK, NEW h \in Handlers, InArrow(frames[h].pc)
    PROVE  Source(h) \in Line /\ \A k \in 1 .. Len(Source(h)) : Source(h)[k] \in Keys
<1>1. frames[h].term \in Terminals /\ frames[h].slot \in Slots
  BY FrameFields, Zenon DEF FrameOK
<1>2. Source(h) \in Line
  BY <1>1, Zenon DEF Source, BuffersOK
<1> QED
  BY <1>2 DEF Line, Keys

LEMMA MixedTyped ==
    ASSUME FramesOK, BuffersOK, NEW t \in Terminals,
           \/ Mixes(t)
           \/ \E h \in Handlers : Stray(h)
           \/ mixed' \in {mixed, mixed \cup {t}, mixed \ {t}}
    PROVE  mixed' \subseteq Terminals
<1>1. mixed \subseteq Terminals /\ curr_terminal \in Terminals
      /\ \A h \in Handlers : frames[h].term \in Terminals
  BY FrameFields, Zenon DEF FramesOK, BuffersOK
<1> QED
  BY <1>1, Zenon DEF Mixes, Stray

LEMMA Emptied ==
    ASSUME BuffersOK, NEW t \in Terminals, line' = [line EXCEPT ![t] = <<>>]
    PROVE  /\ line' \in [Terminals -> Seq(Chars)]
           /\ \A u \in Terminals : Len(line'[u]) <= BUFFER_LIMIT
<1>1. <<>> \in Seq(Chars) /\ Len(<<>>) <= BUFFER_LIMIT
  BY HistoryAssumption
<1> QED
  BY <1>1, Zenon DEF BuffersOK

LEMMA LatestTyped ==
    ASSUME NEW S, NEW s \in Seq(S), NEW x \in S
    PROVE  Latest(Append(s, x)) \in Seq(S)
<1> DEFINE r == Append(s, x)
<1>1. r \in Seq(S) /\ Len(r) = Len(s) + 1
  BY AppendIs, Zenon
<1> HIDE DEF r
<1>2. Latest(r) \in Seq(S)
  BY <1>1, HistoryAssumption DEF Latest
<1> QED
  BY <1>2, Zenon DEF r

LEMMA EnterTyped ==
    ASSUME FramesOK, BuffersOK, num_hist \in [Terminals -> Nat], KeyEnter
    PROVE  BuffersOK'
<1> DEFINE t == curr_terminal
           num == num_hist[t] + 1
           saved == [hist[t] EXCEPT ![Slot(num_hist[t])] = curr_cmd[t]]
           kept == [saved EXCEPT ![Slot(num)] = <<>>]
           new == Append(log[t], curr_cmd[t])
<1>1. t \in Terminals /\ num_hist[t] \in Int /\ num \in Int
  BY DEF FramesOK
<1>2. Slot(num_hist[t]) \in Slots /\ Slot(num) \in Slots
  BY <1>1, SlotIn, Zenon
<1>3. /\ hist' = [hist EXCEPT ![t] = kept]
      /\ modified_hist' = [modified_hist EXCEPT ![t] = kept]
      /\ curr_cmd' = [curr_cmd EXCEPT ![t] = <<>>]
      /\ line' = [line EXCEPT ![t] = <<>>]
      /\ log' = [log EXCEPT ![t] = Latest(new)]
      /\ mixed' = IF Busy(t) THEN mixed \cup {t} ELSE mixed \ {t}
  BY Zenon DEF KeyEnter
<1>4. hist[t] \in [Slots -> Line] /\ curr_cmd[t] \in Line /\ log[t] \in Seq(Line)
  BY <1>1, Zenon DEF BuffersOK
<1>5. <<>> \in Line
  BY DEF Line
<1>6. kept \in [Slots -> Line]
  <2>1. saved \in [Slots -> Line]
    BY <1>2, <1>4, Zenon
  <2> HIDE DEF saved
  <2> QED
    BY <1>2, <1>5, <2>1, Zenon
<1>7. Latest(new) \in Seq(Line)
  BY <1>4, LatestTyped, Zenon
<1>8. mixed' \subseteq Terminals
  <2>1. mixed' \in {mixed, mixed \cup {t}, mixed \ {t}}
    BY <1>3, Zenon
  <2> QED
    BY <1>1, <2>1, MixedTyped, Zenon
<1>9. /\ line' \in [Terminals -> Seq(Chars)]
      /\ \A u \in Terminals : Len(line'[u]) <= BUFFER_LIMIT
  <2>1. line' = [line EXCEPT ![t] = <<>>]
    BY <1>3, Zenon
  <2> QED
    BY <1>1, <2>1, Emptied, Zenon
<1> DEFINE last == Latest(new)
<1> HIDE DEF t, kept, last
<1>10. /\ hist' \in [Terminals -> [Slots -> Line]]
       /\ modified_hist' \in [Terminals -> [Slots -> Line]]
  BY <1>1, <1>3, <1>6, Zenon DEF BuffersOK
<1>11. curr_cmd' \in [Terminals -> Line]
  BY <1>1, <1>3, <1>5, Zenon DEF BuffersOK
<1>12. log' \in [Terminals -> Seq(Line)]
  BY <1>1, <1>3, <1>7, Zenon DEF BuffersOK, last
<1> QED
  BY <1>8, <1>9, <1>10, <1>11, <1>12, Zenon DEF BuffersOK

LEMMA CharTyped ==
    ASSUME FramesOK, BuffersOK, NEW h \in Handlers, NEW s \in Stacks, NEW c \in Keys,
           KeyChar(h, s, c)
    PROVE  FramesOK' /\ BuffersOK' /\ Pushed(h, c, "cmd", 0, 0)
<1>1. PutChar(c) /\ Push(h, s, c, "cmd", 0, 0) /\ Mixes(curr_terminal)
      /\ UNCHANGED <<curr_terminal, hist, modified_hist, curr_cmd, log>>
  BY Zenon DEF KeyChar, buffers
<1>2. Pushed(h, c, "cmd", 0, 0)
  BY <1>1, PushIs
<1>3. FramesOK'
  BY <1>1, <1>2, PushedOK, Zenon
<1>4. mixed' \subseteq Terminals
  BY <1>1, MixedTyped, Zenon DEF FramesOK
<1> QED
  BY <1>1, <1>2, <1>3, <1>4, LineTyped, Zenon DEF BuffersOK

LEMMA RecallTyped ==
    ASSUME FramesOK, BuffersOK, NEW h \in Handlers, NEW s \in Stacks,
           NEW key \in {"up", "down"}, NEW to \in Int, Recall(h, s, key, to)
    PROVE  FramesOK' /\ BuffersOK' /\ Pushed(h, key, "erase", 1, Slot(to))
<1>1. PutChar(Backspace) /\ Push(h, s, key, "erase", 1, Slot(to)) /\ Mixes(curr_terminal)
      /\ UNCHANGED <<curr_terminal, hist, modified_hist, curr_cmd, log>>
  BY Zenon DEF Recall, buffers
<1>2. Slot(to) \in Slots /\ Slot(to) \in Int
  BY SlotIn DEF Slots
<1>3. Pushed(h, key, "erase", 1, Slot(to))
  BY <1>1, <1>2, PushIs, Zenon
<1>4. FramesOK'
  BY <1>1, <1>2, <1>3, PushedOK, Zenon
<1>5. mixed' \subseteq Terminals
  BY <1>1, MixedTyped, Zenon DEF FramesOK
<1>6. Backspace \in Keys
  BY Zenon DEF Keys
<1> QED
  BY <1>1, <1>3, <1>4, <1>5, <1>6, LineTyped, Zenon DEF BuffersOK

LEMMA AppendCmdTyped ==
    ASSUME FramesOK, BuffersOK, NEW h \in Handlers, AppendCmd(h)
    PROVE  FramesOK' /\ BuffersOK' /\ Continued(h, "modified", 0)
<1> DEFINE t == frames[h].term
           cmd == Append(curr_cmd[t], frames[h].key)
<1>1. Continue(h, "modified", 0) /\ frames[h].pc = "cmd"
      /\ curr_cmd' = [curr_cmd EXCEPT ![t] = cmd]
      /\ UNCHANGED <<curr_terminal, hist, modified_hist, line, log, mixed>>
  BY Zenon DEF AppendCmd, Running, ghosts
<1>2. Continued(h, "modified", 0)
  BY <1>1, ContinueIs, Zenon
<1>3. FramesOK'
  BY <1>1, <1>2, ContinuedOK, Zenon
<1>4. t \in Terminals /\ frames[h].key \in Keys
  BY <1>1, FrameFields, Zenon DEF FrameOK
<1>5. cmd \in Line
  BY <1>4 DEF BuffersOK, Line, Keys
<1> HIDE DEF t, cmd
<1> QED
  BY <1>1, <1>2, <1>3, <1>4, <1>5, Zenon DEF BuffersOK

LEMMA AppendModifiedTyped ==
    ASSUME IInv, FramesOK, BuffersOK, NEW h \in Handlers, AppendModified(h)
    PROVE  FramesOK' /\ BuffersOK' /\ Popped(h)
<1> DEFINE t == frames[h].term
           k == Edited(t)
           cmd == Append(modified_hist[t][k], frames[h].key)
           ring == [modified_hist[t] EXCEPT ![k] = cmd]
<1>1. Pop(h) /\ frames[h].pc = "modified"
      /\ modified_hist' = [modified_hist EXCEPT ![t] = ring]
      /\ UNCHANGED <<curr_terminal, hist, curr_cmd, line, log, mixed>>
  BY Zenon DEF AppendModified, Running, ghosts
<1>2. Popped(h)
  BY <1>1, PopIs, Zenon
<1>3. FramesOK'
  BY <1>1, <1>2, PoppedOK, Zenon
<1>4. t \in Terminals /\ frames[h].key \in Keys
  BY <1>1, FrameFields, Zenon DEF FrameOK
<1>5. k \in Slots
  <2>1. curr_hist[t] \in Int
    BY <1>4, Zenon DEF IInv, Control
  <2> QED
    BY <2>1, SlotIn, Zenon DEF Edited
<1>6. modified_hist[t] \in [Slots -> Line] /\ modified_hist[t][k] \in Line
  BY <1>4, <1>5, Zenon DEF BuffersOK
<1>7. cmd \in Line
  BY <1>4, <1>6 DEF Line, Keys
<1> HIDE DEF t, k, cmd
<1>8. ring \in [Slots -> Line]
  BY <1>5, <1>6, <1>7, Zenon
<1> HIDE DEF ring
<1> QED
  BY <1>1, <1>2, <1>3, <1>4, <1>8, Zenon DEF BuffersOK

LEMMA EraseTyped ==
    ASSUME FramesOK, BuffersOK, NEW h \in Handlers, Erase(h)
    PROVE  FramesOK' /\ BuffersOK' /\ Continued(h, "erase", frames[h].i + 1)
<1>1. Continue(h, "erase", frames[h].i + 1) /\ frames[h].pc = "erase" /\ PutChar(Backspace)
      /\ Stray(h) /\ UNCHANGED <<curr_terminal, hist, modified_hist, curr_cmd, log>>
  BY Zenon DEF Erase, Running, buffers
<1>2. frames[h].i + 1 \in Nat /\ InArrow("erase") /\ Backspace \in Keys
  BY FrameFields DEF InArrow, Keys
<1>3. Continued(h, "erase", frames[h].i + 1)
  BY <1>1, <1>2, ContinueIs, Zenon
<1>4. FramesOK'
  BY <1>1, <1>2, <1>3, ContinuedOK, Zenon
<1>5. mixed' \subseteq Terminals
  BY <1>1, MixedTyped, Zenon DEF FramesOK
<1> QED
  BY <1>1, <1>2, <1>3, <1>4, <1>5, LineTyped, Zenon DEF BuffersOK

LEMMA TypeTyped ==
    ASSUME FramesOK, BuffersOK, NEW h \in Handlers, Type(h)
    PROVE  FramesOK' /\ BuffersOK' /\ Continued(h, "type", frames[h].i + 1)
           /\ Source(h)[frames[h].i + 1] \in Keys
<1> DEFINE c == Source(h)[frames[h].i + 1]
<1>1. Continue(h, "type", frames[h].i + 1) /\ frames[h].pc = "type"
      /\ frames[h].i < Len(Source(h)) /\ PutChar(c)
      /\ Stray(h) /\ UNCHANGED <<curr_terminal, hist, modified_hist, curr_cmd, log>>
  BY Zenon DEF Type, Running, buffers
<1>2. frames[h].i + 1 \in Nat /\ frames[h].i \in Nat /\ InArrow(frames[h].pc) /\ InArrow("type")
  BY <1>1, FrameFields DEF InArrow
<1>3. c \in Keys
  <2>1. Len(Source(h)) \in Nat /\ \A k \in 1 .. Len(Source(h)) : Source(h)[k] \in Keys
    BY <1>2, SourceKey DEF Line
  <2> QED
    BY <1>1, <1>2, <2>1
<1> HIDE DEF c
<1>4. Continued(h, "type", frames[h].i + 1)
  BY <1>1, <1>2, ContinueIs, Zenon
<1>5. FramesOK'
  BY <1>1, <1>2, <1>4, ContinuedOK, Zenon
<1>6. mixed' \subseteq Terminals
  BY <1>1, MixedTyped, Zenon DEF FramesOK
<1> QED
  BY <1>1, <1>3, <1>4, <1>5, <1>6, LineTyped, Zenon DEF BuffersOK, c

LEMMA PhaseTyped ==
    ASSUME FramesOK, BuffersOK, NEW h \in Handlers, Erased(h) \/ Typed(h)
    PROVE  /\ FramesOK' /\ BuffersOK'
           /\ Erased(h) => Continued(h, "type", 0)
           /\ Typed(h) => Continued(h, "copy", 0)
<1>1. \/ Continue(h, "type", 0) /\ frames[h].pc = "erase"
      \/ Continue(h, "copy", 0) /\ frames[h].pc = "type"
  BY Zenon DEF Erased, Typed, Running
<1>2. UNCHANGED <<curr_terminal, hist, modified_hist, curr_cmd, line, log, mixed>>
  BY Zenon DEF Erased, Typed, buffers, ghosts
<1>3. InArrow(frames[h].pc) /\ InArrow("type") /\ InArrow("copy")
  BY <1>1, Zenon DEF InArrow
<1>4. FramesOK'
  BY <1>1, <1>2, <1>3, ContinueIs, ContinuedOK, Zenon
<1>5. (Erased(h) => Continued(h, "type", 0)) /\ (Typed(h) => Continued(h, "copy", 0))
  BY ContinueIs, Zenon DEF Erased, Typed
<1> QED
  BY <1>2, <1>4, <1>5, Zenon DEF BuffersOK

LEMMA CopyCmdTyped ==
    ASSUME IInv, FramesOK, BuffersOK, NEW h \in Handlers, CopyCmd(h)
    PROVE  FramesOK' /\ BuffersOK' /\ Continued(h, "index", 0)
<1> DEFINE t == frames[h].term
           cmd == Recalled(t, curr_hist[t] + Step(h))
<1>1. Continue(h, "index", 0) /\ frames[h].pc = "copy"
      /\ curr_cmd' = [curr_cmd EXCEPT ![t] = cmd]
      /\ UNCHANGED <<curr_terminal, hist, modified_hist, line, log, mixed>>
  BY Zenon DEF CopyCmd, Running, ghosts
<1>2. Continued(h, "index", 0)
  BY <1>1, ContinueIs, Zenon
<1>3. FramesOK'
  BY <1>1, <1>2, ContinuedOK, Zenon DEF InArrow
<1>4. t \in Terminals
  BY FrameFields, Zenon
<1>5. cmd \in Line
  <2>1. curr_hist[t] + Step(h) \in Int
    BY <1>4 DEF IInv, Control, Step
  <2>2. Slot(curr_hist[t] + Step(h)) \in Slots
    BY <2>1, SlotIn, Zenon
  <2> QED
    BY <1>4, <2>2, Zenon DEF BuffersOK, Recalled
<1> HIDE DEF t, cmd
<1> QED
  BY <1>1, <1>2, <1>3, <1>4, <1>5, Zenon DEF BuffersOK

LEMMA TypesStep ==
    ASSUME IInv, FramesOK, BuffersOK, [Next]_vars
    PROVE  FramesOK' /\ BuffersOK'
<1>1. ASSUME NEW h \in Handlers, NEW s \in Stacks, NEW c \in Chars \cup {Backspace},
             KeyChar(h, s, c)
      PROVE  FramesOK' /\ BuffersOK'
  BY <1>1, CharTyped, Zenon DEF Keys
<1>2. ASSUME NEW h \in Handlers, NEW s \in Stacks, KeyUp(h, s) \/ KeyDown(h, s)
      PROVE  FramesOK' /\ BuffersOK'
  <2>1. curr_hist[curr_terminal] \in Int
    BY Zenon DEF FramesOK, IInv, Control
  <2>2. \/ Recall(h, s, "up", curr_hist[curr_terminal] - 1)
        \/ Recall(h, s, "down", curr_hist[curr_terminal] + 1)
    BY <1>2, Zenon DEF KeyUp, KeyDown
  <2> QED
    BY <2>1, <2>2, RecallTyped
<1>3. ASSUME NEW h \in Handlers, AppendCmd(h) \/ AppendModified(h)
      PROVE  FramesOK' /\ BuffersOK'
  BY <1>3, AppendCmdTyped, AppendModifiedTyped, Zenon
<1>4. ASSUME NEW h \in Handlers, Erase(h) \/ Erased(h) \/ Type(h) \/ Typed(h) \/ CopyCmd(h)
      PROVE  FramesOK' /\ BuffersOK'
  BY <1>4, EraseTyped, TypeTyped, PhaseTyped, CopyCmdTyped, Zenon
<1>5. ASSUME NEW h \in Handlers, MoveIndex(h)
      PROVE  FramesOK' /\ BuffersOK'
  <2>1. Pop(h) /\ UNCHANGED <<curr_terminal, hist, modified_hist, curr_cmd, line, log, mixed>>
    BY <1>5, Zenon DEF MoveIndex, buffers, ghosts
  <2> QED
    BY <2>1, PopIs, PoppedOK, Zenon DEF BuffersOK
<1>6. ASSUME KeyEnter PROVE FramesOK' /\ BuffersOK'
  <2>1. UNCHANGED <<curr_terminal, frames>>
    BY <1>6, Zenon DEF KeyEnter
  <2>2. num_hist \in [Terminals -> Nat]
    BY Zenon DEF IInv, Control
  <2> QED
    BY <1>6, <2>1, <2>2, EnterTyped, Zenon DEF FramesOK
<1>7. ASSUME NEW t \in Terminals, line' = [line EXCEPT ![t] = <<>>],
             Mixes(t) \/ mixed' = mixed \cup {t},
             UNCHANGED <<curr_terminal, hist, modified_hist, curr_cmd, frames, log>>
      PROVE  FramesOK' /\ BuffersOK'
  <2>1. mixed' \subseteq Terminals
    BY <1>7, MixedTyped, Zenon
  <2>2. line' \in [Terminals -> Seq(Chars)]
        /\ \A u \in Terminals : Len(line'[u]) <= BUFFER_LIMIT
    BY <1>7, Emptied, Zenon
  <2> QED
    BY <1>7, <2>1, <2>2, Zenon DEF FramesOK, BuffersOK
<1>8. ASSUME KeyEnterNothing PROVE FramesOK' /\ BuffersOK'
  <2>1. curr_terminal \in Terminals
    BY Zenon DEF FramesOK
  <2>2. /\ line' = [line EXCEPT ![curr_terminal] = <<>>] /\ Mixes(curr_terminal)
        /\ UNCHANGED <<curr_terminal, hist, modified_hist, curr_cmd, frames, log>>
    BY <1>8, Zenon DEF KeyEnterNothing, buffers
  <2> QED
    BY <1>7, <2>1, <2>2, Zenon
<1>9. ASSUME NEW t \in Terminals, KeySwitch(t) PROVE FramesOK' /\ BuffersOK'
  BY <1>9, Zenon DEF KeySwitch, FramesOK, BuffersOK, buffers, ghosts
<1>10. ASSUME NEW t \in Terminals, EmptyLine(t) PROVE FramesOK' /\ BuffersOK'
  <2>1. /\ line' = [line EXCEPT ![t] = <<>>] /\ mixed' = mixed \cup {t}
        /\ UNCHANGED <<curr_terminal, hist, modified_hist, curr_cmd, frames, log>>
    BY <1>10, Zenon DEF EmptyLine, buffers
  <2> QED
    BY <1>7, <2>1, Zenon
<1>11. ASSUME UNCHANGED vars PROVE FramesOK' /\ BuffersOK'
  BY <1>11, Zenon DEF vars, FramesOK, BuffersOK, buffers, ghosts
<1> QED
  BY <1>1, <1>2, <1>3, <1>4, <1>5, <1>6, <1>8, <1>9, <1>10, <1>11, Zenon DEF Next

-----------------------------------------------------------------------------
(* The ring.  As long as no line has been dropped the log may be shorter   *)
(* than MAXHIST; after that it is full.                                    *)
RingIs(n, m, ring, last) ==
    /\ n - m = Len(last) /\ Len(last) <= MAXHIST
    /\ m > 0 => Len(last) = MAXHIST
    /\ \A k \in 1 .. Len(last) : ring[Slot(m + k - 1)] = last[k]
    /\ ring[Slot(n)] = <<>>

RingOf(t) == RingIs(num_hist[t], min_hist[t], hist[t], log[t])

Ring == \A t \in Terminals : RingOf(t)

(* A ring with a line saved in the slot of n, the next slot being emptied: *)
(* the slots of the MAXHIST - 1 lines before n keep theirs.                *)
Saved(ring, n, x) == [[ring EXCEPT ![Slot(n)] = x] EXCEPT ![Slot(n + 1)] = <<>>]

Keeps(kept, ring, n, x) ==
    /\ kept[Slot(n + 1)] = <<>>
    /\ MAXHIST > 0 => kept[Slot(n)] = x
    /\ \A a \in Nat : a < n /\ n + 1 - a <= MAXHIST => kept[Slot(a)] = ring[Slot(a)]

LEMMA SavedIs ==
    ASSUME NEW ring \in [Slots -> Line], NEW n \in Nat, NEW x \in Line
    PROVE  Keeps(Saved(ring, n, x), ring, n, x)
<1> DEFINE saved == [ring EXCEPT ![Slot(n)] = x]
           kept == Saved(ring, n, x)
<1>1. Slot(n) \in Slots /\ Slot(n + 1) \in Slots /\ MAXHIST \in Nat /\ <<>> \in Line
  BY SlotIn, HistoryAssumption DEF Line
<1>2. saved \in [Slots -> Line] /\ saved[Slot(n)] = x
      /\ \A k \in Slots : k # Slot(n) => saved[k] = ring[k]
  BY <1>1, Zenon
<1>3. kept = [saved EXCEPT ![Slot(n + 1)] = <<>>]
  BY Zenon DEF Saved
<1> HIDE DEF saved, kept
<1>4. kept[Slot(n + 1)] = <<>> /\ \A k \in Slots : k # Slot(n + 1) => kept[k] = saved[k]
  BY <1>1, <1>2, <1>3, Zenon
<1>5. MAXHIST > 0 => Slot(n) # Slot(n + 1)
  BY <1>1, SlotApart
<1>6. ASSUME NEW a \in Nat, a < n, n + 1 - a <= MAXHIST
      PROVE  kept[Slot(a)] = ring[Slot(a)]
  <2>1. Slot(a) # Slot(n) /\ Slot(a) # Slot(n + 1)
    BY <1>1, <1>6, SlotApart
  <2>2. Slot(a) \in Slots
    BY SlotIn
  <2> QED
    BY <1>2, <1>4, <2>1, <2>2, Zenon
<1>7. MAXHIST > 0 => kept[Slot(n)] = x
  BY <1>1, <1>2, <1>4, <1>5, Zenon
<1> QED
  BY <1>4, <1>6, <1>7, Zenon DEF Keeps, kept

(* Enter on the terminal t, whose ring, log and indexes are given.         *)
LEMMA EnterRing ==
    ASSUME NEW n \in Nat, NEW m \in Nat, NEW ring \in [Slots -> Line], NEW c \in Line,
           NEW last \in Seq(Line), NEW kept, RingIs(n, m, ring, last), Keeps(kept, ring, n, c)
    PROVE  RingIs(n + 1, Oldest(n + 1, m), kept, Latest(Append(last, c)))
<1> DEFINE all == Append(last, c)
           new == Latest(all)
<1>1. /\ n - m = Len(last) /\ Len(last) <= MAXHIST
      /\ m > 0 => Len(last) = MAXHIST
      /\ \A k \in 1 .. Len(last) : ring[Slot(m + k - 1)] = last[k]
  BY Zenon DEF RingIs
<1>2. MAXHIST \in Nat /\ Len(last) \in Nat /\ <<>> \in Line
  BY HistoryAssumption DEF Line
<1>3. /\ all \in Seq(Line) /\ Len(all) = Len(last) + 1 /\ all[Len(last) + 1] = c
      /\ \A k \in 1 .. Len(last) : all[k] = last[k]
  BY AppendIs
<1>4. /\ kept[Slot(n + 1)] = <<>>
      /\ MAXHIST > 0 => kept[Slot(n)] = c
      /\ \A a \in Nat : a < n /\ n + 1 - a <= MAXHIST => kept[Slot(a)] = ring[Slot(a)]
  BY Zenon DEF Keeps
<1> SUFFICES RingIs(n + 1, Oldest(n + 1, m), kept, new)
  BY Zenon
<1> HIDE DEF all, new
<1>5. CASE Len(last) = MAXHIST
  <2>1. n + 1 > MAXHIST /\ Oldest(n + 1, m) = m + 1 /\ n = m + MAXHIST
    BY <1>1, <1>2, <1>5 DEF Oldest
  <2>2. Len(new) = MAXHIST /\ \A k \in 1 .. MAXHIST : new[k] = all[k + 1]
    BY <1>2, <1>3, <1>5, LatestIs, Zenon DEF new
  <2>3. ASSUME NEW k \in 1 .. MAXHIST PROVE kept[Slot(m + k)] = new[k]
    <3>1. CASE k = MAXHIST
      BY <1>2, <1>3, <1>4, <1>5, <2>1, <2>2, <3>1
    <3>2. CASE k < MAXHIST
      <4>1. m + k \in Nat /\ m + k < n /\ n + 1 - (m + k) <= MAXHIST
        BY <1>2, <2>1, <3>2
      <4>2. kept[Slot(m + k)] = ring[Slot(m + k)]
        BY <1>4, <4>1, Zenon
      <4>3. k + 1 \in 1 .. Len(last) /\ m + (k + 1) - 1 = m + k
        BY <1>2, <1>5, <3>2
      <4>4. ring[Slot(m + k)] = last[k + 1] /\ all[k + 1] = last[k + 1]
        BY <1>1, <1>3, <4>3, Zenon
      <4> QED
        BY <2>2, <4>2, <4>4, Zenon
    <3> QED
      BY <1>2, <3>1, <3>2
  <2>4. \A k \in 1 .. MAXHIST : m + 1 + k - 1 = m + k
    BY <1>2
  <2> QED
    <3>1. /\ (n + 1) - (m + 1) = Len(new) /\ Len(new) <= MAXHIST
          /\ m + 1 > 0 => Len(new) = MAXHIST
      BY <1>2, <2>1, <2>2
    <3>2. \A k \in 1 .. Len(new) : kept[Slot(m + 1 + k - 1)] = new[k]
      BY <2>2, <2>3, <2>4, Zenon
    <3>3. RingIs(n + 1, m + 1, kept, new)
      BY <1>4, <3>1, <3>2, Zenon DEF RingIs
    <3> QED
      BY <2>1, <3>3, Zenon
<1>6. CASE Len(last) < MAXHIST
  <2>1. m = 0 /\ n = Len(last) /\ ~(n + 1 > MAXHIST) /\ Oldest(n + 1, m) = 0
    BY <1>1, <1>2, <1>6 DEF Oldest
  <2>2. new = all
    BY <1>2, <1>3, <1>6 DEF Latest, new
  <2>3. ASSUME NEW k \in 1 .. n + 1 PROVE kept[Slot(k - 1)] = all[k]
    <3>1. CASE k = n + 1
      BY <1>2, <1>3, <1>4, <1>6, <2>1, <3>1
    <3>2. CASE k <= n
      <4>1. k - 1 \in Nat /\ k - 1 < n /\ n + 1 - (k - 1) <= MAXHIST + 1 /\ k \in 1 .. Len(last)
        BY <1>2, <2>1, <3>2, <1>6
      <4>2. n + 1 - (k - 1) <= MAXHIST
        BY <1>2, <1>6, <2>1, <3>2
      <4>3. kept[Slot(k - 1)] = ring[Slot(k - 1)]
        BY <1>4, <4>1, <4>2, Zenon
      <4>4. m + k - 1 = k - 1
        BY <2>1
      <4> QED
        BY <1>1, <1>3, <4>1, <4>3, <4>4, Zenon
    <3>3. k = n + 1 \/ k <= n
      BY <1>2
    <3> QED
      BY <3>1, <3>2, <3>3, Zenon
  <2>4. \A k \in 1 .. n + 1 : 0 + k - 1 = k - 1
    OBVIOUS
  <2> QED
    <3>1. /\ (n + 1) - 0 = Len(new) /\ Len(new) <= MAXHIST /\ Len(new) = n + 1
          /\ 0 > 0 => Len(new) = MAXHIST
      BY <1>2, <1>3, <1>6, <2>1, <2>2
    <3>2. \A k \in 1 .. n + 1 : kept[Slot(0 + k - 1)] = all[k]
      BY <2>3, <2>4, Zenon
    <3>3. \A k \in 1 .. Len(new) : kept[Slot(0 + k - 1)] = new[k]
      BY <2>2, <3>1, <3>2, Zenon
    <3>4. RingIs(n + 1, 0, kept, new)
      BY <1>4, <3>1, <3>3, Zenon DEF RingIs
    <3> QED
      BY <2>1, <3>4, Zenon
<1>7. Len(last) = MAXHIST \/ Len(last) < MAXHIST
  BY <1>1, <1>2
<1> QED
  BY <1>5, <1>6, <1>7, Zenon

LEMMA EnterKeepsRing ==
    ASSUME IInv, FramesOK, BuffersOK, Ring, NEW t \in Terminals, t = curr_terminal, KeyEnter
    PROVE  Ring'
<1> DEFINE n == num_hist[t]
           m == min_hist[t]
           kept == Saved(hist[t], n, curr_cmd[t])
           new == Latest(Append(log[t], curr_cmd[t]))
<1>1. t \in Terminals /\ n \in Nat /\ m \in Nat /\ hist[t] \in [Slots -> Line]
      /\ curr_cmd[t] \in Line /\ log[t] \in Seq(Line)
  BY Zenon DEF FramesOK, BuffersOK, IInv, Control
<1>2. /\ num_hist' = [num_hist EXCEPT ![t] = n + 1]
      /\ min_hist' = [min_hist EXCEPT ![t] = Oldest(n + 1, m)]
      /\ hist' = [hist EXCEPT ![t] = kept]
      /\ log' = [log EXCEPT ![t] = new]
  BY Zenon DEF KeyEnter, Saved
<1>3. RingOf(t)
  BY <1>1, Zenon DEF Ring
<1>4. Keeps(kept, hist[t], n, curr_cmd[t])
  BY <1>1, SavedIs, Zenon
<1>5. RingIs(n + 1, Oldest(n + 1, m), kept, new)
  BY <1>1, <1>3, <1>4, EnterRing, Zenon DEF RingOf
<1>6. /\ num_hist \in [Terminals -> Nat] /\ min_hist \in [Terminals -> Nat]
      /\ hist \in [Terminals -> [Slots -> Line]] /\ log \in [Terminals -> Seq(Line)]
  BY Zenon DEF BuffersOK, IInv, Control
<1> HIDE DEF n, m, kept, new
<1>7. num_hist'[t] = n + 1 /\ min_hist'[t] = Oldest(n + 1, m) /\ hist'[t] = kept /\ log'[t] = new
  BY <1>1, <1>2, <1>6, Zenon
<1>8. RingOf(t)'
  BY <1>5, <1>7, Zenon DEF RingOf
<1>9. ASSUME NEW u \in Terminals, u # t PROVE RingOf(u)'
  <2>1. /\ num_hist'[u] = num_hist[u] /\ min_hist'[u] = min_hist[u]
        /\ hist'[u] = hist[u] /\ log'[u] = log[u]
    BY <1>2, <1>6, <1>9, Zenon
  <2>2. RingOf(u)
    BY Zenon DEF Ring
  <2> QED
    BY <2>1, <2>2, Zenon DEF RingOf
<1> QED
  <2>1. \A u \in Terminals : RingOf(u)'
    <3> SUFFICES ASSUME NEW u \in Terminals PROVE RingOf(u)'
      BY Zenon
    <3>1. CASE u = t
      BY <1>8, <3>1, Zenon
    <3> QED
      BY <1>9, <3>1, Zenon
  <2> QED
    BY <2>1, Zenon DEF Ring

LEMMA RingStep ==
    ASSUME IInv, FramesOK, BuffersOK, Ring, [Next]_vars
    PROVE  Ring'
<1>1. CASE KeyEnter
  <2>1. curr_terminal \in Terminals
    BY Zenon DEF FramesOK
  <2> QED
    BY <1>1, <2>1, EnterKeepsRing, Zenon
<1>2. CASE UNCHANGED <<num_hist, min_hist, hist, log>>
  BY <1>2, Zenon DEF Ring, RingOf
<1>3. ASSUME NEW h \in Handlers, NEW s \in Stacks,
             \/ \E c \in Chars \cup {Backspace} : KeyChar(h, s, c)
             \/ KeyUp(h, s) \/ KeyDown(h, s)
      PROVE  UNCHANGED <<num_hist, min_hist, hist, log>>
  <2>1. UNCHANGED <<indexes, buffers, log>>
    BY <1>3, Zenon DEF KeyChar, KeyUp, KeyDown, Recall
  <2> QED
    BY <2>1, Zenon DEF indexes, buffers
<1>4. ASSUME NEW h \in Handlers,
             \/ AppendCmd(h) \/ AppendModified(h)
             \/ Erase(h) \/ Erased(h) \/ Type(h) \/ Typed(h) \/ CopyCmd(h) \/ MoveIndex(h)
      PROVE  UNCHANGED <<num_hist, min_hist, hist, log>>
  BY <1>4, Zenon DEF AppendCmd, AppendModified, Erase, Erased, Type, Typed, CopyCmd, MoveIndex,
     indexes, buffers, ghosts
<1>5. ASSUME KeyEnterNothing \/ (\E t \in Terminals : KeySwitch(t) \/ EmptyLine(t)) \/ UNCHANGED vars
      PROVE  UNCHANGED <<num_hist, min_hist, hist, log>>
  BY <1>5, Zenon DEF KeyEnterNothing, KeySwitch, EmptyLine, vars, indexes, buffers, ghosts
<1> QED
  BY <1>1, <1>2, <1>3, <1>4, <1>5, Zenon DEF Next

LEMMA InitOK == Init => IInv /\ FramesOK /\ BuffersOK /\ Ring
<1> SUFFICES ASSUME Init PROVE IInv /\ FramesOK /\ BuffersOK /\ Ring
  BY Zenon
<1>1. IInv
  BY InitIInv, Zenon
<1>2. frames \in [Handlers -> Frame] /\ (\A h \in Handlers : frames[h] = Idle)
      /\ curr_terminal \in Terminals
  BY IdleIsFrame, HistoryAssumption, Zenon DEF Init
<1>3. FrameOK(Idle)
  BY Zenon DEF FrameOK, Idle, IsArrow, InArrow
<1>4. FramesOK
  BY <1>2, <1>3, Zenon DEF FramesOK
<1>5. <<>> \in Line /\ <<>> \in Seq(Chars) /\ <<>> \in Seq(Line) /\ Len(<<>>) = 0
      /\ BUFFER_LIMIT \in Nat /\ MAXHIST \in Nat
  BY HistoryAssumption DEF Line
<1>6. /\ hist = [t \in Terminals |-> [k \in Slots |-> <<>>]] /\ modified_hist = hist
      /\ curr_cmd = [t \in Terminals |-> <<>>] /\ line = curr_cmd
      /\ log = [t \in Terminals |-> <<>>] /\ mixed = {}
      /\ num_hist = [t \in Terminals |-> 0] /\ min_hist = [t \in Terminals |-> 0]
  BY Zenon DEF Init
<1>7. BuffersOK
  BY <1>5, <1>6 DEF BuffersOK
<1>8. ASSUME NEW t \in Terminals PROVE RingOf(t)
  <2>1. num_hist[t] = 0 /\ min_hist[t] = 0 /\ log[t] = <<>> /\ hist[t] = [k \in Slots |-> <<>>]
    BY <1>6, Zenon
  <2>2. Slot(0) \in Slots
    BY SlotIn
  <2>3. hist[t][Slot(0)] = <<>>
    BY <2>1, <2>2, Zenon
  <2> QED
    BY <1>5, <2>1, <2>3 DEF RingOf, RingIs
<1> QED
  BY <1>1, <1>4, <1>7, <1>8, Zenon DEF Ring

(* The ring of each terminal holds the lines saved last, each in its slot, *)
(* the slot of the line being typed is empty, and every variable keeps its *)
(* type: for every number of terminals, stacks and handlers and every size *)
(* of the ring, however the handlers of keyboard_int interrupt each other. *)
THEOREM HistoryKeepsLines ==
    Spec => []RingHoldsLast
<1> DEFINE Inv == IInv /\ FramesOK /\ BuffersOK /\ Ring
<1>1. Init => Inv
  BY InitOK, Zenon
<1>2. Inv /\ [Next]_vars => Inv'
  BY Inductive, TypesStep, RingStep, Zenon
<1>3. Inv => RingHoldsLast
  <2> SUFFICES ASSUME Inv PROVE RingHoldsLast
    BY Zenon
  <2>1. TypeOK
    BY Zenon DEF IInv, Control, FramesOK, FrameOK, IsArrow, InArrow, BuffersOK, TypeOK
  <2> QED
    BY <2>1, Zenon DEF Ring, RingOf, RingIs, RingHoldsLast
<1> QED
  BY <1>1, <1>2, <1>3, PTL DEF Spec

-----------------------------------------------------------------------------
(* Played is what its definition says, and what one more key adds to it.   *)
Buffer == {l \in Seq(Chars) : Len(l) <= BUFFER_LIMIT}
Plays(f, cmd, n) == f[0] = <<>> /\ \A k \in 1 .. n : f[k] = Put(f[k - 1], cmd[k])

LEMMA PutBuffer == \A l \in Buffer, c \in Keys : Put(l, c) \in Buffer
BY PutIn, Zenon DEF Buffer, Keys

LEMMA EmptyBuffer == <<>> \in Buffer
BY HistoryAssumption DEF Buffer

LEMMA PlayExists ==
    ASSUME NEW cmd \in Line, NEW n \in Nat, n <= Len(cmd)
    PROVE  \E f \in [0 .. n -> Buffer] : Plays(f, cmd, n)
<1> DEFINE Ok == {m \in Nat : m <= Len(cmd) => \E f \in [0 .. m -> Buffer] : Plays(f, cmd, m)}
<1>1. 0 \in Ok
  <2> DEFINE f == [k \in 0 .. 0 |-> <<>>]
  <2>1. f \in [0 .. 0 -> Buffer] /\ Plays(f, cmd, 0)
    BY EmptyBuffer DEF Plays
  <2> HIDE DEF f
  <2> QED
    BY <2>1, Zenon
<1>2. ASSUME NEW m \in Nat, m \in Ok PROVE m + 1 \in Ok
  <2> SUFFICES ASSUME m + 1 <= Len(cmd)
               PROVE  \E f \in [0 .. m + 1 -> Buffer] : Plays(f, cmd, m + 1)
    OBVIOUS
  <2>1. m <= Len(cmd) /\ m + 1 \in 1 .. Len(cmd)
    BY DEF Line
  <2>2. PICK f \in [0 .. m -> Buffer] : Plays(f, cmd, m)
    BY <1>2, <2>1, Zenon
  <2>3. cmd[m + 1] \in Keys
    BY <2>1 DEF Line, Keys
  <2> DEFINE last == Put(f[m], cmd[m + 1])
             g == [k \in 0 .. m + 1 |-> IF k = m + 1 THEN last ELSE f[k]]
  <2>4. last \in Buffer
    <3>1. f[m] \in Buffer
      OBVIOUS
    <3> QED
      BY <2>3, <3>1, PutBuffer, Zenon
  <2> HIDE DEF last
  <2>5. g \in [0 .. m + 1 -> Buffer]
    BY <2>4
  <2>6. /\ g[0] = f[0] /\ g[m + 1] = last /\ \A k \in 0 .. m : g[k] = f[k]
    OBVIOUS
  <2> HIDE DEF g
  <2>7. ASSUME NEW k \in 1 .. m + 1 PROVE g[k] = Put(g[k - 1], cmd[k])
    <3>1. CASE k = m + 1
      <4>1. g[k - 1] = f[m] /\ g[k] = last
        BY <2>6, <3>1
      <4> QED
        BY <3>1, <4>1, Zenon DEF last
    <3>2. CASE k \in 1 .. m
      <4>1. g[k] = f[k] /\ g[k - 1] = f[k - 1]
        BY <2>6, <3>2
      <4> QED
        BY <2>2, <3>2, <4>1, Zenon DEF Plays
    <3>3. k = m + 1 \/ k \in 1 .. m
      OBVIOUS
    <3> QED
      BY <3>1, <3>2, <3>3, Zenon
  <2>8. Plays(g, cmd, m + 1)
    BY <2>2, <2>6, <2>7, Zenon DEF Plays
  <2> QED
    BY <2>5, <2>8, Zenon
<1>3. n \in Ok
  <2> HIDE DEF Ok
  <2> QED
    BY <1>1, <1>2, Induction, Zenon
<1> QED
  BY <1>3, Zenon

LEMMA PlayedDef ==
    ASSUME NEW cmd \in Line
    PROVE  /\ Played(cmd, 0) = <<>>
           /\ \A k \in 1 .. Len(cmd) : Played(cmd, k) = Put(Played(cmd, k - 1), cmd[k])
<1> DEFINE n == Len(cmd)
           P(g) == g = [k \in 0 .. Len(cmd) |-> IF k = 0 THEN <<>> ELSE Put(g[k - 1], cmd[k])]
           f == CHOOSE g : P(g)
<1>1. \A k : Played(cmd, k) = f[k]
  BY Zenon DEF Played
<1>2. n \in Nat
  BY DEF Line
<1>3. \E g : P(g)
  <2>1. PICK g \in [0 .. n -> Buffer] : Plays(g, cmd, n)
    BY <1>2, PlayExists
  <2>2. P(g)
    BY <1>2, <2>1 DEF Plays
  <2> HIDE DEF P
  <2> QED
    BY <2>2, Zenon
<1>4. P(f)
  <2> HIDE DEF P
  <2> QED
    BY <1>3, Zenon
<1> HIDE DEF f
<1>5. \A k \in 0 .. Len(cmd) : f[k] = IF k = 0 THEN <<>> ELSE Put(f[k - 1], cmd[k])
  <2> DEFINE h == [k \in 0 .. Len(cmd) |-> IF k = 0 THEN <<>> ELSE Put(f[k - 1], cmd[k])]
  <2>1. f = h
    BY <1>4, Zenon
  <2>2. \A k \in 0 .. Len(cmd) : h[k] = IF k = 0 THEN <<>> ELSE Put(f[k - 1], cmd[k])
    BY Zenon
  <2> HIDE DEF h, P
  <2> QED
    BY <2>1, <2>2, Zenon
<1> HIDE DEF P
<1>6. f[0] = <<>>
  BY <1>2, <1>5
<1>7. ASSUME NEW k \in 1 .. Len(cmd) PROVE f[k] = Put(f[k - 1], cmd[k])
  <2>1. k \in 0 .. Len(cmd) /\ k # 0
    BY <1>2
  <2> QED
    BY <1>5, <2>1, Zenon
<1> QED
  BY <1>1, <1>6, <1>7, Zenon

LEMMA PlayedIn ==
    ASSUME NEW cmd \in Line
    PROVE  \A k \in 0 .. Len(cmd) : Played(cmd, k) \in Buffer
<1> DEFINE Ok == {k \in Nat : k <= Len(cmd) => Played(cmd, k) \in Buffer}
<1>1. 0 \in Ok
  BY PlayedDef, EmptyBuffer, Zenon
<1>2. ASSUME NEW k \in Nat, k \in Ok PROVE k + 1 \in Ok
  <2> SUFFICES ASSUME k + 1 <= Len(cmd) PROVE Played(cmd, k + 1) \in Buffer
    OBVIOUS
  <2>1. Len(cmd) \in Nat /\ k + 1 \in 1 .. Len(cmd) /\ (k + 1) - 1 = k /\ cmd[k + 1] \in Keys
    BY DEF Line, Keys
  <2>2. Played(cmd, k) \in Buffer
    BY <1>2, <2>1
  <2>3. Played(cmd, k + 1) = Put(Played(cmd, k), cmd[k + 1])
    BY <2>1, PlayedDef, Zenon
  <2> QED
    BY <2>1, <2>2, <2>3, PutBuffer, Zenon
<1>3. Nat \subseteq Ok
  <2> HIDE DEF Ok
  <2> QED
    BY <1>1, <1>2, Induction, Zenon
<1> QED
  BY <1>3 DEF Line

LEMMA PlayedAppend ==
    ASSUME NEW cmd \in Line, NEW c \in Keys
    PROVE  Played(Append(cmd, c), Len(Append(cmd, c))) = Put(Played(cmd, Len(cmd)), c)
<1> DEFINE all == Append(cmd, c)
           Ok == {k \in Nat : k <= Len(cmd) => Played(all, k) = Played(cmd, k)}
<1>1. all \in Line /\ Len(cmd) \in Nat /\ Len(all) = Len(cmd) + 1 /\ all[Len(cmd) + 1] = c
      /\ \A k \in 1 .. Len(cmd) : all[k] = cmd[k]
  BY AppendIs DEF Line, Keys
<1> HIDE DEF all
<1>2. 0 \in Ok
  BY <1>1, PlayedDef, Zenon
<1>3. ASSUME NEW k \in Nat, k \in Ok PROVE k + 1 \in Ok
  <2> SUFFICES ASSUME k + 1 <= Len(cmd) PROVE Played(all, k + 1) = Played(cmd, k + 1)
    OBVIOUS
  <2>1. k + 1 \in 1 .. Len(cmd) /\ k + 1 \in 1 .. Len(all) /\ (k + 1) - 1 = k
    BY <1>1
  <2>2. Played(all, k) = Played(cmd, k)
    BY <1>1, <1>3, <2>1
  <2>3. Played(cmd, k + 1) = Put(Played(cmd, k), cmd[k + 1])
    BY <2>1, PlayedDef, Zenon
  <2>4. Played(all, k + 1) = Put(Played(all, k), all[k + 1])
    BY <1>1, <2>1, PlayedDef, Zenon
  <2> QED
    BY <1>1, <2>1, <2>2, <2>3, <2>4, Zenon
<1>4. Nat \subseteq Ok
  <2> HIDE DEF Ok
  <2> QED
    BY <1>2, <1>3, Induction, Zenon
<1>5. Played(all, Len(cmd)) = Played(cmd, Len(cmd))
  BY <1>1, <1>4
<1>6. Len(cmd) + 1 \in 1 .. Len(all) /\ (Len(cmd) + 1) - 1 = Len(cmd)
  BY <1>1
<1>7. Played(all, Len(cmd) + 1) = Put(Played(all, Len(cmd)), all[Len(cmd) + 1])
  BY <1>1, <1>6, PlayedDef, Zenon
<1>8. Played(all, Len(all)) = Put(Played(cmd, Len(cmd)), c)
  BY <1>1, <1>5, <1>7, Zenon
<1> QED
  BY <1>8, Zenon DEF all

-----------------------------------------------------------------------------
(* The line of a terminal, while at most one handler works on it: what the *)
(* handler has done so far, and that all agrees when there is none.        *)
Replay(cmd) == Played(cmd, Len(cmd))
Move(key) == IF key = "up" THEN -1 ELSE 1

(* A handler f of a terminal whose keys are cmd, whose edited copy of the  *)
(* ring is ring, where the line cur is shown and the line buffer is l, at  *)
(* each of its places.                                                     *)
InCmd(f, cmd, ring, cur, l) == cmd = ring[Slot(cur)] /\ l = Put(Replay(cmd), f.key)
InModified(f, cmd, ring, cur, l) == cmd = Append(ring[Slot(cur)], f.key) /\ l = Replay(cmd)
Recalls(f, cmd, ring, cur) == cmd = ring[Slot(cur)] /\ f.slot = Slot(cur + Move(f.key))
InErase(f, cmd, ring, cur, l) ==
    Recalls(f, cmd, ring, cur) /\ (Len(l) + f.i <= BUFFER_LIMIT \/ l = <<>>)
InType(f, cmd, ring, cur, l) ==
    /\ Recalls(f, cmd, ring, cur)
    /\ f.i <= Len(ring[f.slot]) /\ l = Played(ring[f.slot], f.i)
InCopy(f, cmd, ring, cur, l) == Recalls(f, cmd, ring, cur) /\ l = Replay(ring[f.slot])
InIndex(f, cmd, ring, cur, l) ==
    f.slot = Slot(cur + Move(f.key)) /\ cmd = ring[f.slot] /\ l = Replay(cmd)

Working(f, cmd, ring, cur, l) ==
    /\ f.pc = "cmd" => InCmd(f, cmd, ring, cur, l)
    /\ f.pc = "modified" => InModified(f, cmd, ring, cur, l)
    /\ f.pc = "erase" => InErase(f, cmd, ring, cur, l)
    /\ f.pc = "type" => InType(f, cmd, ring, cur, l)
    /\ f.pc = "copy" => InCopy(f, cmd, ring, cur, l)
    /\ f.pc = "index" => InIndex(f, cmd, ring, cur, l)

On(f, t) == f.pc # "none" /\ f.term = t

Good(t) ==
    /\ \A g, h \in Handlers : On(frames[g], t) /\ On(frames[h], t) => g = h
    /\ \A h \in Handlers :
         On(frames[h], t)
            => Working(frames[h], curr_cmd[t], modified_hist[t], curr_hist[t], line[t])
    /\ (\A h \in Handlers : ~On(frames[h], t))
         => /\ curr_cmd[t] = modified_hist[t][Slot(curr_hist[t])]
            /\ line[t] = Replay(curr_cmd[t])

Lines == crossed = {} => \A t \in Terminals : t \notin mixed => Good(t)

(* Nothing changes on the terminal t.                                      *)
Same(t) ==
    /\ curr_cmd'[t] = curr_cmd[t] /\ modified_hist'[t] = modified_hist[t]
    /\ curr_hist'[t] = curr_hist[t] /\ line'[t] = line[t]

LEMMA GoodSame ==
    ASSUME NEW t \in Terminals, Good(t), Same(t), UNCHANGED frames
    PROVE  Good(t)'
BY Zenon DEF Good, Same

LEMMA GoodOther ==
    ASSUME NEW t \in Terminals, Good(t), Same(t), NEW h \in Handlers,
           \A g \in Handlers : g # h => frames'[g] = frames[g],
           ~On(frames[h], t), ~On(frames'[h], t)
    PROVE  Good(t)'
<1>1. \A g \in Handlers : On(frames'[g], t) => g # h /\ On(frames[g], t) /\ frames'[g] = frames[g]
  BY Zenon
<1>2. (\A g \in Handlers : ~On(frames'[g], t)) => \A g \in Handlers : ~On(frames[g], t)
  BY Zenon
<1>3. ASSUME NEW g \in Handlers, On(frames'[g], t)
      PROVE  Working(frames'[g], curr_cmd[t], modified_hist[t], curr_hist[t], line[t])
  BY <1>1, <1>3, Zenon DEF Good
<1>4. \A f, g \in Handlers : On(frames'[f], t) /\ On(frames'[g], t) => f = g
  BY <1>1, Zenon DEF Good
<1>5. (\A g \in Handlers : ~On(frames'[g], t))
         => /\ curr_cmd[t] = modified_hist[t][Slot(curr_hist[t])]
            /\ line[t] = Replay(curr_cmd[t])
  BY <1>2, Zenon DEF Good
<1> QED
  BY <1>3, <1>4, <1>5, Zenon DEF Good, Same

LEMMA GoodOne ==
    ASSUME NEW t \in Terminals, NEW h \in Handlers,
           \A g \in Handlers : g # h => frames'[g] = frames[g],
           \A g \in Handlers : g # h => ~On(frames[g], t), On(frames'[h], t),
           Working(frames'[h], curr_cmd'[t], modified_hist'[t], curr_hist'[t], line'[t])
    PROVE  Good(t)'
<1>1. \A g \in Handlers : On(frames'[g], t) => g = h
  BY Zenon
<1> QED
  BY <1>1, Zenon DEF Good

LEMMA GoodNone ==
    ASSUME NEW t \in Terminals, \A g \in Handlers : ~On(frames'[g], t),
           curr_cmd'[t] = modified_hist'[t][Slot(curr_hist'[t])],
           line'[t] = Replay(curr_cmd'[t])
    PROVE  Good(t)'
BY Zenon DEF Good

(* A step of the handler h that touches the terminals T only.              *)
LEMMA Around ==
    ASSUME Lines, NEW T, NEW h \in Handlers, crossed' = {} => crossed = {},
           \A g \in Handlers : g # h => frames'[g] = frames[g],
           frames[h].pc = "none" \/ frames[h].term \in T,
           frames'[h].pc = "none" \/ frames'[h].term \in T,
           \A u \in Terminals : u \notin T => Same(u) /\ (u \in mixed => u \in mixed'),
           crossed' = {} => \A t \in Terminals : t \in T /\ t \notin mixed' => Good(t)'
    PROVE  Lines'
<1> SUFFICES ASSUME crossed' = {}, NEW u \in Terminals, u \notin mixed' PROVE Good(u)'
  BY Zenon DEF Lines
<1>1. CASE u \in T
  BY <1>1, Zenon
<1>2. CASE u \notin T
  <2>1. Good(u)
    BY <1>2, Zenon DEF Lines
  <2>2. ~On(frames[h], u) /\ ~On(frames'[h], u)
    BY <1>2, Zenon DEF On
  <2>3. Same(u)
    BY <1>2, Zenon
  <2> QED
    BY <2>1, <2>2, <2>3, GoodOther, Zenon
<1> QED
  BY <1>1, <1>2, Zenon

(* A step that leaves the handlers alone and touches the terminal t only.  *)
LEMMA AroundLine ==
    ASSUME Lines, NEW t \in Terminals, crossed' = {} => crossed = {}, UNCHANGED frames,
           \A u \in Terminals : u # t => Same(u) /\ (u \in mixed => u \in mixed'),
           crossed' = {} /\ t \notin mixed' => Good(t)'
    PROVE  Lines'
<1> SUFFICES ASSUME crossed' = {}, NEW u \in Terminals, u \notin mixed' PROVE Good(u)'
  BY Zenon DEF Lines
<1>1. CASE u = t
  BY <1>1, Zenon
<1>2. CASE u # t
  <2>1. Good(u) /\ Same(u)
    BY <1>2, Zenon DEF Lines
  <2> QED
    BY <2>1, GoodSame, Zenon
<1> QED
  BY <1>1, <1>2, Zenon

(* What put_char does to the lines.                                        *)
LEMMA PutCharIs ==
    ASSUME FramesOK, BuffersOK, NEW t \in Terminals, t = curr_terminal, NEW c, PutChar(c)
    PROVE  line'[t] = Put(line[t], c) /\ \A u \in Terminals : u # t => line'[u] = line[u]
<1> DEFINE l == Put(line[t], c)
<1>1. line' = [line EXCEPT ![t] = l] /\ line \in [Terminals -> Seq(Chars)]
  BY Zenon DEF PutChar, BuffersOK
<1> HIDE DEF l
<1> QED
  BY <1>1, Zenon DEF l

(* The terminal t has no handler, and all agrees.                          *)
LEMMA Calm ==
    ASSUME Lines, NEW t \in Terminals, crossed = {}, t \notin mixed, ~Busy(t)
    PROVE  /\ \A h \in Handlers : ~On(frames[h], t)
           /\ curr_cmd[t] = modified_hist[t][Slot(curr_hist[t])]
           /\ line[t] = Replay(curr_cmd[t])
<1>1. \A h \in Handlers : ~On(frames[h], t)
  BY Zenon DEF On, Busy
<1> QED
  BY <1>1, Zenon DEF Lines, Good

(* The handler h of the terminal t works alone.                            *)
LEMMA Alone ==
    ASSUME Lines, NEW t \in Terminals, crossed = {}, t \notin mixed, NEW h \in Handlers,
           frames[h].pc # "none", frames[h].term = t
    PROVE  /\ \A g \in Handlers : g # h => ~On(frames[g], t)
           /\ Working(frames[h], curr_cmd[t], modified_hist[t], curr_hist[t], line[t])
<1>1. On(frames[h], t)
  BY Zenon DEF On
<1> QED
  BY <1>1, Zenon DEF Lines, Good

LEMMA CharLines ==
    ASSUME FramesOK, BuffersOK, Lines, NEW t \in Terminals, t = curr_terminal,
           NEW h \in Handlers, NEW s \in Stacks, NEW c \in Keys, KeyChar(h, s, c)
    PROVE  Lines'
<1>1. Pushed(h, c, "cmd", 0, 0)
  BY CharTyped, Zenon
<1>2. /\ frames[h].pc = "none" /\ crossed = {} /\ mixed = {} /\ PutChar(c) /\ Mixes(t)
      /\ UNCHANGED <<curr_terminal, curr_hist, modified_hist, curr_cmd, crossed>>
  BY Zenon DEF KeyChar, Interrupt, InOrder, indexes, buffers
<1>3. line'[t] = Put(line[t], c) /\ \A u \in Terminals : u # t => line'[u] = line[u]
  BY <1>2, PutCharIs, Zenon
<1>4. /\ \A g \in Handlers : g # h => frames'[g] = frames[g]
      /\ frames'[h].pc = "cmd" /\ frames'[h].key = c /\ frames'[h].term = t
  BY <1>1, Zenon DEF Pushed
<1>5. ASSUME t \notin mixed' PROVE Good(t)'
  <2>1. ~Busy(t) /\ t \notin mixed
    BY <1>2, <1>5, Zenon DEF Mixes
  <2>2. /\ \A g \in Handlers : ~On(frames[g], t)
        /\ curr_cmd[t] = modified_hist[t][Slot(curr_hist[t])]
        /\ line[t] = Replay(curr_cmd[t])
    BY <1>2, <2>1, Calm, Zenon
  <2>3. Working(frames'[h], curr_cmd[t], modified_hist[t], curr_hist[t], line'[t])
    <3>1. InCmd(frames'[h], curr_cmd[t], modified_hist[t], curr_hist[t], line'[t])
      BY <1>3, <1>4, <2>2, Zenon DEF InCmd
    <3> QED
      BY <1>4, <3>1, Zenon DEF Working
  <2>4. On(frames'[h], t)
    BY <1>4, Zenon DEF On
  <2> QED
    BY <1>2, <1>4, <2>2, <2>3, <2>4, GoodOne, Zenon
<1>6. \A u \in Terminals : u \notin {t} => Same(u) /\ (u \in mixed => u \in mixed')
  BY <1>2, <1>3, Zenon DEF Same
<1>7. \A u \in Terminals : u \in {t} /\ u \notin mixed' => Good(u)'
  BY <1>5, Zenon
<1>8. frames'[h].term \in {t}
  BY <1>4, Zenon
<1> QED
  BY <1>2, <1>4, <1>6, <1>7, <1>8, Around, Zenon

LEMMA RecallLines ==
    ASSUME FramesOK, BuffersOK, Lines, NEW t \in Terminals, t = curr_terminal,
           NEW h \in Handlers, NEW s \in Stacks, NEW key \in {"up", "down"},
           curr_hist[t] \in Int, frames[h].pc = "none", crossed = {}, mixed = {},
           Recall(h, s, key, curr_hist[t] + Move(key))
    PROVE  Lines'
<1> DEFINE slot == Slot(curr_hist[t] + Move(key))
<1>1. Pushed(h, key, "erase", 1, slot)
  <2>1. curr_hist[t] + Move(key) \in Int
    BY DEF Move
  <2> QED
    BY <2>1, RecallTyped, Zenon
<1> HIDE DEF slot
<1>2. /\ PutChar(Backspace) /\ Mixes(t)
      /\ UNCHANGED <<curr_terminal, curr_hist, modified_hist, curr_cmd>>
  BY Zenon DEF Recall, indexes, buffers
<1>3. line'[t] = Put(line[t], Backspace) /\ \A u \in Terminals : u # t => line'[u] = line[u]
  BY <1>2, PutCharIs, Zenon
<1>4. /\ \A g \in Handlers : g # h => frames'[g] = frames[g]
      /\ frames'[h].pc = "erase" /\ frames'[h].key = key /\ frames'[h].term = t
      /\ frames'[h].i = 1 /\ frames'[h].slot = slot
  BY <1>1, Zenon DEF Pushed
<1>5. ASSUME t \notin mixed' PROVE Good(t)'
  <2>1. ~Busy(t) /\ t \notin mixed
    BY <1>2, <1>5, Zenon DEF Mixes
  <2>2. /\ \A g \in Handlers : ~On(frames[g], t)
        /\ curr_cmd[t] = modified_hist[t][Slot(curr_hist[t])]
    BY <2>1, Calm, Zenon
  <2>3. Len(line'[t]) + 1 <= BUFFER_LIMIT \/ line'[t] = <<>>
    <3>1. line[t] \in Seq(Chars) /\ Len(line[t]) <= BUFFER_LIMIT /\ BUFFER_LIMIT \in Nat
      BY HistoryAssumption, Zenon DEF BuffersOK
    <3>2. line'[t] = <<>> \/ Len(line'[t]) = Len(line[t]) - 1
      BY <1>3, <3>1, PutBackspace, Zenon
    <3>3. Len(line[t]) \in Nat
      BY <3>1
    <3> QED
      BY <3>1, <3>2, <3>3
  <2>4. Working(frames'[h], curr_cmd[t], modified_hist[t], curr_hist[t], line'[t])
    <3>1. InErase(frames'[h], curr_cmd[t], modified_hist[t], curr_hist[t], line'[t])
      BY <1>4, <2>2, <2>3, Zenon DEF InErase, Recalls, slot
    <3> QED
      BY <1>4, <3>1, Zenon DEF Working
  <2>5. On(frames'[h], t)
    BY <1>4, Zenon DEF On
  <2> QED
    BY <1>2, <1>4, <2>2, <2>4, <2>5, GoodOne, Zenon
<1>6. \A u \in Terminals : u \notin {t} => Same(u) /\ (u \in mixed => u \in mixed')
  BY <1>2, <1>3, Zenon DEF Same
<1>7. \A u \in Terminals : u \in {t} /\ u \notin mixed' => Good(u)'
  BY <1>5, Zenon
<1>8. frames'[h].term \in {t}
  BY <1>4, Zenon
<1> QED
  BY <1>4, <1>6, <1>7, <1>8, Around, Zenon

LEMMA AppendCmdLines ==
    ASSUME IInv, FramesOK, BuffersOK, Lines, NEW h \in Handlers, NEW t \in Terminals,
           t = frames[h].term, AppendCmd(h)
    PROVE  Lines'
<1> DEFINE key == frames[h].key
           cmd == Append(curr_cmd[t], key)
<1>1. Continued(h, "modified", 0)
  BY AppendCmdTyped, Zenon
<1>2. /\ frames[h].pc = "cmd" /\ crossed = {} /\ curr_cmd' = [curr_cmd EXCEPT ![t] = cmd]
      /\ UNCHANGED <<curr_terminal, curr_hist, modified_hist, line, crossed, mixed>>
  BY Zenon DEF AppendCmd, Running, indexes, ghosts
<1>3. curr_cmd \in [Terminals -> Line]
  BY Zenon DEF BuffersOK
<1>4. key \in Keys
  BY <1>2, FrameFields, Zenon DEF FrameOK
<1> HIDE DEF cmd
<1>5. curr_cmd'[t] = cmd /\ \A u \in Terminals : u # t => curr_cmd'[u] = curr_cmd[u]
  BY <1>2, <1>3, Zenon
<1>6. /\ \A g \in Handlers : g # h => frames'[g] = frames[g]
      /\ frames'[h].pc = "modified" /\ frames'[h].key = key /\ frames'[h].term = t
  BY <1>1, Zenon DEF Continued
<1>7. ASSUME t \notin mixed PROVE Good(t)'
  <2>1. /\ \A g \in Handlers : g # h => ~On(frames[g], t)
        /\ Working(frames[h], curr_cmd[t], modified_hist[t], curr_hist[t], line[t])
    <3>1. frames[h].pc # "none"
      BY <1>2, Zenon
    <3> QED
      BY <1>2, <1>7, <3>1, Alone, Zenon
  <2>2. line[t] = Put(Replay(curr_cmd[t]), key) /\ curr_cmd[t] = modified_hist[t][Slot(curr_hist[t])]
    BY <1>2, <2>1, Zenon DEF Working, InCmd
  <2>3. line[t] = Replay(cmd)
    BY <1>3, <1>4, <2>2, PlayedAppend, Zenon DEF Replay, cmd
  <2> HIDE DEF key
  <2>4. Working(frames'[h], cmd, modified_hist[t], curr_hist[t], line[t])
    <3>1. cmd = Append(modified_hist[t][Slot(curr_hist[t])], key)
      BY <2>2, Zenon DEF cmd
    <3>2. InModified(frames'[h], cmd, modified_hist[t], curr_hist[t], line[t])
      BY <1>6, <2>3, <3>1, Zenon DEF InModified
    <3> QED
      BY <1>6, <3>2, Zenon DEF Working
  <2>5. On(frames'[h], t)
    BY <1>6, Zenon DEF On
  <2> QED
    BY <1>2, <1>5, <1>6, <2>1, <2>4, <2>5, GoodOne, Zenon
<1>8. \A u \in Terminals : u \notin {t} => Same(u) /\ (u \in mixed => u \in mixed')
  BY <1>2, <1>5, Zenon DEF Same
<1>9. \A u \in Terminals : u \in {t} /\ u \notin mixed' => Good(u)'
  BY <1>2, <1>7, Zenon
<1>10. frames[h].term \in {t} /\ frames'[h].term \in {t}
  BY <1>6, Zenon
<1> QED
  BY <1>2, <1>6, <1>8, <1>9, <1>10, Around, Zenon

LEMMA AppendModifiedLines ==
    ASSUME IInv, FramesOK, BuffersOK, Lines, NEW h \in Handlers, NEW t \in Terminals,
           t = frames[h].term, AppendModified(h)
    PROVE  Lines'
<1> DEFINE key == frames[h].key
           k == Slot(curr_hist[t])
           cmd == Append(modified_hist[t][k], key)
           ring == [modified_hist[t] EXCEPT ![k] = cmd]
<1>1. Popped(h)
  BY AppendModifiedTyped, Zenon
<1>2. /\ frames[h].pc = "modified" /\ crossed = {}
      /\ modified_hist' = [modified_hist EXCEPT ![t] = ring]
      /\ UNCHANGED <<curr_terminal, curr_hist, curr_cmd, line, crossed, mixed>>
  BY Zenon DEF AppendModified, Running, Edited, indexes, ghosts
<1>3. modified_hist \in [Terminals -> [Slots -> Line]] /\ curr_hist[t] \in Int
  BY Zenon DEF BuffersOK, IInv, Control
<1>4. k \in Slots
  BY <1>3, SlotIn, Zenon
<1> HIDE DEF cmd, k
<1>5. ring[k] = cmd
  BY <1>3, <1>4, Zenon
<1> HIDE DEF ring
<1>6. modified_hist'[t] = ring
      /\ \A u \in Terminals : u # t => modified_hist'[u] = modified_hist[u]
  BY <1>2, <1>3, Zenon
<1>7. (\A g \in Handlers : g # h => frames'[g] = frames[g]) /\ frames'[h].pc = "none"
  BY <1>1, Zenon DEF Popped
<1>8. ASSUME t \notin mixed PROVE Good(t)'
  <2>1. /\ \A g \in Handlers : g # h => ~On(frames[g], t)
        /\ Working(frames[h], curr_cmd[t], modified_hist[t], curr_hist[t], line[t])
    <3>1. frames[h].pc # "none"
      BY <1>2, Zenon
    <3> QED
      BY <1>2, <1>8, <3>1, Alone, Zenon
  <2>2. line[t] = Replay(curr_cmd[t]) /\ curr_cmd[t] = cmd
    BY <1>2, <2>1, Zenon DEF Working, InModified, cmd, k
  <2>3. \A g \in Handlers : ~On(frames'[g], t)
    BY <1>7, <2>1, Zenon DEF On
  <2>4. curr_cmd'[t] = modified_hist'[t][Slot(curr_hist'[t])] /\ line'[t] = Replay(curr_cmd'[t])
    BY <1>2, <1>5, <1>6, <2>2, Zenon DEF k
  <2> QED
    BY <2>3, <2>4, GoodNone, Zenon
<1>9. \A u \in Terminals : u \notin {t} => Same(u) /\ (u \in mixed => u \in mixed')
  BY <1>2, <1>6, Zenon DEF Same
<1>10. \A u \in Terminals : u \in {t} /\ u \notin mixed' => Good(u)'
  BY <1>2, <1>8, Zenon
<1>11. frames[h].term \in {t}
  BY Zenon
<1> QED
  BY <1>2, <1>7, <1>9, <1>10, <1>11, Around, Zenon

LEMMA SourceLine ==
    ASSUME FramesOK, BuffersOK, NEW h \in Handlers, InArrow(frames[h].pc),
           NEW t, t = frames[h].term, NEW src, src = modified_hist[t][frames[h].slot]
    PROVE  src \in Line /\ Len(src) \in Nat /\ frames[h].i \in Nat
<1>1. src = Source(h)
  BY Zenon DEF Source
<1>2. src \in Line
  BY <1>1, SourceKey, Zenon
<1>3. Len(src) \in Nat
  BY <1>2, LineLen, Zenon
<1> QED
  BY <1>2, <1>3, FrameFields, Zenon

(* The steps of hist_copy_from.                                            *)
LEMMA EraseLines ==
    ASSUME FramesOK, BuffersOK, Lines, NEW h \in Handlers, NEW t \in Terminals,
           t = frames[h].term, NEW c \in Terminals, c = curr_terminal, Erase(h)
    PROVE  Lines'
<1> DEFINE f == frames[h]
<1>1. Continued(h, "erase", f.i + 1)
  BY EraseTyped, Zenon
<1>2. /\ f.pc = "erase" /\ crossed = {} /\ PutChar(Backspace) /\ Stray(h)
      /\ UNCHANGED <<curr_terminal, curr_hist, modified_hist, curr_cmd, crossed>>
  BY Zenon DEF Erase, Running, indexes, buffers
<1>3. line'[c] = Put(line[c], Backspace) /\ \A u \in Terminals : u # c => line'[u] = line[u]
  BY <1>2, PutCharIs, Zenon
<1>4. /\ \A g \in Handlers : g # h => frames'[g] = frames[g]
      /\ frames'[h].pc = "erase" /\ frames'[h].key = f.key /\ frames'[h].term = t
      /\ frames'[h].slot = f.slot /\ frames'[h].i = f.i + 1
  BY <1>1, Zenon DEF Continued
<1>5. ASSUME t \notin mixed' PROVE Good(t)'
  <2>1. c = t /\ t \notin mixed
    BY <1>2, <1>5, Zenon DEF Stray
  <2>2. /\ \A g \in Handlers : g # h => ~On(frames[g], t)
        /\ Working(f, curr_cmd[t], modified_hist[t], curr_hist[t], line[t])
    <3>1. f.pc # "none"
      BY <1>2, Zenon
    <3> QED
      BY <1>2, <2>1, <3>1, Alone, Zenon
  <2>3. InErase(f, curr_cmd[t], modified_hist[t], curr_hist[t], line[t])
    BY <1>2, <2>2, Zenon DEF Working
  <2>4. Len(line'[t]) + (f.i + 1) <= BUFFER_LIMIT \/ line'[t] = <<>>
    <3>1. line[t] \in Seq(Chars) /\ BUFFER_LIMIT \in Nat /\ f.i \in Nat
      BY FrameFields, HistoryAssumption, Zenon DEF BuffersOK
    <3>2. line'[t] = <<>> \/ Len(line'[t]) = Len(line[t]) - 1
      BY <1>3, <2>1, <3>1, PutBackspace, Zenon
    <3>3. line[t] = <<>> => line'[t] = <<>>
      BY <1>3, <2>1, Zenon DEF Put
    <3>4. Len(line[t]) \in Nat
      BY <3>1
    <3>5. Len(line[t]) + f.i <= BUFFER_LIMIT \/ line[t] = <<>>
      BY <2>3, Zenon DEF InErase
    <3> HIDE DEF f
    <3>6. \A a, b, i, n \in Int : a + i <= n /\ b = a - 1 => b + (i + 1) <= n
      OBVIOUS
    <3>7. f.i \in Int /\ BUFFER_LIMIT \in Int /\ Len(line[t]) \in Int /\ Len(line[t]) - 1 \in Int
      BY <3>1, <3>4
    <3> QED
      BY <3>2, <3>3, <3>5, <3>6, <3>7, Zenon
  <2>5. Working(frames'[h], curr_cmd[t], modified_hist[t], curr_hist[t], line'[t])
    <3>1. InErase(frames'[h], curr_cmd[t], modified_hist[t], curr_hist[t], line'[t])
      BY <1>4, <2>3, <2>4, Zenon DEF InErase, Recalls
    <3> QED
      BY <1>4, <3>1, Zenon DEF Working
  <2>6. On(frames'[h], t)
    BY <1>4, Zenon DEF On
  <2> QED
    BY <1>2, <1>4, <2>2, <2>5, <2>6, GoodOne, Zenon
<1>6. \A u \in Terminals : u \notin {t, c} => Same(u) /\ (u \in mixed => u \in mixed')
  BY <1>2, <1>3, Zenon DEF Same, Stray
<1>7. c # t => c \in mixed'
  BY <1>2, Zenon DEF Stray
<1>8. \A u \in Terminals : u \in {t, c} /\ u \notin mixed' => Good(u)'
  BY <1>5, <1>7, Zenon
<1>9. frames[h].term \in {t, c} /\ frames'[h].term \in {t, c}
  BY <1>4, Zenon
<1> QED
  BY <1>2, <1>4, <1>6, <1>8, <1>9, Around, Zenon

LEMMA TypeLines ==
    ASSUME FramesOK, BuffersOK, Lines, NEW h \in Handlers, NEW t \in Terminals,
           t = frames[h].term, NEW c \in Terminals, c = curr_terminal, Type(h)
    PROVE  Lines'
<1> DEFINE f == frames[h]
           src == modified_hist[t][f.slot]
<1>1. Continued(h, "type", f.i + 1)
  BY TypeTyped, Zenon
<1>2. /\ f.pc = "type" /\ crossed = {} /\ f.i < Len(src) /\ PutChar(src[f.i + 1]) /\ Stray(h)
      /\ UNCHANGED <<curr_terminal, curr_hist, modified_hist, curr_cmd, crossed>>
  BY Zenon DEF Type, Running, Source, indexes, buffers
<1>3. line'[c] = Put(line[c], src[f.i + 1])
      /\ \A u \in Terminals : u # c => line'[u] = line[u]
  BY <1>2, PutCharIs, Zenon
<1>4. /\ \A g \in Handlers : g # h => frames'[g] = frames[g]
      /\ frames'[h].pc = "type" /\ frames'[h].key = f.key /\ frames'[h].term = t
      /\ frames'[h].slot = f.slot /\ frames'[h].i = f.i + 1
  BY <1>1, Zenon DEF Continued
<1>5. ASSUME t \notin mixed' PROVE Good(t)'
  <2>1. c = t /\ t \notin mixed
    BY <1>2, <1>5, Zenon DEF Stray
  <2>2. /\ \A g \in Handlers : g # h => ~On(frames[g], t)
        /\ Working(f, curr_cmd[t], modified_hist[t], curr_hist[t], line[t])
    <3>1. f.pc # "none"
      BY <1>2, Zenon
    <3> QED
      BY <1>2, <2>1, <3>1, Alone, Zenon
  <2>3. InType(f, curr_cmd[t], modified_hist[t], curr_hist[t], line[t])
    BY <1>2, <2>2, Zenon DEF Working
  <2>4. f.i + 1 <= Len(src) /\ line'[t] = Played(src, f.i + 1)
    <3>1. src \in Line /\ Len(src) \in Nat /\ f.i \in Nat
      <4>1. InArrow(frames[h].pc)
        BY <1>2, Zenon DEF InArrow
      <4> QED
        BY <4>1, SourceLine, Zenon
    <3>2. line[t] = Played(src, f.i)
      BY <2>3, Zenon DEF InType
    <3> HIDE DEF src, f
    <3>3. f.i + 1 \in 1 .. Len(src) /\ (f.i + 1) - 1 = f.i
      BY <1>2, <3>1
    <3>4. Played(src, f.i + 1) = Put(Played(src, f.i), src[f.i + 1])
      BY <3>1, <3>3, PlayedDef, Zenon
    <3> QED
      BY <1>3, <2>1, <3>2, <3>3, <3>4
  <2>5. Working(frames'[h], curr_cmd[t], modified_hist[t], curr_hist[t], line'[t])
    <3>1. InType(frames'[h], curr_cmd[t], modified_hist[t], curr_hist[t], line'[t])
      BY <1>4, <2>3, <2>4, Zenon DEF InType, Recalls
    <3> QED
      BY <1>4, <3>1, Zenon DEF Working
  <2>6. On(frames'[h], t)
    BY <1>4, Zenon DEF On
  <2> QED
    BY <1>2, <1>4, <2>2, <2>5, <2>6, GoodOne, Zenon
<1>6. \A u \in Terminals : u \notin {t, c} => Same(u) /\ (u \in mixed => u \in mixed')
  BY <1>2, <1>3, Zenon DEF Same, Stray
<1>7. c # t => c \in mixed'
  BY <1>2, Zenon DEF Stray
<1>8. \A u \in Terminals : u \in {t, c} /\ u \notin mixed' => Good(u)'
  BY <1>5, <1>7, Zenon
<1>9. frames[h].term \in {t, c} /\ frames'[h].term \in {t, c}
  BY <1>4, Zenon
<1> QED
  BY <1>2, <1>4, <1>6, <1>8, <1>9, Around, Zenon

(* The steps of a handler of an arrow key that do not type.                *)
LEMMA PhaseLines ==
    ASSUME FramesOK, BuffersOK, Lines, NEW h \in Handlers, NEW t \in Terminals,
           t = frames[h].term, Erased(h) \/ Typed(h)
    PROVE  Lines'
<1> DEFINE f == frames[h]
           src == modified_hist[t][f.slot]
<1>1. /\ crossed = {} /\ InArrow(f.pc) /\ f.pc # "none"
      /\ UNCHANGED <<curr_terminal, curr_hist, modified_hist, curr_cmd, line, crossed, mixed>>
  BY Zenon DEF Erased, Typed, Running, InArrow, indexes, buffers, ghosts
<1>2. /\ \A g \in Handlers : g # h => frames'[g] = frames[g]
      /\ frames'[h].key = f.key /\ frames'[h].term = t /\ frames'[h].slot = f.slot
      /\ Erased(h) => frames'[h].pc = "type" /\ frames'[h].i = 0
      /\ Typed(h) => frames'[h].pc = "copy"
  BY PhaseTyped, Zenon DEF Continued
<1>3. src \in Line /\ Len(src) \in Nat /\ f.i \in Nat
  BY <1>1, SourceLine, Zenon
<1>4. ASSUME t \notin mixed PROVE Good(t)'
  <2>1. /\ \A g \in Handlers : g # h => ~On(frames[g], t)
        /\ Working(f, curr_cmd[t], modified_hist[t], curr_hist[t], line[t])
    BY <1>1, <1>4, Alone, Zenon
  <2>2. ASSUME Erased(h)
        PROVE  Working(frames'[h], curr_cmd[t], modified_hist[t], curr_hist[t], line[t])
    <3>1. f.pc = "erase" /\ f.i >= BUFFER_LIMIT /\ BUFFER_LIMIT \in Nat
      BY <2>2, HistoryAssumption, Zenon DEF Erased, Running
    <3>2. InErase(f, curr_cmd[t], modified_hist[t], curr_hist[t], line[t])
      BY <2>1, <3>1, Zenon DEF Working
    <3>3. line[t] = <<>>
      <4>1. Len(line[t]) + f.i <= BUFFER_LIMIT \/ line[t] = <<>>
        BY <3>2, Zenon DEF InErase
      <4>2. line[t] \in Seq(Chars)
        BY Zenon DEF BuffersOK
      <4> HIDE DEF f
      <4>3. Len(line[t]) \in Nat /\ (Len(line[t]) = 0 => line[t] = <<>>)
        BY <4>2
      <4> QED
        BY <1>3, <3>1, <4>1, <4>3
    <3>4. line[t] = Played(src, 0) /\ 0 <= Len(src)
      <4>1. Played(src, 0) = <<>>
        BY <1>3, PlayedDef, Zenon
      <4> HIDE DEF src
      <4> QED
        BY <1>3, <3>3, <4>1
    <3>5. InType(frames'[h], curr_cmd[t], modified_hist[t], curr_hist[t], line[t])
      BY <1>2, <2>2, <3>2, <3>4, Zenon DEF InErase, InType, Recalls
    <3> QED
      BY <1>2, <2>2, <3>5, Zenon DEF Working
  <2>3. ASSUME Typed(h)
        PROVE  Working(frames'[h], curr_cmd[t], modified_hist[t], curr_hist[t], line[t])
    <3>1. f.pc = "type" /\ f.i >= Len(src)
      BY <2>3, Zenon DEF Typed, Running, Source
    <3>2. InType(f, curr_cmd[t], modified_hist[t], curr_hist[t], line[t])
      BY <2>1, <3>1, Zenon DEF Working
    <3>3. f.i = Len(src)
      <4>1. f.i <= Len(src)
        BY <3>2, Zenon DEF InType
      <4> HIDE DEF f, src
      <4> QED
        BY <1>3, <3>1, <4>1
    <3>4. line[t] = Replay(src)
      <4>1. line[t] = Played(src, f.i)
        BY <3>2, Zenon DEF InType
      <4> HIDE DEF f, src
      <4> QED
        BY <3>3, <4>1, Zenon DEF Replay
    <3>5. InCopy(frames'[h], curr_cmd[t], modified_hist[t], curr_hist[t], line[t])
      <4>1. Recalls(f, curr_cmd[t], modified_hist[t], curr_hist[t])
        BY <3>2, Zenon DEF InType
      <4>2. Recalls(frames'[h], curr_cmd[t], modified_hist[t], curr_hist[t])
        BY <1>2, <4>1, Zenon DEF Recalls
      <4>3. line[t] = Replay(modified_hist[t][frames'[h].slot])
        BY <1>2, <3>4, Zenon
      <4> QED
        BY <4>2, <4>3, Zenon DEF InCopy
    <3> QED
      BY <1>2, <2>3, <3>5, Zenon DEF Working
  <2>4. Working(frames'[h], curr_cmd[t], modified_hist[t], curr_hist[t], line[t])
    BY <2>2, <2>3, Zenon
  <2>5. On(frames'[h], t)
    BY <1>2, Zenon DEF On
  <2> QED
    BY <1>1, <1>2, <2>1, <2>4, <2>5, GoodOne, Zenon
<1>5. \A u \in Terminals : u \notin {t} => Same(u) /\ (u \in mixed => u \in mixed')
  BY <1>1, Zenon DEF Same
<1>6. \A u \in Terminals : u \in {t} /\ u \notin mixed' => Good(u)'
  BY <1>1, <1>4, Zenon
<1>7. frames[h].term \in {t} /\ frames'[h].term \in {t}
  BY <1>2, Zenon
<1> QED
  BY <1>1, <1>2, <1>5, <1>6, <1>7, Around, Zenon

LEMMA CopyCmdLines ==
    ASSUME IInv, FramesOK, BuffersOK, Lines, NEW h \in Handlers, NEW t \in Terminals,
           t = frames[h].term, CopyCmd(h)
    PROVE  Lines'
<1> DEFINE f == frames[h]
           cmd == modified_hist[t][Slot(curr_hist[t] + Move(f.key))]
<1>1. Continued(h, "index", 0)
  BY CopyCmdTyped, Zenon
<1>2. /\ f.pc = "copy" /\ crossed = {} /\ curr_cmd' = [curr_cmd EXCEPT ![t] = cmd]
      /\ UNCHANGED <<curr_terminal, curr_hist, modified_hist, line, crossed, mixed>>
  BY Zenon DEF CopyCmd, Running, Recalled, Step, Move, indexes, ghosts
<1>3. curr_cmd \in [Terminals -> Line]
  BY Zenon DEF BuffersOK
<1> HIDE DEF cmd
<1>4. curr_cmd'[t] = cmd /\ \A u \in Terminals : u # t => curr_cmd'[u] = curr_cmd[u]
  BY <1>2, <1>3, Zenon
<1>5. /\ \A g \in Handlers : g # h => frames'[g] = frames[g]
      /\ frames'[h].pc = "index" /\ frames'[h].key = f.key /\ frames'[h].term = t
      /\ frames'[h].slot = f.slot
  BY <1>1, Zenon DEF Continued
<1>6. ASSUME t \notin mixed PROVE Good(t)'
  <2>1. /\ \A g \in Handlers : g # h => ~On(frames[g], t)
        /\ Working(f, curr_cmd[t], modified_hist[t], curr_hist[t], line[t])
    <3>1. f.pc # "none"
      BY <1>2, Zenon
    <3> QED
      BY <1>2, <1>6, <3>1, Alone, Zenon
  <2>2. f.slot = Slot(curr_hist[t] + Move(f.key)) /\ line[t] = Replay(modified_hist[t][f.slot])
    BY <1>2, <2>1, Zenon DEF Working, InCopy, Recalls
  <2>3. cmd = modified_hist[t][f.slot]
    BY <2>2, Zenon DEF cmd
  <2>4. InIndex(frames'[h], cmd, modified_hist[t], curr_hist[t], line[t])
    BY <1>5, <2>2, <2>3, Zenon DEF InIndex
  <2>5. Working(frames'[h], cmd, modified_hist[t], curr_hist[t], line[t])
    BY <1>5, <2>4, Zenon DEF Working
  <2>6. On(frames'[h], t)
    BY <1>5, Zenon DEF On
  <2> QED
    BY <1>2, <1>4, <1>5, <2>1, <2>5, <2>6, GoodOne, Zenon
<1>7. \A u \in Terminals : u \notin {t} => Same(u) /\ (u \in mixed => u \in mixed')
  BY <1>2, <1>4, Zenon DEF Same
<1>8. \A u \in Terminals : u \in {t} /\ u \notin mixed' => Good(u)'
  BY <1>2, <1>6, Zenon
<1>9. frames[h].term \in {t} /\ frames'[h].term \in {t}
  BY <1>5, Zenon
<1> QED
  BY <1>2, <1>5, <1>7, <1>8, <1>9, Around, Zenon

LEMMA MoveIndexLines ==
    ASSUME IInv, FramesOK, BuffersOK, Lines, NEW h \in Handlers, NEW t \in Terminals,
           t = frames[h].term, MoveIndex(h)
    PROVE  Lines'
<1> DEFINE f == frames[h]
           cur == curr_hist[t] + Move(f.key)
<1>1. /\ f.pc = "index" /\ crossed = {} /\ Pop(h) /\ curr_hist' = [curr_hist EXCEPT ![t] = cur]
      /\ UNCHANGED <<curr_terminal, curr_cmd, modified_hist, line, crossed, mixed>>
  BY Zenon DEF MoveIndex, Running, Step, Move, buffers, ghosts
<1>2. curr_hist \in [Terminals -> Int]
  BY Zenon DEF IInv, Control
<1> HIDE DEF cur
<1>3. curr_hist'[t] = cur /\ \A u \in Terminals : u # t => curr_hist'[u] = curr_hist[u]
  BY <1>1, <1>2, Zenon
<1>4. (\A g \in Handlers : g # h => frames'[g] = frames[g]) /\ frames'[h].pc = "none"
  BY <1>1, PopIs, Zenon DEF Popped
<1>5. ASSUME t \notin mixed PROVE Good(t)'
  <2>1. /\ \A g \in Handlers : g # h => ~On(frames[g], t)
        /\ Working(f, curr_cmd[t], modified_hist[t], curr_hist[t], line[t])
    <3>1. f.pc # "none"
      BY <1>1, Zenon
    <3> QED
      BY <1>1, <1>5, <3>1, Alone, Zenon
  <2>2. InIndex(f, curr_cmd[t], modified_hist[t], curr_hist[t], line[t])
    BY <1>1, <2>1, Zenon DEF Working
  <2>3. line[t] = Replay(curr_cmd[t]) /\ curr_cmd[t] = modified_hist[t][Slot(cur)]
    BY <2>2, Zenon DEF InIndex, cur
  <2>4. \A g \in Handlers : ~On(frames'[g], t)
    BY <1>4, <2>1, Zenon DEF On
  <2>5. curr_cmd'[t] = modified_hist'[t][Slot(curr_hist'[t])] /\ line'[t] = Replay(curr_cmd'[t])
    BY <1>1, <1>3, <2>3, Zenon
  <2> QED
    BY <2>4, <2>5, GoodNone, Zenon
<1>6. \A u \in Terminals : u \notin {t} => Same(u) /\ (u \in mixed => u \in mixed')
  BY <1>1, <1>3, Zenon DEF Same
<1>7. \A u \in Terminals : u \in {t} /\ u \notin mixed' => Good(u)'
  BY <1>1, <1>5, Zenon
<1>8. frames[h].term \in {t}
  BY Zenon
<1> QED
  BY <1>1, <1>4, <1>6, <1>7, <1>8, Around, Zenon

LEMMA ReplayEmpty == Replay(<<>>) = <<>>
<1>1. <<>> \in Line /\ Len(<<>>) = 0
  BY DEF Line
<1>2. Played(<<>>, 0) = <<>>
  BY <1>1, PlayedDef, Zenon
<1> QED
  BY <1>1, <1>2, Zenon DEF Replay

LEMMA EnterLines ==
    ASSUME IInv, FramesOK, BuffersOK, Lines, NEW t \in Terminals, t = curr_terminal, KeyEnter
    PROVE  Lines'
<1> DEFINE n == num_hist[t]
           kept == Saved(hist[t], n, curr_cmd[t])
<1>1. n \in Nat /\ hist[t] \in [Slots -> Line] /\ curr_cmd[t] \in Line
  BY Zenon DEF BuffersOK, IInv, Control
<1>2. /\ curr_hist' = [curr_hist EXCEPT ![t] = n + 1]
      /\ modified_hist' = [modified_hist EXCEPT ![t] = kept]
      /\ curr_cmd' = [curr_cmd EXCEPT ![t] = <<>>]
      /\ line' = [line EXCEPT ![t] = <<>>]
      /\ mixed' = IF Busy(t) THEN mixed \cup {t} ELSE mixed \ {t}
      /\ crossed = {} /\ UNCHANGED <<curr_terminal, frames>>
  BY Zenon DEF KeyEnter, Saved
<1>3. kept[Slot(n + 1)] = <<>>
  <2>1. Keeps(kept, hist[t], n, curr_cmd[t])
    BY <1>1, SavedIs, Zenon
  <2> HIDE DEF n, kept
  <2> QED
    BY <2>1, Zenon DEF Keeps
<1>4. /\ curr_hist \in [Terminals -> Int]
      /\ modified_hist \in [Terminals -> [Slots -> Line]]
      /\ curr_cmd \in [Terminals -> Line] /\ line \in [Terminals -> Seq(Chars)]
  BY Zenon DEF BuffersOK, IInv, Control
<1> HIDE DEF n, kept
<1>5. curr_hist'[t] = n + 1 /\ modified_hist'[t] = kept /\ curr_cmd'[t] = <<>> /\ line'[t] = <<>>
  BY <1>2, <1>4, Zenon
<1>6. \A u \in Terminals : u # t => Same(u) /\ (u \in mixed => u \in mixed')
  <2>1. ASSUME NEW u \in Terminals, u # t PROVE Same(u)
    BY <1>2, <1>4, <2>1, Zenon DEF Same
  <2>2. \A u \in Terminals : u # t /\ u \in mixed => u \in mixed'
    BY <1>2, Zenon
  <2> QED
    BY <2>1, <2>2, Zenon
<1>7. ASSUME t \notin mixed' PROVE Good(t)'
  <2>1. ~Busy(t)
    BY <1>2, <1>7, Zenon
  <2>2. \A g \in Handlers : ~On(frames'[g], t)
    BY <1>2, <2>1, Zenon DEF On, Busy
  <2>3. curr_cmd'[t] = modified_hist'[t][Slot(curr_hist'[t])] /\ line'[t] = Replay(curr_cmd'[t])
    BY <1>3, <1>5, ReplayEmpty, Zenon
  <2> QED
    BY <2>2, <2>3, GoodNone, Zenon
<1> QED
  BY <1>2, <1>6, <1>7, AroundLine, Zenon

(* The steps that empty the line buffer of t.                              *)
LEMMA EmptyLines ==
    ASSUME FramesOK, BuffersOK, Lines, NEW t \in Terminals,
           \/ t = curr_terminal /\ KeyEnterNothing
           \/ EmptyLine(t)
    PROVE  Lines'
<1>1. /\ line' = [line EXCEPT ![t] = <<>>] /\ crossed = {}
      /\ UNCHANGED <<curr_hist, modified_hist, curr_cmd, frames, crossed>>
  BY Zenon DEF KeyEnterNothing, EmptyLine, indexes, buffers
<1>2. mixed' = mixed \cup {t} \/ (mixed' = mixed /\ ~Busy(t) /\ curr_cmd[t] = <<>>)
  BY Zenon DEF KeyEnterNothing, EmptyLine, Mixes
<1>3. line'[t] = <<>> /\ \A u \in Terminals : u # t => line'[u] = line[u]
  BY <1>1, Zenon DEF BuffersOK
<1>4. \A u \in Terminals : u # t => Same(u) /\ (u \in mixed => u \in mixed')
  BY <1>1, <1>2, <1>3, Zenon DEF Same
<1>5. ASSUME t \notin mixed' PROVE Good(t)'
  <2>1. t \notin mixed /\ ~Busy(t) /\ curr_cmd[t] = <<>>
    BY <1>2, <1>5, Zenon
  <2>2. /\ \A g \in Handlers : ~On(frames[g], t)
        /\ curr_cmd[t] = modified_hist[t][Slot(curr_hist[t])]
    BY <1>1, <2>1, Calm, Zenon
  <2>3. curr_cmd'[t] = modified_hist'[t][Slot(curr_hist'[t])]
    BY <1>1, <2>2, Zenon
  <2>4. line'[t] = Replay(curr_cmd'[t])
    BY <1>1, <1>3, <2>1, ReplayEmpty, Zenon
  <2> QED
    BY <1>1, <2>2, <2>3, <2>4, GoodNone, Zenon
<1> QED
  BY <1>1, <1>4, <1>5, AroundLine, Zenon

LEMMA LinesStep ==
    ASSUME IInv, FramesOK, BuffersOK, Lines, [Next]_vars
    PROVE  Lines'
<1>0. /\ curr_terminal \in Terminals /\ curr_hist[curr_terminal] \in Int
      /\ \A h \in Handlers : frames[h].term \in Terminals
  BY FrameFields, Zenon DEF FramesOK, IInv, Control
<1>1. ASSUME NEW h \in Handlers, NEW s \in Stacks, NEW c \in Chars \cup {Backspace},
             KeyChar(h, s, c)
      PROVE  Lines'
  BY <1>0, <1>1, CharLines, Zenon DEF Keys
<1>2. ASSUME NEW h \in Handlers, NEW s \in Stacks, KeyUp(h, s) \/ KeyDown(h, s)
      PROVE  Lines'
  <2>1. frames[h].pc = "none" /\ crossed = {} /\ mixed = {}
    BY <1>2, Zenon DEF KeyUp, KeyDown, Interrupt, InOrder
  <2>2. PICK key \in {"up", "down"} : Recall(h, s, key, curr_hist[curr_terminal] + Move(key))
    <3>1. /\ curr_hist[curr_terminal] + Move("up") = curr_hist[curr_terminal] - 1
          /\ curr_hist[curr_terminal] + Move("down") = curr_hist[curr_terminal] + 1
      BY <1>0, Zenon DEF Move
    <3> QED
      BY <1>2, <3>1, Zenon DEF KeyUp, KeyDown
  <2> QED
    BY <1>0, <2>1, <2>2, RecallLines, Zenon
<1>3. ASSUME NEW h \in Handlers, AppendCmd(h) \/ AppendModified(h) PROVE Lines'
  BY <1>0, <1>3, AppendCmdLines, AppendModifiedLines, Zenon
<1>4. ASSUME NEW h \in Handlers, Erase(h) \/ Type(h) PROVE Lines'
  BY <1>0, <1>4, EraseLines, TypeLines, Zenon
<1>5. ASSUME NEW h \in Handlers, Erased(h) \/ Typed(h) PROVE Lines'
  BY <1>0, <1>5, PhaseLines, Zenon
<1>6. ASSUME NEW h \in Handlers, CopyCmd(h) \/ MoveIndex(h) PROVE Lines'
  BY <1>0, <1>6, CopyCmdLines, MoveIndexLines, Zenon
<1>7. ASSUME KeyEnter PROVE Lines'
  BY <1>0, <1>7, EnterLines, Zenon
<1>8. ASSUME KeyEnterNothing \/ \E t \in Terminals : EmptyLine(t) PROVE Lines'
  BY <1>0, <1>8, EmptyLines, Zenon
<1>9. ASSUME UNCHANGED <<indexes, buffers, line, frames, crossed, mixed>> PROVE Lines'
  <2>1. ASSUME NEW u \in Terminals PROVE Same(u) /\ (u \in mixed => u \in mixed')
    BY <1>9, Zenon DEF Same, indexes, buffers
  <2>2. UNCHANGED frames /\ (crossed' = {} => crossed = {})
    BY <1>9, Zenon
  <2>3. PICK t \in Terminals : t = curr_terminal
    BY <1>0, Zenon
  <2>4. crossed' = {} /\ t \notin mixed' => Good(t)'
    BY <1>9, <2>1, <2>2, GoodSame, Zenon DEF Lines
  <2> QED
    BY <2>1, <2>2, <2>4, AroundLine, Zenon
<1>10. ASSUME (\E t \in Terminals : KeySwitch(t)) \/ UNCHANGED vars PROVE Lines'
  BY <1>9, <1>10, Zenon DEF KeySwitch, vars, ghosts
<1> QED
  BY <1>1, <1>2, <1>3, <1>4, <1>5, <1>6, <1>7, <1>8, <1>10, Zenon DEF Next

LEMMA InitLines == Init => Lines
<1> SUFFICES ASSUME Init, NEW t \in Terminals PROVE Good(t)
  BY Zenon DEF Lines
<1>1. \A h \in Handlers : frames[h].pc = "none"
  BY Zenon DEF Init, Idle
<1>2. curr_hist[t] = 0 /\ curr_cmd[t] = <<>> /\ line[t] = <<>>
      /\ modified_hist[t] = [k \in Slots |-> <<>>]
  BY Zenon DEF Init
<1>3. modified_hist[t][Slot(curr_hist[t])] = <<>>
  <2>1. Slot(0) \in Slots
    BY SlotIn
  <2> QED
    BY <1>2, <2>1, Zenon
<1>4. line[t] = Replay(curr_cmd[t])
  BY <1>2, ReplayEmpty, Zenon
<1> QED
  BY <1>1, <1>2, <1>3, <1>4, Zenon DEF Good, On

(* What the properties of the line rest on.                                *)
LineInv == IInv /\ FramesOK /\ BuffersOK /\ Lines

LEMMA LineInvariant == Spec => []LineInv
<1>1. Init => LineInv
  BY InitOK, InitLines, Zenon DEF LineInv
<1>2. LineInv /\ [Next]_vars => LineInv'
  BY Inductive, TypesStep, LinesStep, Zenon DEF LineInv
<1> QED
  BY <1>1, <1>2, PTL DEF Spec

LEMMA QuietIs ==
    ASSUME LineInv, NEW t \in Terminals, Quiet(t)
    PROVE  curr_cmd[t] = modified_hist[t][Slot(curr_hist[t])] /\ line[t] = Replay(curr_cmd[t])
BY Calm, Zenon DEF LineInv, Quiet

(* What Enter would save is the edited copy of the line that is shown, so  *)
(* that Up and Down bring a line back as it was left: for every number of  *)
(* terminals, stacks and handlers and every size of the ring and of the    *)
(* line buffer, unless keys interrupted each other.                        *)
THEOREM CommandFollowsEntry ==
    Spec => []CommandIsEntry
<1>1. LineInv => CommandIsEntry
  BY QuietIs, Zenon DEF CommandIsEntry, Edited
<1> QED
  BY <1>1, LineInvariant, PTL

(* The line the reader gets is what the keys kept in curr_cmd give when    *)
(* they are played into an empty line: after typing and backspaces, also   *)
(* at the start of a line, and after any number of recalls, each of which  *)
(* erases the buffer with BUFFER_LIMIT backspaces and types the recalled   *)
(* keys anew, unless keys interrupted each other or the line was emptied   *)
(* by Ctrl-L or output.                                                    *)
THEOREM LineFollowsKeys ==
    Spec => []LineIsReplay
<1>1. LineInv => LineIsReplay
  BY QuietIs, Zenon DEF LineIsReplay, Replay
<1> QED
  BY <1>1, LineInvariant, PTL
=============================================================================
