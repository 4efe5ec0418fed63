------------------------------ MODULE RunQueue ------------------------------
(***************************************************************************)
(* The run queue of schedule.c: a circular, doubly linked list of one node *)
(* per pid around a sentinel, kept in a static array and linked through    *)
(* next_task and prev_task.  "head" always is the sentinel.                *)
(*                                                                         *)
(* Schedule, Unschedule and the parts of pit_handler are action operators  *)
(* on the list alone.  Process composes them with kexecute and khalt.  On  *)
(* its own the list is driven by RQNext, which calls them the way the      *)
(* kernel does when no call is interrupted half-way.                       *)
(***************************************************************************)
EXTENDS Integers

CONSTANTS NumPids,      \* PID_ARR_SIZE and NUM_PROCESSES, 6 in the code
          NumShells     \* NUM_SHELLS, 3 in the code

ASSUME PidAssumption ==
    /\ NumPids \in Nat /\ NumShells \in Nat
    /\ 1 <= NumShells /\ NumShells <= NumPids

Pids == 0 .. NumPids - 1
Shells == 0 .. NumShells - 1
Sentinel == -1
Null == -2
Nodes == Pids \cup {Sentinel}
TaskState == {"RUNNING", "INACTIVE", "SENTINEL", "FINISHED"}

VARIABLES next,        \* next_task of every node
          prev,        \* prev_task of every node
          running,     \* its task_state
          tail,        \* last node of the list
          curr_node    \* node of the task that owns the CPU

rqVars == <<next, prev, running, tail, curr_node>>

(* The links and the tail are nodes or NULL, every task has a state.       *)
RQTypeOK ==
    /\ next \in [Nodes -> Nodes \cup {Null}]
    /\ prev \in [Nodes -> Nodes \cup {Null}]
    /\ running \in [Nodes -> TaskState]
    /\ tail \in Nodes
    /\ curr_node \in Nodes

-----------------------------------------------------------------------------
(* sched_init.  The nodes are static, hence zero: unlinked and INACTIVE.   *)
RQInit ==
    /\ next = [n \in Nodes |-> IF n = Sentinel THEN Sentinel ELSE Null]
    /\ prev = [n \in Nodes |-> IF n = Sentinel THEN Sentinel ELSE Null]
    /\ running = [n \in Nodes |-> IF n = Sentinel THEN "SENTINEL" ELSE "INACTIVE"]
    /\ tail = Sentinel
    /\ curr_node = Sentinel

(* Slips that the properties must detect are written before the operator   *)
(* they vary and named after it: here, a schedule that does not park the   *)
(* parent.                                                                 *)
Schedule_Unparked(pid, parent) ==
    /\ next' = [next EXCEPT ![pid] = next[tail], ![tail] = pid]
    /\ prev' = [prev EXCEPT ![pid] = tail, ![Sentinel] = pid]
    /\ tail' = pid
    /\ running' = [running EXCEPT ![pid] = "RUNNING"]
    /\ UNCHANGED curr_node

(* schedule: link pid behind the tail and park its parent, if it has one.  *)
Schedule(pid, parent) ==
    /\ next' = [next EXCEPT ![pid] = next[tail], ![tail] = pid]
    /\ prev' = [prev EXCEPT ![pid] = tail, ![Sentinel] = pid]
    /\ tail' = pid
    /\ running' = [n \in Nodes |-> IF n = parent THEN "INACTIVE"
                                   ELSE IF n = pid THEN "RUNNING"
                                   ELSE running[n]]
    /\ UNCHANGED curr_node

(* unschedule: mark pid for removal and wake its parent, except that of a  *)
(* shell.  The node stays linked until pit_handler next leaves it.         *)
Unschedule(pid, parent) ==
    /\ running' = [n \in Nodes |-> IF n = parent /\ pid >= NumShells THEN "RUNNING"
                                   ELSE IF n = pid THEN "FINISHED"
                                   ELSE running[n]]
    /\ UNCHANGED <<next, prev, tail, curr_node>>

-----------------------------------------------------------------------------
(* pit_handler, its list operations: a current node that is FINISHED is    *)
(* unlinked, then the search for the next task starts at its successor.    *)
Leaving == running[curr_node] = "FINISHED"

NextAfter_NoBypass == IF Leaving THEN [next EXCEPT ![curr_node] = Null] ELSE next
NextAfter ==
    IF Leaving THEN [next EXCEPT ![prev[curr_node]] = next[curr_node],
                                 ![curr_node] = Null]
               ELSE next

PrevAfter_NoBypass == IF Leaving THEN [prev EXCEPT ![curr_node] = Null] ELSE prev
PrevAfter ==
    IF Leaving THEN [prev EXCEPT ![next[curr_node]] = prev[curr_node],
                                 ![curr_node] = Null]
               ELSE prev

TailAfter_Late == IF Leaving /\ curr_node = tail THEN PrevAfter[curr_node] ELSE tail
TailAfter == IF Leaving /\ curr_node = tail THEN prev[curr_node] ELSE tail

(* The handler dereferences the successor and, to unlink, the predecessor. *)
LinksIntact ==
    /\ next[curr_node] # Null
    /\ Leaving => prev[curr_node] # Null

(* The nodes met on the way from start, step by step.                      *)
Follow(step, start) ==
    LET at[k \in 0 .. NumPids + 1] == IF k = 0 THEN start ELSE step[at[k - 1]]
    IN  at

(* The while loop of the handler: it steps on while the task it looks at   *)
(* is not RUNNING, and comes to Null if a link is missing.                 *)
Onward ==
    [t \in Nodes \cup {Null} |->
        IF t = Null \/ running[t] = "RUNNING" THEN t ELSE NextAfter[t]]

Search_FromHead == Follow(Onward, next[Sentinel])[NumPids + 1]
Search == Follow(Onward, next[curr_node])[NumPids + 1]

(* The loop stops at t.                                                    *)
PicksTask(t) == LinksIntact /\ t = Search /\ running[t] = "RUNNING"

(* Otherwise the handler dereferences NULL or loops with interrupts off.   *)
PicksNone == \A t \in Pids : ~PicksTask(t)

Relink ==
    /\ next' = NextAfter
    /\ prev' = PrevAfter
    /\ tail' = TailAfter
    /\ UNCHANGED running

(* pit_handler without its context switch.  From the sentinel, once, the   *)
(* handler takes the first node of the list unseen.                        *)
PitFirst ==
    /\ curr_node = Sentinel
    /\ curr_node' = next[Sentinel]
    /\ UNCHANGED <<next, prev, running, tail>>

PitHandler(t) ==
    /\ curr_node # Sentinel
    /\ PicksTask(t)
    /\ Relink
    /\ curr_node' = t

-----------------------------------------------------------------------------
(* The list driven on its own.  Boot schedules the shells in order; then   *)
(* the current task executes a program, or halts and wakes the task that   *)
(* waits for it, and each time, or on a timer tick, pit_handler runs.      *)
Linked == {p \in Pids : next[p] # Null}

RQBoot ==
    /\ curr_node = Sentinel
    /\ \E s \in Shells : s = tail + 1 /\ Schedule(s, Null)

RQStart ==
    /\ \A s \in Shells : s \in Linked
    /\ PitFirst

RQExecute(p) ==
    /\ curr_node # Sentinel
    /\ p \in Pids \ (Linked \cup Shells)
    /\ running[curr_node] = "RUNNING"
    /\ Schedule(p, curr_node)

RQHalt(q) ==
    /\ curr_node \in Pids \ Shells
    /\ running[curr_node] = "RUNNING"
    /\ q \in Linked /\ running[q] = "INACTIVE"
    /\ Unschedule(curr_node, q)

RQTick == \E t \in Pids : PitHandler(t)

RQNext ==
    \/ RQBoot
    \/ RQStart
    \/ \E p \in Pids : RQExecute(p)
    \/ \E q \in Pids : RQHalt(q)
    \/ RQTick

RQSpec ==
    /\ RQInit /\ [][RQNext]_rqVars
    /\ WF_rqVars(RQBoot) /\ WF_rqVars(RQStart) /\ WF_rqVars(RQTick)
=============================================================================
