------------------------------ MODULE TaskList ------------------------------
(***************************************************************************)
(* What the run queue promises, without pointers: the tasks stand in the   *)
(* order in which they were scheduled, and the CPU goes round that order,  *)
(* from the current task to the first runnable one behind it.  A finished  *)
(* task leaves the order when the CPU leaves the task.                     *)
(***************************************************************************)
EXTENDS Integers, Sequences

CONSTANT Tasks

VARIABLES order,       \* the tasks, oldest first
          runnable,    \* those that may be given the CPU
          finished,    \* those that must never be given it again
          current      \* the sequence of at most one task that has the CPU

tlVars == <<order, runnable, finished, current>>

Init ==
    /\ order = <<>>
    /\ runnable = {}
    /\ finished = {}
    /\ current = <<>>

Add(t) ==
    /\ \A i \in DOMAIN order : order[i] # t
    /\ order' = Append(order, t)
    /\ finished' = finished \ {t}
    /\ UNCHANGED current

(* A task may start another one only by waiting for it.                    *)
Boot == \E t \in Tasks : current = <<>> /\ Add(t) /\ runnable' = runnable \cup {t}

Execute ==
    \E t \in Tasks :
        /\ current # <<>> /\ current[1] \in runnable
        /\ Add(t)
        /\ runnable' = (runnable \ {current[1]}) \cup {t}

(* A task that halts wakes one that waits.                                 *)
Halt ==
    \E i \in DOMAIN order :
        /\ current # <<>> /\ current[1] \in runnable
        /\ order[i] \notin runnable \cup finished
        /\ runnable' = (runnable \ {current[1]}) \cup {order[i]}
        /\ finished' = finished \cup {current[1]}
        /\ UNCHANGED <<order, current>>

(* The tasks behind the i-th one, going round, the i-th one last.          *)
Round(i) == SubSeq(order, i + 1, Len(order)) \o SubSeq(order, 1, i)

(* The order without the i-th task.                                        *)
Without(i) == SubSeq(order, 1, i - 1) \o SubSeq(order, i + 1, Len(order))

Start ==
    /\ current = <<>> /\ order # <<>>
    /\ current' = <<Head(order)>>
    /\ UNCHANGED <<order, runnable, finished>>

Switch ==
    /\ current # <<>>
    /\ \E i \in DOMAIN order :
          /\ order[i] = current[1]
          /\ \E k \in DOMAIN Round(i) :
                /\ Round(i)[k] \in runnable
                /\ \A j \in 1 .. k - 1 : Round(i)[j] \notin runnable
                /\ current' = <<Round(i)[k]>>
          /\ order' = IF current[1] \in finished THEN Without(i) ELSE order
    /\ finished' = finished \ {current[1]}
    /\ UNCHANGED runnable

Next == Boot \/ Start \/ Execute \/ Halt \/ Switch

Spec == Init /\ [][Next]_tlVars
=============================================================================
