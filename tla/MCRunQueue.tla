----------------------------- MODULE MCRunQueue -----------------------------
(***************************************************************************)
(* Checks the run queue on its own against TaskList and against starvation.*)
(***************************************************************************)
EXTENDS RunQueue

(* The list read from the sentinel along next_task, until it comes back.   *)
After(links) == [n \in Nodes \cup {Null} |-> IF n = Null THEN Null ELSE links[n]]
OrderOf(links) ==
    LET at == Follow(After(links), Sentinel)
        length == CHOOSE n \in 0 .. NumPids :
                     at[n + 1] = Sentinel /\ \A k \in 1 .. n : at[k] # Sentinel
    IN  [k \in 1 .. length |-> at[k]]
Order == OrderOf(next)

Runnable == {p \in Pids : running[p] = "RUNNING"}
Finished == {p \in Linked : running[p] = "FINISHED"}
Current == IF curr_node = Sentinel THEN <<>> ELSE <<curr_node>>

List == INSTANCE TaskList WITH
            Tasks <- Pids, order <- Order, runnable <- Runnable,
            finished <- Finished, current <- Current

(* The pointer updates of schedule, unschedule and pit_handler implement   *)
(* first-in-first-out round robin: each step of the linked list is a step  *)
(* of TaskList on the order read along next_task.                          *)
ImplementsTaskList == List!Spec

(* No task starves: one that is RUNNING gets the CPU, whatever the others  *)
(* execute or halt meanwhile.                                              *)
NoStarvation == \A p \in Pids : running[p] = "RUNNING" ~> curr_node = p
=============================================================================
