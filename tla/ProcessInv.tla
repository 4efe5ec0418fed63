----------------------------- MODULE ProcessInv -----------------------------
(***************************************************************************)
(* The inductive invariant behind the safety properties of Process.  It    *)
(* speaks of the states in which no event of QueueEvents has happened and  *)
(* the kernel is alive.                                                    *)
(***************************************************************************)
EXTENDS Process

(* Type correctness needs that boot leaves the first shell behind the      *)
(* sentinel, and that the pointers a call follows are not Null.            *)
Placed ==
    /\ ctx = Boot => tail = booted - 1 /\ (booted > 0 => next[Sentinel] = 0)
    /\ ctx \in Pids => curr_process \in Pids
    /\ \A c \in Pids :
          pc[c] \in {"alloc", "load", "pcb", "current", "exec_pit", "halt_pit"} => local[c] \in Pids

TypeInv == TypeOK /\ Placed

Sound == hit \cap QueueEvents = {} /\ ctx # Dead

InExec == {"alloc", "load", "pcb", "current"}
Waiting == {"sched", "exec_pit", "return"}
Atomic == {"current", "exec_pit", "halt_pit"}   \* a tick here is an event
Working == {"user", "halt"} \cup InExec

(* The list: links inverse to one another, tail last, a node linked in     *)
(* both directions or in none.                                             *)
LinksInv ==
    /\ \A n \in Nodes : next[n] # Null => prev[n] # Null /\ prev[next[n]] = n
    /\ \A n \in Nodes : prev[n] # Null => next[n] # Null /\ next[prev[n]] = n
    /\ next[Sentinel] # Null
    /\ tail = prev[Sentinel]

(* Booting: the first shells are queued, nothing else has happened.        *)
BootInv ==
    /\ ctx = Boot => /\ curr_node = Sentinel
                     /\ tail = booted - 1
                     /\ \A p \in Pids : /\ pc[p] = IF p < booted THEN "user" ELSE "none"
                                        /\ image[p] = IF p < booted THEN p ELSE Null
                                        /\ expect[p] = 0 /\ rval[p] = 0
                     /\ hit = {}
    /\ ctx # Boot => booted = NumShells

(* The running context: curr_node is its node, curr_process and cr3 are    *)
(* what the call it is in has made of them.                                *)
CurrentInv ==
    /\ esp = [p \in Pids |-> p]
    /\ ctx \in Pids =>
          /\ curr_node = ctx
          /\ pc[ctx] # "none"
          /\ pc[ctx] \in {"user", "alloc", "load", "pcb", "return", "halt", "unsched"}
                => curr_process = ctx
          /\ pc[ctx] \in Atomic => curr_process = local[ctx]
          /\ pc[ctx] = "return" => running[ctx] = "RUNNING"
    /\ \A p \in Pids : pc[p] \in Atomic => p = ctx

(* Node, task state and control point of every stack.                      *)
TaskInv ==
    /\ running[Sentinel] = "SENTINEL"
    /\ \A p \in Pids :
          /\ next[p] = Null <=> pc[p] \in {"none", "halt_pit"}
          /\ pc[p] \in Working => running[p] = "RUNNING"
          /\ pc[p] \in Waiting => running[p] \in {"RUNNING", "INACTIVE"}
          /\ pc[p] \in {"unsched", "halt_pit"} => running[p] = "FINISHED"
          /\ pc[p] = "none" => running[p] # "RUNNING"
          /\ pc[p] \in {"exec_pit", "halt_pit"} =>
                local[p] \in Pids /\ running[local[p]] = "RUNNING"
          /\ p \in Shells => pc[p] \notin {"halt", "unsched", "halt_pit"}
    /\ ctx # Boot => \A s \in Shells : next[s] # Null

(* The pid a kexecute works on is its own, and no process has it.          *)
OwnPid(c) ==
    pc[c] \in InExec =>
        /\ local[c] \in Pids
        /\ pc[local[c]] = "none"
        /\ pid_arr[local[c]] <=> pc[c] \in {"pcb", "current"}
        /\ \A d \in Pids \ {c} : pc[d] \in InExec => local[d] # local[c]

(* pid_arr marks the processes that a kexecute builds and those that live. *)
Marked(p) == pid_arr[p] <=> Building(p) \/ pc[p] \in (Working \cup Waiting) \ {"halt"}

PidInv == \A p \in Pids : OwnPid(p) /\ Marked(p)

(* The parent of a program waits for it in kexecute.                       *)
ParentWaits(p) ==
    p \notin Shells /\ pc[p] \in Working \cup Waiting =>
        /\ parent[p] \in Pids /\ creator[p] = parent[p]
        /\ pc[parent[p]] \in Waiting
        /\ running[parent[p]] = "INACTIVE"
        /\ child[parent[p]] = p

(* A process that is parked waits for a program.                           *)
ChildLives(p) ==
    pc[p] \in Waiting /\ running[p] = "INACTIVE" =>
        /\ child[p] \in Pids /\ parent[child[p]] = p
        /\ pc[child[p]] \in Working \cup Waiting

(* The links of the tree at the other control points.                      *)
Kin(p) ==
    /\ p \in Shells => parent[p] = Null
    /\ pc[p] = "halt" => local[p] = parent[p]
    /\ pc[p] \in {"unsched", "halt_pit"} => parent[p] = Null
    /\ pc[p] = "current" =>
          parent[local[p]] = p /\ creator[local[p]] = p /\ child[p] = local[p]

TreeInv == \A p \in Pids : ParentWaits(p) /\ ChildLives(p) /\ Kin(p)

(* A status travels from the child to its creator.                         *)
StatusInv ==
    \A p \in Pids :
        /\ pc[p] \in Working => rval[p] = expect[p] % 256
        /\ pc[p] \in Waiting /\ running[p] = "RUNNING" => ret_status[p] = expect[p] % 256

(* Address spaces, as long as no tick fell on a load and no load failed.   *)
SpaceInv ==
    hit = {} =>
        /\ \A p \in Pids : next[p] # Null => image[p] = p
        /\ \A c \in Pids : pc[c] \in {"pcb", "current"} => image[local[c]] = local[c]
        /\ \A c \in Pids : pc[c] = "load" => c = ctx /\ cr3 = local[c]
        /\ ctx \in Pids =>
              /\ pc[ctx] \in {"user", "alloc", "return", "halt"} => cr3 = ctx
              /\ pc[ctx] \in {"exec_pit", "halt_pit"} => cr3 = local[ctx]

Body ==
    /\ LinksInv /\ BootInv /\ CurrentInv /\ TaskInv
    /\ PidInv /\ TreeInv /\ StatusInv /\ SpaceInv

(* The inductive invariant: until an event that loses a process, kexecute, *)
(* khalt and pit_handler keep the links, the tree, the pids, the stacks and *)
(* the address spaces consistent at every control point.                   *)
IInv == Sound => Body
=============================================================================
