------------------------------ MODULE Process -------------------------------
(***************************************************************************)
(* Processes: kexecute and khalt of file_array.c, the timer interrupt and  *)
(* the context switch of schedule.c, composed with the run queue.          *)
(*                                                                         *)
(* System calls enter through a trap gate, so both calls run with          *)
(* interrupts enabled and the timer may interrupt them anywhere outside    *)
(* cli/sti.  Each call is a sequence of actions; between two of them, at   *)
(* the control points named in Points, a tick may fall.                    *)
(*                                                                         *)
(* Four notions of "the current process" exist and need not agree: the C   *)
(* variables curr_process (file_array.c) and curr_node (schedule.c), the   *)
(* address space in cr3, and the kernel stack the CPU really executes on,  *)
(* which is ctx here.  Control points and locals belong to a stack.        *)
(***************************************************************************)
EXTENDS RunQueue, FiniteSets

CONSTANTS Statuses,     \* the statuses programs halt with, within 0..255
          Aftermath     \* whether to follow what happens after an event

ASSUME StatusAssumption == Statuses \subseteq 0 .. 255 /\ Aftermath \in BOOLEAN

EHALT == 239
EXCEPTION_RETURN == 256
Boot == -3              \* ctx: the stack of entry(), before the first switch
Dead == -4              \* ctx: the kernel dereferenced NULL or spins for ever

Points ==
    {"none",                                       \* no context on this stack
     "user",                                       \* user code, other calls
     "alloc", "load", "pcb", "current", "sched",   \* inside kexecute
     "exec_pit", "return",
     "halt", "unsched", "halt_pit"}                \* inside khalt

VARIABLES
    curr_process,   \* file_array.c's current PCB
    pid_arr,        \* pids in use
    parent, child,  \* links of the PCB tree
    ret_status,     \* uint8_t of the PCB
    image,          \* per page frame, the pid whose program was loaded there
    cr3,            \* the pid whose page directory is active
    ctx,            \* the kernel stack the CPU runs on
    pc,             \* control point of every kernel stack
    local,          \* its live local: pid, new_task or parent_pcb
    esp,            \* the stack that the esp saved in a PCB points into
    booted,         \* shells opened so far
    \* what the properties remember
    creator,        \* the stack whose kexecute made a process
    expect,         \* what the last program a process executed halted with
    rval,           \* what its last kexecute returned
    hit             \* events that break an assumption of the code, so far

pcbVars == <<curr_process, pid_arr, parent, child, ret_status>>
cpuVars == <<cr3, ctx, pc, local, esp>>
ghosts == <<creator, expect, rval>>
vars == <<rqVars, pcbVars, cpuVars, image, booted, ghosts, hit>>

(* The events that matter to the queue and to the tree.  The two others,   *)
(* a tick while a program is being loaded and a load that fails, disturb   *)
(* address spaces only.                                                    *)
QueueEvents == {"current", "exec_pit", "halt_pit", "race"}
Events == QueueEvents \cup {"load", "load_error"}

PcbTypeOK ==
    /\ curr_process \in Pids \cup {Null}
    /\ pid_arr \in [Pids -> BOOLEAN]
    /\ parent \in [Pids -> Pids \cup {Null}]
    /\ child \in [Pids -> Pids \cup {Null}]
    /\ ret_status \in [Pids -> 0 .. 255]

CpuTypeOK ==
    /\ cr3 \in Pids \cup {Null}
    /\ ctx \in Pids \cup {Boot, Dead}
    /\ pc \in [Pids -> Points]
    /\ local \in [Pids -> Pids \cup {Null}]
    /\ esp \in [Pids -> Pids]

RestTypeOK ==
    /\ image \in [Pids -> Pids \cup {Null}]
    /\ booted \in 0 .. NumShells
    /\ creator \in [Pids -> Pids \cup {Null}]
    /\ expect \in [Pids -> 0 .. 256]
    /\ rval \in [Pids -> 0 .. 255]
    /\ hit \subseteq Events

(* Every variable keeps its type, also after an event: no link, pid, cr3 or *)
(* status leaves its range, whatever kexecute, khalt and the timer do.     *)
TypeOK == RQTypeOK /\ PcbTypeOK /\ CpuTypeOK /\ RestTypeOK

Init ==
    /\ RQInit
    /\ curr_process = Null
    /\ pid_arr = [p \in Pids |-> FALSE]
    /\ parent = [p \in Pids |-> Null]
    /\ child = [p \in Pids |-> Null]
    /\ ret_status = [p \in Pids |-> 0]
    /\ image = [p \in Pids |-> Null]
    /\ cr3 = Null
    /\ ctx = Boot
    /\ pc = [p \in Pids |-> "none"]
    /\ local = [p \in Pids |-> Null]
    /\ esp = [p \in Pids |-> p]
    /\ booted = 0
    /\ creator = [p \in Pids |-> Null]
    /\ expect = [p \in Pids |-> 0]
    /\ rval = [p \in Pids |-> 0]
    /\ hit = {}

Followed == Aftermath \/ hit = {}
On(c) == ctx = c /\ Followed
At(c, point) == On(c) /\ pc[c] = point
Goto(c, point) == pc' = [pc EXCEPT ![c] = point]

-----------------------------------------------------------------------------
(* Boot: kexecute("shell") from entry makes shell 0, open_shells the other *)
(* ones.  The timer is not yet running.                                    *)
BootShell ==
    /\ ctx = Boot /\ booted < NumShells
    /\ booted' = booted + 1
    /\ Schedule(booted, Null)
    /\ curr_process' = booted
    /\ cr3' = booted
    /\ image' = [image EXCEPT ![booted] = booted]
    /\ pid_arr' = [pid_arr EXCEPT ![booted] = TRUE]
    /\ Goto(booted, "user")
    /\ UNCHANGED <<parent, child, ret_status, ctx, local, esp, ghosts, hit>>

(* The end of open_shells, pit_init, and the first "int $32" (or tick).    *)
BootSwitch ==
    /\ ctx = Boot /\ booted = NumShells
    /\ PitFirst
    /\ curr_process' = next[Sentinel]
    /\ cr3' = next[Sentinel]
    /\ ctx' = next[Sentinel]
    /\ UNCHANGED <<pid_arr, parent, child, ret_status, pc, local, esp, image,
                   booted, ghosts, hit>>

-----------------------------------------------------------------------------
(* The timer.  A hardware tick runs pit_handler to its end: IRQ 0 stays in *)
(* service until pit_ret, although switch_paging sets the interrupt flag.  *)
(* The context of a task that leaves the queue is never resumed.           *)
Tick_OldPaging(c) ==     \* the page directory is not switched
    /\ On(c) /\ pc[c] # "none"
    /\ \E t \in Pids :
          /\ PicksTask(t) /\ Relink
          /\ curr_node' = t
          /\ curr_process' = t
          /\ esp' = [esp EXCEPT ![curr_node] = c]
          /\ ctx' = esp'[t]
    /\ pc' = IF Leaving /\ curr_node = c THEN [pc EXCEPT ![c] = "none"] ELSE pc
    /\ hit' = hit \cup ({pc[c]} \cap Events)
    /\ UNCHANGED <<pid_arr, parent, child, ret_status, local, cr3, image, booted, ghosts>>
Tick(c) ==
    /\ On(c) /\ pc[c] # "none"
    /\ \E t \in Pids :
          /\ PicksTask(t) /\ Relink
          /\ curr_node' = t
          /\ curr_process' = t
          /\ cr3' = t
          /\ esp' = [esp EXCEPT ![curr_node] = c]
          /\ ctx' = esp'[t]
    /\ pc' = IF Leaving /\ curr_node = c THEN [pc EXCEPT ![c] = "none"] ELSE pc
    /\ hit' = hit \cup ({pc[c]} \cap Events)
    /\ UNCHANGED <<pid_arr, parent, child, ret_status, local, image, booted, ghosts>>

(* "int $32" runs the same handler with no interrupt in service, so that a *)
(* tick may fall behind the sti of switch_paging, before the handler has   *)
(* set curr_node and loaded the new stack: two actions.                    *)
YieldPick(c) ==
    /\ On(c) /\ pc[c] \in {"sched", "unsched"}
    /\ \E t \in Pids :
          /\ PicksTask(t) /\ Relink
          /\ curr_process' = t
          /\ cr3' = t
          /\ local' = [local EXCEPT ![c] = t]
    /\ esp' = [esp EXCEPT ![curr_node] = c]
    /\ Goto(c, IF pc[c] = "sched" THEN "exec_pit" ELSE "halt_pit")
    /\ UNCHANGED <<curr_node, pid_arr, parent, child, ret_status, ctx, image,
                   booted, ghosts, hit>>

YieldSwitch(c) ==
    /\ On(c) /\ pc[c] \in {"exec_pit", "halt_pit"}
    /\ curr_node' = local[c]
    /\ ctx' = esp[local[c]]
    /\ local' = [local EXCEPT ![c] = Null]
    /\ Goto(c, IF pc[c] = "exec_pit" THEN "return" ELSE "none")
    /\ UNCHANGED <<next, prev, running, tail, pcbVars, cr3, esp, image, booted,
                   ghosts, hit>>

-----------------------------------------------------------------------------
(* kexecute.  One that returns ERROR before new_paging (no free pid, no    *)
(* such file, not an executable) changes nothing.                          *)

(* A pid is taken without being marked.  It is raced for when another call *)
(* holds it unmarked, or when the process that halts under it still stands *)
(* in the run queue or on its kernel stack.                                *)
Raced(c, p) ==
    \/ \E d \in Pids \ {c} : pc[d] \in {"alloc", "load"} /\ local[d] = p
    \/ next[p] # Null \/ pc[p] # "none"

ExecAlloc(c) ==
    /\ At(c, "user")
    /\ \E p \in Pids :
          /\ ~pid_arr[p] /\ \A q \in 0 .. p - 1 : pid_arr[q]
          /\ local' = [local EXCEPT ![c] = p]
          /\ hit' = IF Raced(c, p) THEN hit \cup {"race"} ELSE hit
    /\ Goto(c, "alloc")
    /\ UNCHANGED <<rqVars, pcbVars, cr3, ctx, esp, image, booted, ghosts>>

(* new_paging, which makes the new page directory the active one.          *)
ExecPaging_NotActive(c) ==     \* the new page directory is not activated
    /\ At(c, "alloc")
    /\ Goto(c, "load")
    /\ UNCHANGED <<rqVars, pcbVars, cr3, ctx, local, esp, image, booted, ghosts, hit>>
ExecPaging(c) ==
    /\ At(c, "alloc")
    /\ cr3' = local[c]
    /\ Goto(c, "load")
    /\ UNCHANGED <<rqVars, pcbVars, ctx, local, esp, image, booted, ghosts, hit>>

(* read_data copies the program through the active page directory.         *)
ExecLoad(c) ==
    /\ At(c, "load")
    /\ image' = [image EXCEPT ![cr3] = local[c]]
    /\ pid_arr' = [pid_arr EXCEPT ![local[c]] = TRUE]
    /\ Goto(c, "pcb")
    /\ UNCHANGED <<rqVars, curr_process, parent, child, ret_status, cr3, ctx,
                   local, esp, booted, ghosts, hit>>

(* read_data fails on a damaged file: ERROR, with cr3 left as it is.       *)
ExecLoadFails(c) ==
    /\ At(c, "load")
    /\ image' = [image EXCEPT ![cr3] = local[c]]
    /\ Goto(c, "user")
    /\ local' = [local EXCEPT ![c] = Null]
    /\ hit' = hit \cup {"load_error"}
    /\ UNCHANGED <<rqVars, pcbVars, cr3, ctx, esp, booted, ghosts>>

(* pcb_init, set_current_process and open_stdin_stdout.                    *)
ExecPcb(c) ==
    /\ At(c, "pcb")
    /\ parent' = [parent EXCEPT ![local[c]] = curr_process]
    /\ child' = [child EXCEPT ![local[c]] = Null, ![curr_process] = local[c]]
    /\ curr_process' = local[c]
    /\ creator' = [creator EXCEPT ![local[c]] = c]
    /\ Goto(c, "current")
    /\ UNCHANGED <<rqVars, pid_arr, ret_status, cr3, ctx, local, esp, image,
                   booted, expect, rval, hit>>

(* The caller's registers go to the PCB of curr_process's parent, whose    *)
(* page directory is restored; then schedule, under cli, queues            *)
(* curr_process and builds a fresh frame on its kernel stack.              *)
ExecSchedule(c) ==
    /\ At(c, "current")
    /\ LET p == curr_process
           q == parent[curr_process]
       IN  /\ Schedule(p, q)
           /\ esp' = [x \in Pids |-> IF x = p THEN p ELSE IF x = q THEN c ELSE esp[x]]
           /\ cr3' = IF q = Null THEN cr3 ELSE q
           /\ pc' = [pc EXCEPT ![p] = "user", ![c] = "sched"]
           /\ local' = [local EXCEPT ![c] = Null]
           /\ expect' = [expect EXCEPT ![p] = 0]
           /\ rval' = [rval EXCEPT ![p] = 0]
    /\ UNCHANGED <<pcbVars, ctx, image, booted, creator, hit>>

(* Back from "int $32": return curr_process->ret_status.                   *)
ExecReturn(c) ==
    /\ At(c, "return")
    /\ rval' = [rval EXCEPT ![c] = ret_status[curr_process]]
    /\ Goto(c, "user")
    /\ UNCHANGED <<rqVars, pcbVars, cr3, ctx, local, esp, image, booted,
                   creator, expect, hit>>

-----------------------------------------------------------------------------
HaltRelease_KeepsPid(c) ==     \* the pid is never given back
    /\ At(c, "user")
    /\ curr_process >= NumShells
    /\ local' = [local EXCEPT ![c] = parent[curr_process]]
    /\ Goto(c, "halt")
    /\ UNCHANGED <<rqVars, pcbVars, cr3, ctx, esp, image, booted, ghosts, hit>>

(* khalt, of a program; a shell only rewrites its own iret frame, which    *)
(* changes nothing here.  First the pid is released.                       *)
HaltRelease(c) ==
    /\ At(c, "user")
    /\ curr_process >= NumShells
    /\ local' = [local EXCEPT ![c] = parent[curr_process]]
    /\ pid_arr' = [pid_arr EXCEPT ![curr_process] = FALSE]
    /\ Goto(c, "halt")
    /\ UNCHANGED <<rqVars, curr_process, parent, child, ret_status, cr3, ctx,
                   esp, image, booted, ghosts, hit>>

(* What the parent's uint8_t ret_status keeps of the value computed for it *)
ReturnValue(status) == IF status = EHALT THEN EXCEPTION_RETURN ELSE status
Stored(status) == ReturnValue(status) % 256

(* Then the process leaves the tree, its status goes to the parent, and    *)
(* unschedule wakes the parent.                                            *)
Detach(c, status, detached, kept) ==
    /\ At(c, "halt") /\ local[c] # Null
    /\ child' = IF parent[curr_process] = Null THEN child
                ELSE [child EXCEPT ![parent[curr_process]] = Null]
    /\ parent' = [parent EXCEPT ![curr_process] = detached]
    /\ ret_status' = [ret_status EXCEPT ![curr_process] = status, ![local[c]] = kept]
    /\ Unschedule(curr_process, local[c])
    /\ expect' = [p \in Pids |-> IF p = creator[c] THEN ReturnValue(status) ELSE expect[p]]
    /\ local' = [local EXCEPT ![c] = Null]
    /\ Goto(c, "unsched")
    /\ UNCHANGED <<curr_process, pid_arr, cr3, ctx, esp, image, booted, creator,
                   rval, hit>>

HaltDetach_StillChild(c, status) == Detach(c, status, parent[curr_process], Stored(status))
HaltDetach_OldStatus(c, status) == Detach(c, status, Null, ret_status[local[c]])
HaltDetach(c, status) == Detach(c, status, Null, Stored(status))

-----------------------------------------------------------------------------
(* pit_handler follows a NULL link or never finds a task, khalt follows a  *)
(* NULL parent, or the CPU was sent to a stack that holds no context.      *)
(* What the kernel does afterwards is not modelled.                        *)
KernelFault(c) ==
    /\ On(c)
    /\ \/ PicksNone
       \/ pc[c] = "halt" /\ local[c] = Null
       \/ pc[c] = "none"
    /\ ctx' = Dead
    /\ hit' = hit \cup ({pc[c]} \cap Events)
    /\ UNCHANGED <<rqVars, pcbVars, cr3, pc, local, esp, image, booted, ghosts>>

Stopped == (ctx = Dead \/ ~Followed) /\ UNCHANGED vars

(* What the process on the CPU does of its own accord.                     *)
UserStep(c) == ExecAlloc(c) \/ HaltRelease(c)

(* What it does next inside a call.                                        *)
KernelStep(c) ==
    \/ ExecPaging(c) \/ ExecLoad(c) \/ ExecLoadFails(c) \/ ExecPcb(c)
    \/ ExecSchedule(c) \/ ExecReturn(c)
    \/ \E status \in Statuses : HaltDetach(c, status)
    \/ YieldPick(c) \/ YieldSwitch(c)

Next ==
    \/ BootShell
    \/ BootSwitch
    \/ \E c \in Pids : UserStep(c) \/ KernelStep(c) \/ Tick(c) \/ KernelFault(c)
    \/ Stopped

Spec == Init /\ [][Next]_vars

(* The boot code and a call in progress run on, and the timer, which is    *)
(* periodic, goes on to interrupt user code.                               *)
UserTick == \E c \in Pids : pc[c] = "user" /\ Tick(c)
FairSpec ==
    /\ Spec
    /\ WF_vars(BootShell \/ BootSwitch)
    /\ \A c \in Pids : SF_vars(KernelStep(c))
    /\ WF_vars(UserTick)

-----------------------------------------------------------------------------
Orderly == hit \cap QueueEvents = {} /\ ctx \in Pids

(* User code runs as the process the kernel takes it for: on its own       *)
(* kernel stack, with curr_process, curr_node and the active page          *)
(* directory all being that process.                                       *)
Coherent ==
    hit = {} /\ ctx \in Pids /\ pc[ctx] = "user" =>
        curr_process = ctx /\ curr_node = ctx /\ cr3 = ctx

(* The list links of schedule and pit_handler stay inverse to one another, *)
(* and tail is the last node, however calls and ticks interleave.          *)
QueueIntact ==
    Orderly =>
        /\ \A n \in Linked \cup {Sentinel} :
              /\ next[n] # Null /\ prev[n] # Null
              /\ prev[next[n]] = n /\ next[prev[n]] = n
        /\ tail = prev[Sentinel]

Building(p) == \E c \in Pids : pc[c] \in {"pcb", "current"} /\ local[c] = p

(* pid_arr marks exactly the processes that exist: one that is in the run  *)
(* queue and has not begun to halt, or one that a kexecute is building.    *)
PidsAccounted ==
    Orderly => \A p \in Pids :
        pid_arr[p] <=> Building(p) \/ (p \in Linked /\ pc[p] \notin {"halt", "unsched"})

(* The tree and the queue agree: a process that waits in kexecute is       *)
(* parked exactly while its child lives, and child and parent point at     *)
(* each other.                                                             *)
TreeMatchesQueue ==
    Orderly => \A p \in Linked :
        /\ running[p] = "INACTIVE" <=>
              \E q \in Linked : parent[q] = p /\ creator[q] = p
        /\ parent[p] # Null => child[parent[p]] = p /\ running[parent[p]] = "INACTIVE"
        /\ parent[p] = Null <=> p \in Shells \/ running[p] = "FINISHED"

(* No handler follows a NULL link or searches for ever.                    *)
NoKernelFault == hit \cap QueueEvents = {} => ctx # Dead

(* Every process executes the program that was loaded for it.              *)
ImagesIntact ==
    hit = {} /\ ctx # Dead => \A p \in Linked : image[p] = p

(* kexecute returns the status its own child halted with, whatever other   *)
(* processes did meanwhile.  (For an exception see ExceptionReported.)     *)
ReturnsChildStatus ==
    Orderly => \A p \in Linked :
        pc[p] = "user" => rval[p] = expect[p] \/ expect[p] = EXCEPTION_RETURN

(* No runnable process starves, whatever the others execute or halt: it    *)
(* gets the CPU, unless an event has happened.                             *)
NoStarvation ==
    \A p \in Pids : running[p] = "RUNNING" ~> ctx = p \/ hit # {}

(* A kexecute whose child has halted returns.                              *)
ExecuteReturns ==
    \A p \in Pids :
        pc[p] \in {"sched", "exec_pit", "return"} /\ running[p] = "RUNNING"
            ~> pc[p] = "user" \/ hit # {}

-----------------------------------------------------------------------------
(* What the repository says of the program and the code does not keep.     *)

(* A program that an exception ended makes execute return 256, the value   *)
(* the shell tests for.                                                    *)
ExceptionReported ==
    hit = {} /\ ctx \in Pids /\ pc[ctx] = "user" => rval[ctx] = expect[ctx]

(* kexecute schedules the new program: the process it queues is the one it *)
(* has just built.                                                         *)
SchedulesNewProgram ==
    [][\A c \in Pids : ExecSchedule(c) => next'[local[c]] # Null]_vars
=============================================================================
