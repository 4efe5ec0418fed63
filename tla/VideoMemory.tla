---------------------------- MODULE VideoMemory -----------------------------
(***************************************************************************)
(* Who draws where: the page table entries of the video memory (paging.c), *)
(* the terminal switch of Alt+Fn (terminal.c, swap_vid_mem of              *)
(* file_array.c), and the points of kexecute, khalt and kvidmap at which   *)
(* they meet.                                                              *)
(*                                                                         *)
(* The displayed terminal's programs draw on the VGA page, those of the    *)
(* others on the backing page of their terminal.  A switch copies the two  *)
(* images and rewrites the entries of the programs it finds by walking     *)
(* from the roots of the two terminals along the child links.  A page is   *)
(* its distance from VIDMEM_PAGE_BASE.                                     *)
(*                                                                         *)
(* Keys are handled wherever interrupts are enabled, inside kexecute too.  *)
(* Ticks inside kexecute are the subject of Process; here they fall in     *)
(* user code and in the window of a terminal switch.  Which runnable       *)
(* process a tick picks is the subject of RunQueue.  Behaviours are        *)
(* followed up to the first event that breaks an assumption of the code.   *)
(***************************************************************************)
EXTENDS Integers, Sequences, FiniteSets

CONSTANTS NumTasks, NumShells,
          MaxNest       \* bound: terminal switches open on one kernel stack

ASSUME SizeAssumption ==
    /\ NumTasks \in Nat /\ NumShells \in Nat \ {0}
    /\ NumShells <= NumTasks
    /\ MaxNest \in Nat

Pids == 0 .. NumTasks - 1
Shells == 0 .. NumShells - 1        \* also the terminals
Null == -1
VGA == 0
Backing(t) == t + 1
Pages == 0 .. NumShells

VARIABLES
    curr_terminal,
    curr_process,
    cr3,
    pid_arr,        \* pids in use
    parent, child,  \* links of the PCB tree
    vidmem,         \* page_tables[pid]: the page behind 0xb8000
    vidmap,         \* vid_tables[pid]: the page behind 0xdeadb000
    mapped,         \* whether 0xdeadb000 is present
    pc,             \* where in kexecute a process is
    new,            \* the pid its kexecute took
    switching,      \* per kernel stack, the open switches, innermost first
    \* what the properties remember
    images,         \* per page, the terminals whose output it shows
    hit             \* whether an assumption of the code was broken

pcbVars == <<pid_arr, parent, child>>
pteVars == <<vidmem, vidmap, mapped>>
execVars == <<pc, new>>
vars == <<curr_terminal, curr_process, cr3, pcbVars, pteVars, execVars,
          switching, images, hit>>

(* The state after boot: the shells run, the first one is displayed.       *)
Init ==
    /\ curr_terminal = 0 /\ curr_process = 0 /\ cr3 = 0
    /\ pid_arr = [p \in Pids |-> p \in Shells]
    /\ parent = [p \in Pids |-> Null]
    /\ child = [p \in Pids |-> Null]
    /\ vidmem = [p \in Pids |-> IF p \in Shells \ {0} THEN Backing(p) ELSE VGA]
    /\ vidmap = [p \in Pids |-> VGA]
    /\ mapped = [p \in Pids |-> FALSE]
    /\ pc = [p \in Pids |-> IF p \in Shells THEN "user" ELSE "none"]
    /\ new = [p \in Pids |-> Null]
    /\ switching = [p \in Pids |-> <<>>]
    /\ images = [g \in Pages |-> {IF g = VGA THEN 0 ELSE g - 1}]
    /\ hit = FALSE

(* The process whose kernel stack the CPU executes on.  curr_process is    *)
(* already the child when kexecute has made it the current process.        *)
Running ==
    IF pc[curr_process] = "born" THEN parent[curr_process] ELSE curr_process

(* The chain of programs of a terminal, as swap_vid_mem walks it.          *)
Chain(t) ==
    LET walk[n \in Pids] ==
            IF n = 0 THEN t
            ELSE IF walk[n - 1] = Null THEN Null ELSE child[walk[n - 1]]
    IN  {walk[n] : n \in Pids} \ {Null}

(* The terminal a program belongs to: the one whose shell it descends from.*)
Home(p) ==
    LET up[n \in Pids] ==
            IF n = 0 THEN p
            ELSE IF parent[up[n - 1]] = Null THEN up[n - 1]
                 ELSE parent[up[n - 1]]
    IN  up[NumTasks - 1]

-----------------------------------------------------------------------------
(* Terminal switches: switch_terminals up to the sti in swap_vid_mem.      *)

(* Only the shells are remapped, not the programs below them.              *)
Remapped_RootsOnly(entry, old, t) ==
    [entry EXCEPT ![t] = VGA, ![old] = Backing(old)]

Remapped(entry, old, t) ==
    [p \in Pids |-> IF p \in Chain(t) THEN VGA
                    ELSE IF p \in Chain(old) THEN Backing(old)
                    ELSE entry[p]]

(* The VGA page is saved before it is overwritten.                         *)
CopiedImages(old, t) ==
    [images EXCEPT ![Backing(old)] = images[VGA],
                   ![VGA] = images[Backing(t)]]

Open == {s \in Pids : switching[s] # <<>>}

SwitchTerminals(t) ==
    /\ t # curr_terminal
    /\ Len(switching[Running]) < MaxNest
    /\ images' = CopiedImages(curr_terminal, t)
    /\ vidmem' = Remapped(vidmem, curr_terminal, t)
    /\ vidmap' = Remapped(vidmap, curr_terminal, t)
    /\ switching' = [switching EXCEPT ![Running] = <<t>> \o @]
    /\ hit' = (pc[Running] \in {"load", "loaded"} \/ Open # {})
    /\ UNCHANGED <<curr_terminal, curr_process, cr3, pcbVars, mapped,
                   execVars>>

(* The rest of it: set_cr3 of the current process, then curr_terminal.     *)
SwitchDone ==
    /\ switching[Running] # <<>>
    /\ cr3' = curr_process
    /\ curr_terminal' = Head(switching[Running])
    /\ switching' = [switching EXCEPT ![Running] = Tail(@)]
    /\ UNCHANGED <<curr_process, pcbVars, pteVars, execVars, images, hit>>

Runnable == {p \in Pids : pc[p] = "user"}

(* The timer gives the CPU to another runnable process.                    *)
Tick(p) ==
    /\ pc[curr_process] = "user"
    /\ p \in Runnable \ {curr_process}
    /\ curr_process' = p /\ cr3' = p
    /\ UNCHANGED <<curr_terminal, pcbVars, pteVars, execVars, switching,
                   images, hit>>

-----------------------------------------------------------------------------
(* kexecute, khalt and kvidmap, called by the running process.             *)

At(p, point) == Running = p /\ pc[p] = point /\ switching[p] = <<>>

Inherited(p, q) == vidmem' = [vidmem EXCEPT ![q] = vidmem[p]]

(* The child's directory is not made active.                               *)
Activated_Not(q) == UNCHANGED cr3
Activated(q) == cr3' = q

(* free_pid_idx and new_paging.                                            *)
NewPaging(p) ==
    \E q \in Pids :
       /\ At(p, "user")
       /\ ~pid_arr[q] /\ \A r \in Pids : ~pid_arr[r] => q <= r
       /\ Inherited(p, q)
       /\ Activated(q)
       /\ pc' = [pc EXCEPT ![p] = "load"]
       /\ new' = [new EXCEPT ![p] = q]
       /\ UNCHANGED <<curr_terminal, curr_process, pcbVars, vidmap, mapped,
                      switching, images, hit>>

(* read_data copies the program to 0x08048000 of the active address space; *)
(* the pid is taken.                                                       *)
Load(p) ==
    /\ At(p, "load")
    /\ pid_arr' = [pid_arr EXCEPT ![new[p]] = TRUE]
    /\ pc' = [pc EXCEPT ![p] = "loaded"]
    /\ UNCHANGED <<curr_terminal, curr_process, cr3, parent, child,
                   pteVars, new, switching, images, hit>>

(* pcb_init and set_current_process.  The terminal of the PCB chooses the  *)
(* cursor and the keyboard line, no page.                                  *)
PcbInit(p) ==
    LET q == new[p] IN
    /\ At(p, "loaded")
    /\ parent' = [parent EXCEPT ![q] = p]
    /\ child' = [child EXCEPT ![q] = Null, ![p] = q]
    /\ curr_process' = q
    /\ pc' = [pc EXCEPT ![p] = "wait", ![q] = "born"]
    /\ UNCHANGED <<curr_terminal, cr3, pid_arr, pteVars, new, switching,
                   images, hit>>

(* switch_paging to the parent, schedule, and int $32, which switches to   *)
(* some runnable process.                                                  *)
Dispatch(p) ==
    LET q == curr_process IN
    /\ Running = p /\ pc[q] = "born" /\ switching[p] = <<>>
    /\ pc' = [pc EXCEPT ![q] = "user"]
    /\ \E r \in Runnable \cup {q} : curr_process' = r /\ cr3' = r
    /\ UNCHANGED <<curr_terminal, pcbVars, pteVars, new, switching, images,
                   hit>>

(* The parent keeps its link to the program that halted.                   *)
Unlinked_Not(p) == UNCHANGED child
Unlinked(p) == child' = [child EXCEPT ![parent[p]] = Null]

(* khalt of a program.  A shell that halts is started again and keeps its  *)
(* pid, its place in the tree and its pages.                               *)
Halt(p) ==
    /\ At(p, "user") /\ p \notin Shells
    /\ pid_arr' = [pid_arr EXCEPT ![p] = FALSE]
    /\ mapped' = [mapped EXCEPT ![p] = FALSE]
    /\ Unlinked(p)
    /\ parent' = [parent EXCEPT ![p] = Null]
    /\ pc' = [pc EXCEPT ![p] = "none", ![parent[p]] = "user"]
    /\ new' = [new EXCEPT ![parent[p]] = Null]
    /\ \E r \in (Runnable \ {p}) \cup {parent[p]} :
          curr_process' = r /\ cr3' = r
    /\ UNCHANGED <<curr_terminal, vidmem, vidmap, switching,
                   images, hit>>

(* kvidmap, which the shell never calls: the entry becomes present and     *)
(* keeps the page it had.                                                  *)
Vidmap(p) ==
    /\ At(p, "user") /\ p \notin Shells
    /\ mapped' = [mapped EXCEPT ![p] = TRUE]
    /\ cr3' = p
    /\ UNCHANGED <<curr_terminal, curr_process, pcbVars, vidmem, vidmap,
                   execVars, switching, images, hit>>

-----------------------------------------------------------------------------
(* What the running process shows.                                         *)

PageOf(t) == IF t = curr_terminal THEN VGA ELSE Backing(t)

(* terminal_write draws through 0xb8000 of the active address space.       *)
Write(p) ==
    /\ At(p, "user")
    /\ images' = [images EXCEPT ![vidmem[cr3]] = @ \cup {Home(p)}]
    /\ UNCHANGED <<curr_terminal, curr_process, cr3, pcbVars, pteVars,
                   execVars, switching, hit>>

(* The program draws through its own mapping.                              *)
Draw(p) ==
    /\ At(p, "user") /\ mapped[p]
    /\ images' = [images EXCEPT ![vidmap[p]] = @ \cup {Home(p)}]
    /\ hit' = (vidmap[p] # vidmem[p])
    /\ UNCHANGED <<curr_terminal, curr_process, cr3, pcbVars, pteVars,
                   execVars, switching>>

Next ==
    /\ ~hit
    /\ \/ \E t \in Shells : SwitchTerminals(t)
       \/ SwitchDone
       \/ \E p \in Pids :
             \/ Tick(p) \/ NewPaging(p) \/ Load(p) \/ PcbInit(p) \/ Dispatch(p)
             \/ Halt(p) \/ Vidmap(p) \/ Write(p) \/ Draw(p)

Spec == Init /\ [][Next]_vars

-----------------------------------------------------------------------------
(* Properties.                                                             *)

(* The page tables only ever name the VGA page and the backing pages, the  *)
(* PCB links only pids, and every control point is one of kexecute's.      *)
TypeOK ==
    /\ curr_terminal \in Shells
    /\ curr_process \in Pids /\ cr3 \in Pids
    /\ pid_arr \in [Pids -> BOOLEAN]
    /\ parent \in [Pids -> Pids \cup {Null}]
    /\ child \in [Pids -> Pids \cup {Null}]
    /\ vidmem \in [Pids -> Pages] /\ vidmap \in [Pids -> Pages]
    /\ mapped \in [Pids -> BOOLEAN]
    /\ pc \in [Pids -> {"none", "user", "load", "loaded", "wait", "born"}]
    /\ new \in [Pids -> Pids \cup {Null}]
    /\ switching \in [Pids -> Seq(Shells)]
    /\ images \in [Pages -> SUBSET Shells]
    /\ hit \in BOOLEAN

Live == {p \in Pids : pc[p] \in {"user", "wait", "born"}}

(* Between switches, what a program writes goes to the VGA page exactly    *)
(* when its own terminal is the displayed one and to that terminal's       *)
(* backing page otherwise: programs started, halted and their pids used    *)
(* again in any terminal, displayed or not, are found by swap_vid_mem's    *)
(* walk.  Two keys break it: one between new_paging and pcb_init, when the *)
(* new program is not in the tree yet, and one inside an open switch.      *)
WritesToOwnTerminal ==
    Open = {} /\ ~hit => \A p \in Live : vidmem[p] = PageOf(Home(p))

(* No terminal's image is lost or shows another terminal's output: the VGA *)
(* page holds the displayed terminal's and every backing page of a hidden  *)
(* terminal its own, whatever the interleaving of switches, programs and   *)
(* output, as long as no program drew through a stale vidmap entry; and    *)
(* the page tables name no other page.                                     *)
ImagesSeparate ==
    /\ TypeOK
    /\ Open = {} /\ ~hit => \A t \in Shells : images[PageOf(t)] = {t}

(* A program is loaded through its own page directory, although a terminal *)
(* switch loads cr3 with the directory of curr_process, which is still the *)
(* parent's while kexecute loads the child: only a switch in that very     *)
(* window redirects the load, none before it.                              *)
LoadsThroughOwnDirectory ==
    ~hit => \A p \in Pids : At(p, "load") => cr3 = new[p]
=============================================================================
