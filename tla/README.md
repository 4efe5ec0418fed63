# Verification of the GalapagOS kernel

TLA+ models of the operating system in `src/`, the TLC configurations that check
them, and theorems about them that TLAPS checks. Paths without a directory are
in `src/student-distrib/`.

GalapagOS is a small preemptive kernel for one x86 processor. It runs three
shells, each on a terminal of its own, and the programs they execute; there are
six pids. System calls enter through a trap gate, so they run with interrupts
enabled: the timer can take the processor away in the middle of `kexecute`, and
a key can arrive while a line is being read. There are no locks besides
`cli`/`sti`. Nothing is persistent and nothing is sent over a network, so crashes
with recovery and lost messages do not occur; what is hard is the interleaving of
system calls, timer, keyboard and real-time clock.

## Parts of the system and their modules

| Part | Code | Modules |
|---|---|---|
| Run queue | `schedule.c` | `RunQueue`, abstract `TaskList`, refinement in `MCRunQueue`, proofs in `RunQueueRing`, `RunQueueProofs` |
| Processes | `file_array.c`, `schedule.c` | `Process`, `ProcessInv`, proofs in `ProcessProofs`, `ProcessSafety` |
| Kernel entry and exit, interrupt controllers, boot | `assembly_linkage.S`, `kernel.c`, `i8259.c`, `pit.c`, `int_handlers.c` | `Interrupts` |
| Terminal | `terminal.c` | `Terminal`, proofs in `TerminalProofs` |
| Command history | `int_handlers.c`, `terminal.c` | `History`, proofs in `HistoryProofs` |
| Video memory and terminal switch | `paging.c`, `terminal.c`, `file_array.c` | `VideoMemory`, proofs in `VideoMemoryProofs` |
| Files, RTC and the programs that use them | `file_array.c`, `file_system.c`, `rtc.c`, `src/syscalls/` | `Files`, `SysErr`, `MCFiles` |
| Libraries, command line, search | `lib.c`, `src/syscalls/ece391support.c` and others | `Memory`, `Library`, `MCLibrary`, proofs in `MemoryProofs` |

They interact as follows. `pit_handler` picks the next task from the run queue and
moves the processor to its kernel stack (`Process` composes `RunQueue` with
`kexecute` and `khalt`; `Interrupts` is the same switch at the level of the words
on the stacks). `keyboard_int` writes the characters it is given into the line of
the displayed terminal (`Terminal`) and into the history (`History`). Alt with a
function key exchanges the displayed image and the page table entries of the
programs that draw (`VideoMemory`). A module that needs a property of another
component assumes it in the form in which that component's run shows it: the
fairness of `Terminal` and `Files` is `NoStarvation` of `RunQueue`.

Two conventions hold in all modules.

* **Ghosts and events.** The code relies on things that its own interleavings can
  break. Where that happens a ghost variable (`hit`, `torn`, `crossed`, `raced`,
  `broken`) records it. The properties are stated for behaviours up to the first such event,
  and the event is listed among the hazards of `PROJECT.json` with the line at
  which it occurs. The properties therefore say that the system is correct
  as long as none of these events happens, and that the list of them is complete:
  no other interleaving breaks it.
* **Faulty variants.** A definition whose name ends in an underscore and a word, such
  as `NewStack_Short`, is a plausible mistake in the definition that follows it.
  With it in place of the definition TLC finds a counterexample; `PROJECT.json`
  lists which property it violates. No specification uses it.

### RunQueue, TaskList, MCRunQueue

The variables are the two links and the state of every node, `tail` and
`curr_node`; `Schedule`, `Unschedule` and `PitHandler` are the pointer assignments
of the code in their order. `TaskList` is the promise without pointers: a
sequence in order of scheduling, and a processor that goes round it. `MCRunQueue`
gives the refinement mapping, the order read along `next_task`.

### Process

`kexecute` and `khalt` are cut at every point at which a tick makes a difference:
choice of a pid, address space, loading, `pcb_init`, `set_current_process`,
`schedule`, the final `int $32`, and likewise in `khalt`. Four notions of the
current process are separate variables because they can disagree: `curr_process`,
`curr_node`, `cr3`, and the stack the processor is on. `ret_status` is a
`uint8_t`. Six events break an assumption of the code:
a tick between `set_current_process` and `cli` (`current`), a tick just before an
`int $32` (`exec_pit`, `halt_pit`), two `kexecute` that pick the same pid
(`race`), a tick while a program is loaded (`load`), and a load that fails
(`load_error`). With `Aftermath = TRUE` the model goes on behind them, with what
the code then does to its queue and tree.

### Interrupts

An instruction of a linkage is a step, and a kernel stack is a sequence of words
that say what they hold, so that a pop of the wrong word is visible. The code of
the linkages, of `entry`, and the parts of the C functions that touch the stack,
the interrupt flag or the controllers are sequences of instructions; an action
per kind of instruction executes them. The two controllers have a mask and an in-service
register each; a line is let through when no line of the same or a higher
priority is in service. `schedule` builds the stack of a new process as in
the code; the first shell starts by replacing the frame of `entry`. A system call
is `khalt`, `kexecute` or one of the others, which only return a result. What an
exception of a shell does after `khalt` has missed its frame is not followed (`broken`).

A request that the controller holds back is not a variable: a device that asked
earlier does no more than one that asks at the moment it is let through. Two
values that are never read again are forgotten (the `ebp` of a pcb once it is restored,
`retval` once it is loaded and nobody is between store and load), and a program
enters the kernel with registers of its own.

### Terminal

One terminal: cursor, line being typed, line entered last, and the process that
reads. Every array of `terminal.c` has one element per terminal and the terminals
share only which one is displayed. `put_char`, `terminal_write` and
`clear_terminal` run with interrupts disabled and are steps; `terminal_read` is
cut at each iteration of its loops.

### History

For each terminal a ring of `MAXHIST + 1` lines, the edited copy of it, and the
current command. `put_char` ends with `sti`, so from its first character on a
handler can be interrupted by another key on the same stack, and by the timer,
which continues on another stack: handlers on one stack end in reverse order,
those on different stacks in any order.

### VideoMemory

The page table entries of every process for the kernel's and the program's view of
the video memory, the roots and links that `swap_vid_mem` walks, and who drew the
image on each page. Alt+Fn comes at any point of `kexecute`, `khalt`, `kvidmap` and user code.

### Files, SysErr

Descriptor tables, the path from `kread` through `fs_read`, `read_data` and
`increment_position`, the directory cursor, `rtc_read` with `rtc_flag`, and the
common `retval`. A byte of the disk is a pair of block and offset, so that a wrong
byte is visible. The environment is the programs of `src/syscalls`: `cat`, `ls`, `grep`,
`pingpong`, and `syserr`, whose list of calls and accepted outcomes is `SysErr`.

### Memory, Library

`Memory` executes the assembly loops of `memset`, `memcpy` and `memmove` register by
register. `Library` holds the sequential algorithms: `strlen`, `strrev`, `itoa`,
string comparison and copying, `printf`, `putc`, the divider search of `rtc_write`,
the command line of `kexecute`, and `grep`; each is checked against an independent
definition of its result.

## Runs

`tlc -config <cfg> <module>` in this directory.

| Run | Module, cfg | What it shows |
|---|---|---|
| `runqueue` | `MCRunQueue`, `MCRunQueue.cfg` | The list implements `TaskList`: every step of the pointers is a step of round robin; no runnable task starves. |
| `process` | `ProcessInv`, `Process.cfg` | The inductive invariant `IInv`, which implies `QueueIntact`, and the safety properties proved from it; no starvation; a `kexecute` whose child has halted returns. |
| `process_aftermath` | `ProcessInv`, `ProcessAftermath.cfg` | Behind the events: those that only touch address spaces leave the queue intact and `pit_handler` always finds a task; nothing leaves its type. |
| `exception_status` | `ProcessInv`, `ProcessException.cfg` | Violated: after an exception `execute` returns 0 and not the 256 that the shell tests for. |
| `lost_child` | `ProcessInv`, `ProcessLostChild.cfg` | Violated: a tick in a window of `kexecute` makes it schedule the caller and lose the new program. |
| `terminal` | `Terminal`, `Terminal.cfg` | The reader gets the entered line, once, and returns; without tabs the line lies on the screen and nothing is written outside the line buffer and the screen; a key is shown. |
| `terminal_tab_buffer` | `Terminal`, `TerminalBuffer.cfg` | Violated: a tab near the end of a line is stored behind `linebuffer`. |
| `video` | `VideoMemory`, `VideoMemory.cfg` | Output goes to the terminal of its program, images are neither lost nor mixed, programs are loaded through their own directory. |
| `files` | `MCFiles`, `MCFiles.cfg` | The programs deliver exactly what is on the disk, and end; positions are per descriptor; `rtc_read` waits for a new interrupt and returns. |
| `library` | `MCLibrary`, `MCLibrary.cfg` | The copying loops fill exactly their destination and end; `LibraryConforms` collects the small functions, each against its definition on all small inputs; `printf`, the command line and `grep` likewise. |
| `history` | `History`, `History.cfg` | The ring keeps the last lines, indexes stay in range, a recalled line is the one saved and read. |
| `interrupts` | `Interrupts`, `Interrupts.cfg` | Frames match, registers and results reach their owner, a program starts or goes on with a clean kernel stack, devices are released, the timer switches only after all shells are queued. |

The three violations state what a comment or a program of the repository says and
the code does not do; `PROJECT.json` quotes the lines.

### Bounds

* `runqueue` has the sizes of the code, 6 pids and 3 shells.
* `process` has 4 pids and 2 shells: two programs at once, under one shell as a
  chain or under two, and a pid that is used again. The aftermath has 3 pids:
  one program is enough for every event, and the states behind the events are many.
* `terminal` has a screen of 3 by 2, a line of 3 and a tab of 2: a line wraps,
  scrolls, fills up, and meets the right edge of the last row.
* `video` has the 3 terminals and 2 programs besides the shells; one switch may be
  open when another key comes (`MaxNest`).
* `files` has 2 processes, blocks of 2 bytes, files of 2 and 3 bytes in one and two
  blocks, buffers of 2, 4 descriptors: reads that end within a block, at its end
  and across it, and a table that fills up. `MaxPosition` bounds the position of
  the RTC and of directories, which only counts.
* `library`: a memory of 13 bytes, so that copies of every alignment have a head,
  words and a tail; words of 8 bits for the numbers, all of them; strings of up to 4
  characters over two characters with different signs.
* `history` keeps one line besides the current one, in two slots, two terminals of which one has its
  history followed (`Active`), two handlers on two stacks, and three lines entered
  (`MaxNum`): the ring goes round. `MaxTyped` bounds the keys of a line. Stacks and handlers are symmetric: no
  definition tells them apart.
* `interrupts` has 2 shells and one program. A kernel stack holds at most 2 frames when an
  interrupt comes (`MaxNest`), that is, the frame of a system call, exception or handler and one more, and an
  interrupt of kernel code comes only while at most `MaxPreempted - 1` other
  processes that may run wait inside the kernel; while the program exists only its
  own kernel code and its parent's are interrupted. One preempted
  process and one running are enough for two calls to meet in `retval`, and for each pair
  of stack contents that a switch can connect.

Deadlock is checked except where the system may stop: a call in `library` ends, the
behaviours of `files` and `video` end at an event. In the others the model stutters explicitly behind an event.

### Fairness

* `RunQueue`, `Process`: the boot code and a call in progress run on (weak fairness
  of the kernel's steps, since the processor never stops), and the timer goes on to interrupt user
  code (it is periodic, and nothing masks it after `pit_init`). Nothing is assumed of programs: they need not halt.
* `Terminal`: a process in `terminal_read` is given the processor again and again,
  which `NoStarvation` shows. Nothing is assumed of keys.
* `Files`: every process makes steps, except while it waits for the RTC, and the RTC
  is periodic. Programs are those of the repository and do go on.
* `Memory`: the processor goes on with the next instruction.

## What is proved

For every value of the constants, checked by TLAPS (`tlapm <module>.tla`); the
comment before each theorem states it, and `PROJECT.json` lists them.

* **The run queue**, in `RunQueueRing` and `RunQueueProofs`. `RunQueueInvariant`: the two links
  of every node describe one ring through the sentinel, whose numbering the invariant
  gives as a function; nodes outside it are unlinked. From it,
  `RunQueueImplementsTaskList`: the pointer list implements the round robin of `TaskList`
  under the mapping of `MCRunQueue`, which reads the order along `next_task`. Every step
  of `schedule`, `unschedule` and `pit_handler` is a step of the abstract list or none. The
  search loop of `pit_handler` is shown to stop at the next runnable task of the order.
* **Type correctness of `Process`**, `TypeCorrect` in `ProcessProofs`, also behind events.
* **Safety of `Process`**, in `ProcessSafety`: `Invariance` of `IInv` (of `ProcessInv`), and from it
  `KernelNeverFaults`, `CurrentCoherent`, `LinksStayIntact`, `PidArrayExact`,
  `TreeAndQueueAgree`, `ProgramsIntact`, `StatusReachesParent`. None of the properties is
  inductive by itself: that `schedule` keeps the list intact needs that the pid it
  queues is not yet linked, which needs that `pid_arr` is exact, which needs that the
  process a stack is building is built by that stack alone, and so on. `IInv` collects, for the
  states without a queue event, the shape of the list, the boot order, what each control
  point knows of `curr_process` and its local, the tree, and the address spaces. The
  proof has one lemma per action.
* **The terminal**, in `TerminalProofs`: `LineStaysOnScreen`, `FaultsNeedTab`, `ReadsAreEntered` and
  the action property `KeysAreShown`, for every size of screen, line and tab.
  `TerminalInvariant` has two halves: the cursor is far enough into the screen
  for every backspace the line allows, and the copy loop of `terminal_read` has copied
  exactly a prefix of the line that was entered.
* **Video memory**, in `VideoMemoryProofs`: `OutputStaysHome`, `ImagesStaySeparate`, `LoadsStayPrivate`, for every
  number of terminals, programs and nested switches. `VideoInvariant` sees the tree of
  PCBs as one line of programs per terminal, with a function that numbers it; the
  walk of `swap_vid_mem` is that line, so it reaches every program of the terminal and none
  of another. The entries and images agree for the terminal that the open switch is about to display.
* **The command history**, in `HistoryProofs`, for every number of terminals, stacks and
  handlers and every size of ring and line buffer. `HistoryInRange`: the test of an arrow key is made before
  the characters are typed and the index is moved after them; the invariant says that
  the test still holds, because a handler that would have changed the index in
  between has put the terminal into `crossed`. `HistoryKeepsLines`: the ring, where lines that
  are kept together have different slots modulo `MAXHIST + 1`. `CommandFollowsEntry` and
  `LineFollowsKeys`: the invariant `Lines` says, for each place in the code of a handler, how
  the line buffer, `curr_cmd`, the edited copy and the index are related there, and that one
  handler at most works on a terminal that is not in `mixed`.
* **The copying loops**, `CopiesAreExact` in `MemoryProofs`, for every memory,
  alignment, length and overlap that a caller may pass. The invariant is
  `Registers /\ PartlyFilled`: each byte has its old or its final value, according
  to its side of the pointers, and the direction keeps the bytes still to be read
  out of the part that is finished.

The assumptions are the named ones of the modules: at least one shell and not more
shells than pids, statuses of one byte, memories that map addresses to bytes, and
the like. TLC evaluates them in every run.

Rings, lines and replays of keys need induction on numbers. The lemma `Induction` states it
for a set of numbers instead of a predicate and follows from the least element of
its complement; the recursive functions of `Follow`, `Chain`, `Home` and `Played` are shown with it to exist and
to satisfy their equations.

Only model-checked are

* the liveness properties, since fairness and `ENABLED` are beyond the prover;
* `Library`, whose recursive operators the prover does not load: each function is checked against
  its definition on all small inputs;
* the safety of `Files` and `Interrupts`, and the behaviour of `Process` behind the events apart from its types.

## Not modelled

* Modifier keys and the key map choose the character that the models take as input.
* The descriptor tables, the identity mapping and the port values of the drivers
  are constants. `paging_init` and `disable_irq` have no caller.
* `boot.S` and the multiboot information change no state of the kernel.
* `kset_handler` and `ksigreturn` return an error and nothing else.
* The shell, `counter`, `hello`, `testprint` and `sigtest` are, for the kernel, sequences of
  calls; `Process` and `Interrupts` allow every sequence.
* The emulation of the system calls under Linux is not part of the system, and
  the fish animation is output.
* The contents of the screen, the size of a kernel stack in bytes, and what a write outside an array
  hits: such a write is recorded as a fault and ends the behaviour. That
  `retval` shares its address with the first instruction of `divide_by_zero_linkage` is such a write.
* Wall-clock time: how often the timer or the RTC fires compared with the speed of the processor.
