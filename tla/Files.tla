------------------------------- MODULE Files --------------------------------
(***************************************************************************)
(* Files: the descriptor tables and kopen, kread, kclose of file_array.c,  *)
(* the read-only file system of file_system.c, the RTC driver, the common  *)
(* return path of the system calls, and the programs cat, ls, grep,        *)
(* pingpong and syserr of src/syscalls that use them.                      *)
(*                                                                         *)
(* A descriptor table belongs to a process and the disk is read-only, so   *)
(* most calls are one step.  Shared between processes, and touched with    *)
(* interrupts enabled, are three words: the directory cursor               *)
(* curr_file_number, rtc_flag, and the retval through which every system   *)
(* call passes its result.  Behaviours are followed up to the first time   *)
(* two processes meet in one of them; hit names it.                        *)
(*                                                                         *)
(* A byte of the disk is the pair of its block and its offset.  The writes *)
(* of the programs to stdout are appended to out; see Terminal for them.   *)
(***************************************************************************)
EXTENDS Integers, Sequences, FiniteSetsExt, SequencesExt, SysErr

CONSTANTS
    Procs,
    Dentries,           \* boot_block->entries: [name, type, inode]
    Inodes,             \* [length, blocks], from 0
    NumDataBlocks, BLOCK_SIZE,
    MaxPosition,        \* bound on the position of a closed descriptor
    BufSize,            \* the count programs pass to read
    Jobs                \* what the shells execute: [prog, arg]

ASSUME DiskAssumption ==
    /\ \A e \in 1 .. Len(Dentries) : Dentries[e].inode \in DOMAIN Inodes
    /\ \A i \in DOMAIN Inodes :
          Inodes[i].length <= BLOCK_SIZE * Len(Inodes[i].blocks)
    /\ \A i \in DOMAIN Inodes : Inodes[i].length < MaxPosition
    /\ FILE_ARRAY_SIZE > 2

ERROR == -1
FD_START == 2
Fds == 0 .. FILE_ARRAY_SIZE - 1
NULL == -1

VARIABLES
    desc,               \* per process, its descriptors
    curr_file_number,   \* the directory cursor
    rtc_flag,
    retval,
    kernel,             \* where in a system call a process is
    eax,                \* the result the program sees
    buf,                \* what the last read put into its buffer
    job, pc, fd, ffd,   \* program, where it is, its two descriptors
    out,                \* what it has written
    lister,             \* the process in the middle of a listing
    woken,              \* processes whose rtc_read an interrupt has met
    hit                 \* where two processes met

progVars == <<job, pc, fd, ffd, out>>
vars == <<desc, curr_file_number, rtc_flag, retval, kernel, eax, buf,
          progVars, lister, woken, hit>>

NoJob == [prog |-> "none", arg |-> "none"]
Free == [flags |-> "free", inode |-> NULL, pos |-> 0]

(* set_current_process clears the flags, open_stdin_stdout takes 0 and 1.  *)
(* The inode and position that an earlier program of the pid left behind   *)
(* are forgotten here: fd_init writes both before anything reads them.     *)
Fresh ==
    [f \in Fds |-> IF f = 0 THEN [Free EXCEPT !.flags = "stdin"]
                   ELSE IF f = 1 THEN [Free EXCEPT !.flags = "stdout"]
                   ELSE Free]

Init ==
    /\ desc = [p \in Procs |-> [f \in Fds |-> Free]]
    /\ curr_file_number = 0
    /\ rtc_flag = FALSE
    /\ retval = 0
    /\ kernel = [p \in Procs |-> "user"]
    /\ eax = [p \in Procs |-> 0]
    /\ buf = [p \in Procs |-> <<>>]
    /\ job = [p \in Procs |-> NoJob]
    /\ pc = [p \in Procs |-> "shell"]
    /\ fd = [p \in Procs |-> 0] /\ ffd = [p \in Procs |-> 0]
    /\ out = [p \in Procs |-> <<>>]
    /\ lister = {} /\ woken = {} /\ hit = "none"

-----------------------------------------------------------------------------
(* The file system.                                                        *)

Named(name) == {e \in 1 .. Len(Dentries) : Dentries[e].name = name}

(* read_dentry_by_name: the first entry with the name, or 0.               *)
DentryByName(name) == IF Named(name) = {} THEN 0 ELSE Min(Named(name))

(* return_dentry_by_ptr: the name of the first entry with the inode, which *)
(* for inode 0 is an entry of the directory or of the RTC.                 *)
NameOfInode(i) ==
    Dentries[Min({e \in 1 .. Len(Dentries) : Dentries[e].inode = i})].name

(* The index moves on one byte late.                                       *)
BlockIndex_Late(offset) ==
    LET idx[i \in Nat] ==
            IF i = 0 THEN offset \div BLOCK_SIZE
            ELSE idx[i - 1] + (IF (offset + i - 1) % BLOCK_SIZE = 0 /\ i > 1
                               THEN 1 ELSE 0)
    IN  idx

(* The index into data_blocks that the loop of read_data has at byte i.    *)
BlockIndex(offset) ==
    LET idx[i \in Nat] ==
            IF i = 0 THEN offset \div BLOCK_SIZE
            ELSE idx[i - 1] + (IF (offset + i) % BLOCK_SIZE = 0 THEN 1 ELSE 0)
    IN  idx

ReadData(i, offset, length) ==
    LET left == Inodes[i].length - offset
        n == IF left <= 0 THEN 0 ELSE Min({length, left})
        block(k) == Inodes[i].blocks[BlockIndex(offset)[k] + 1]
    IN  IF \E k \in 0 .. n - 1 : block(k) > NumDataBlocks - 1
        THEN [ret |-> ERROR, data |-> <<>>]
        ELSE [ret |-> n,
              data |-> [k \in 1 .. n |->
                          <<block(k - 1), (offset + k - 1) % BLOCK_SIZE>>]]

-----------------------------------------------------------------------------
Exits == {"exit0", "exit2", "exit3"}

(* System calls: the handler, then movl %eax,retval; popal; movl           *)
(* retval,%eax, with interrupts enabled between the two.                   *)

Meets(where, others) == IF others = {} THEN hit ELSE where

Result(p, r) ==
    /\ retval' = r
    /\ kernel' = [kernel EXCEPT ![p] = "ret"]
    /\ hit' = Meets("retval", {q \in Procs \ {p} : kernel[q] = "ret"})

Return(p) ==
    /\ kernel[p] = "ret"
    /\ eax' = [eax EXCEPT ![p] = retval]
    /\ kernel' = [kernel EXCEPT ![p] = "done"]
    /\ UNCHANGED <<desc, curr_file_number, rtc_flag, retval, buf, progVars,
                   lister, woken, hit>>

(* The program's next call, from where its code is.                        *)
NextCall(p) ==
    CASE pc[p] = "open" ->
           [op |-> "open",
            arg |-> [cat |-> job[p].arg, ls |-> ".", grep |-> ".",
                     pingpong |-> "rtc"][job[p].prog]]
      [] pc[p] = "fopen" -> [op |-> "open", arg |-> buf[p][1]]
      [] pc[p] = "read" -> [op |-> "read", arg |-> fd[p]]
      [] pc[p] = "fread" -> [op |-> "read", arg |-> ffd[p]]
      [] pc[p] = "fclose" -> [op |-> "close", arg |-> ffd[p]]
      [] pc[p] = "syserr" -> SysErrCalls[ffd[p] + 1]

Calls(p, op) ==
    kernel[p] = "user" /\ pc[p] \notin Exits \cup {"shell"} /\ NextCall(p).op = op
Arg(p) == NextCall(p).arg

FreeFds(p) == {f \in FD_START .. FILE_ARRAY_SIZE - 1 :
                 desc[p][f].flags = "free"}

(* A descriptor used again keeps its position.                             *)
Opened_KeepsPosition(old, e) ==
    [flags |-> e.type, pos |-> old.pos,
     inode |-> IF e.type = "file" THEN e.inode ELSE NULL]

(* fd_init.                                                                *)
Opened(old, e) ==
    [flags |-> e.type, pos |-> 0,
     inode |-> IF e.type = "file" THEN e.inode ELSE NULL]

(* kopen.                                                                  *)
Open(p) ==
    LET e == DentryByName(Arg(p))
        f == Min(FreeFds(p))
    IN  /\ Calls(p, "open")
        /\ IF FreeFds(p) = {} \/ e = 0
           THEN Result(p, ERROR) /\ UNCHANGED desc
           ELSE /\ Result(p, f)
                /\ desc' = [desc EXCEPT ![p][f] = Opened(@, Dentries[e])]
        /\ UNCHANGED <<curr_file_number, rtc_flag, eax, buf, progVars, lister,
                       woken>>

(* What kread and kwrite refuse, or kvidmap for a pointer outside the      *)
(* user's page, or the linkage for a number that is no system call.        *)
Unusable(p, kinds) == Arg(p) \in Fds => desc[p][Arg(p)].flags \in kinds

Refuse(p) ==
    /\ \/ Calls(p, "read") /\ Unusable(p, {"free", "stdout"})
       \/ Calls(p, "write") /\ Unusable(p, {"free", "stdin"})
       \/ Calls(p, "vidmap") /\ Arg(p) \in {"null", "kernel"}
       \/ Calls(p, "number") /\ Arg(p) \notin 1 .. 10
    /\ Result(p, ERROR)
    /\ UNCHANGED <<desc, curr_file_number, rtc_flag, eax, buf, progVars,
                   lister, woken>>

Reads(p, type) ==
    /\ Calls(p, "read") /\ Arg(p) \in Fds
    /\ desc[p][Arg(p)].flags = type

(* increment_position moves every descriptor with the inode, closed ones   *)
(* included; one of those may go past the end of the file.                 *)
IncrementPosition(table, i, amt) ==
    [f \in Fds |-> IF f >= FD_START /\ table[f].inode = i
                   THEN [table[f] EXCEPT !.pos = Min({@ + amt, MaxPosition})]
                   ELSE table[f]]

(* grep reads as much as fits behind the line it keeps.                    *)
CountArg(p) == IF pc[p] = "fread" THEN 1 .. BufSize ELSE {BufSize}

(* kread of a file: fs_read goes from the inode to a name and back.        *)
ReadFile(p) ==
    \E nbytes \in CountArg(p) :
    LET d == desc[p][Arg(p)]
        r == ReadData(Dentries[DentryByName(NameOfInode(d.inode))].inode,
                      d.pos, nbytes)
    IN  /\ Reads(p, "file")
        /\ buf' = [buf EXCEPT ![p] = r.data]
        /\ desc' = [desc EXCEPT ![p] = IncrementPosition(@, d.inode, r.ret)]
        /\ Result(p, r.ret)
        /\ UNCHANGED <<curr_file_number, rtc_flag, eax, progVars, lister,
                       woken>>

(* kread of the directory.  The end resets the cursor.                     *)
DirEnd(p) ==
    /\ Reads(p, "dir") /\ curr_file_number >= Len(Dentries)
    /\ curr_file_number' = 0
    /\ lister' = {}
    /\ retval' = 0 /\ kernel' = [kernel EXCEPT ![p] = "ret"]
    /\ hit' = IF lister # {p} THEN "directory"
              ELSE Meets("retval", {q \in Procs \ {p} : kernel[q] = "ret"})
    /\ buf' = [buf EXCEPT ![p] = <<>>]
    /\ UNCHANGED <<desc, rtc_flag, eax, progVars, woken>>

(* Otherwise the name under the cursor is copied, byte by byte ...         *)
DirName(p) ==
    /\ Reads(p, "dir") /\ curr_file_number < Len(Dentries)
    /\ kernel' = [kernel EXCEPT ![p] = "dir"]
    /\ buf' = [buf EXCEPT ![p] = <<Dentries[curr_file_number + 1].name>>]
    /\ lister' = {p}
    /\ hit' = Meets("directory", lister \ {p})
    /\ UNCHANGED <<desc, curr_file_number, rtc_flag, retval, eax, progVars,
                   woken>>

(* ... and the cursor is moved on.  A name is one byte long here.          *)
DirNext(p) ==
    /\ kernel[p] = "dir"
    /\ curr_file_number' = curr_file_number + 1
    /\ Result(p, 1)
    /\ UNCHANGED <<desc, rtc_flag, eax, buf, progVars, lister, woken>>

(* A flag set by an earlier interrupt counts.                              *)
ClearFlag_Not == UNCHANGED rtc_flag
ClearFlag == rtc_flag' = FALSE

(* kread of the RTC: rtc_read clears the flag and waits for it.            *)
RtcRead(p) ==
    /\ Reads(p, "rtc")
    /\ ClearFlag
    /\ kernel' = [kernel EXCEPT ![p] = "rtc"]
    /\ hit' = Meets("rtc", IF rtc_flag THEN {q \in Procs : kernel[q] = "rtc"}
                           ELSE {})
    /\ UNCHANGED <<desc, curr_file_number, retval, eax, buf, progVars, lister,
                   woken>>

RtcWake(p) ==
    /\ kernel[p] = "rtc" /\ rtc_flag
    /\ buf' = [buf EXCEPT ![p] = <<>>]
    /\ woken' = woken \ {p}
    /\ Result(p, 0)
    /\ UNCHANGED <<desc, curr_file_number, rtc_flag, eax, progVars, lister>>

(* The handler only acknowledges the interrupt.                            *)
SetFlag_Not == UNCHANGED rtc_flag
SetFlag == rtc_flag' = TRUE

(* rtc_int.                                                                *)
RtcInt ==
    /\ SetFlag
    /\ woken' = {p \in Procs : kernel[p] = "rtc"}
    /\ UNCHANGED <<desc, curr_file_number, retval, kernel, eax, buf, progVars,
                   lister, hit>>

(* kclose leaves the inode and the position.                               *)
Closed(table, f) == [table EXCEPT ![f].flags = "free"]

Close(p) ==
    /\ Calls(p, "close")
    /\ IF Arg(p) \notin FD_START .. FILE_ARRAY_SIZE - 1
          \/ desc[p][Arg(p)].flags = "free"
       THEN Result(p, ERROR) /\ UNCHANGED desc
       ELSE Result(p, 0)
            /\ desc' = [desc EXCEPT ![p] = Closed(@, Arg(p))]
    /\ UNCHANGED <<curr_file_number, rtc_flag, eax, buf, progVars, lister,
                   woken>>

-----------------------------------------------------------------------------
(* The programs, from the return of one call to the next.  A program ends  *)
(* at exit0, exit2 or exit3, named for the status of main.                 *)

Proceeds(p, to, text) ==
    /\ kernel' = [kernel EXCEPT ![p] = "user"]
    /\ pc' = [pc EXCEPT ![p] = to]
    /\ out' = [out EXCEPT ![p] = @ \o text]
    /\ UNCHANGED <<desc, curr_file_number, rtc_flag, retval, eax, buf, job,
                   lister, woken, hit>>

Done(p, at) == kernel[p] = "done" /\ pc[p] = at

AfterOpen(p) ==
    /\ Done(p, "open")
    /\ fd' = [fd EXCEPT ![p] = eax[p]] /\ UNCHANGED ffd
    /\ Proceeds(p, IF eax[p] = ERROR THEN "exit2" ELSE "read", <<>>)

(* The loop of cat, ls and grep around read.                               *)
Loop(p, prog, to, text) ==
    /\ Done(p, "read") /\ job[p].prog = prog /\ UNCHANGED <<fd, ffd>>
    /\ CASE eax[p] = ERROR -> Proceeds(p, "exit3", <<>>)
         [] eax[p] = 0 -> Proceeds(p, "exit0", <<>>)
         [] eax[p] > 0 -> Proceeds(p, to, text)

CatRead(p) == Loop(p, "cat", "read", buf[p])
LsRead(p) == Loop(p, "ls", "read", buf[p])

(* grep opens what is not the directory.                                   *)
GrepRead(p) ==
    Loop(p, "grep", IF buf[p][1] = "." THEN "read" ELSE "fopen", <<>>)

(* pingpong ignores the result and goes on for ever.                       *)
PingpongRead(p) ==
    /\ Done(p, "read") /\ job[p].prog = "pingpong" /\ UNCHANGED <<fd, ffd>>
    /\ Proceeds(p, "read", <<>>)

(* do_one_file of grep; out collects the data it searches.                 *)
AfterFileCall(p) ==
    /\ kernel[p] = "done" /\ pc[p] \in {"fopen", "fread", "fclose"}
    /\ UNCHANGED fd
    /\ ffd' = IF pc[p] = "fopen" THEN [ffd EXCEPT ![p] = eax[p]] ELSE ffd
    /\ IF eax[p] = ERROR THEN Proceeds(p, "exit3", <<>>)
       ELSE CASE pc[p] = "fopen" -> Proceeds(p, "fread", <<>>)
              [] pc[p] = "fread" /\ eax[p] > 0 -> Proceeds(p, "fread", buf[p])
              [] pc[p] = "fread" /\ eax[p] = 0 -> Proceeds(p, "fclose", <<>>)
              [] pc[p] = "fclose" -> Proceeds(p, "read", <<>>)

(* syserr prints a line for every call that does not end as it should;     *)
(* ffd counts the calls.                                                   *)
AfterTest(p) ==
    LET bad == (eax[p] = ERROR) # SysErrCalls[ffd[p] + 1].fails
        report == IF bad THEN <<"fail">> ELSE <<>>
        last == ffd[p] + 1 = Len(SysErrCalls)
    IN  /\ Done(p, "syserr") /\ UNCHANGED fd
        /\ ffd' = [ffd EXCEPT ![p] = IF last THEN 0 ELSE @ + 1]
        /\ Proceeds(p, IF ~last THEN "syserr"
                       ELSE IF out[p] \o report = <<>> THEN "exit0"
                       ELSE "exit2", report)

(* main returned: khalt closes the descriptors.  The shell runs.           *)
Exit(p) ==
    /\ pc[p] \in Exits
    /\ desc' = [desc EXCEPT ![p] =
                  [f \in Fds |-> IF f < FD_START THEN @[f] ELSE Free]]
    /\ pc' = [pc EXCEPT ![p] = "shell"]
    /\ job' = [job EXCEPT ![p] = NoJob]
    /\ eax' = [eax EXCEPT ![p] = 0] /\ buf' = [buf EXCEPT ![p] = <<>>]
    /\ fd' = [fd EXCEPT ![p] = 0] /\ ffd' = [ffd EXCEPT ![p] = 0]
    /\ out' = [out EXCEPT ![p] = <<>>]
    /\ UNCHANGED <<curr_file_number, rtc_flag, retval, kernel, lister, woken,
                   hit>>

(* The shell executes a program, with the descriptor table of its pid.     *)
Execute(p) ==
    /\ pc[p] = "shell"
    /\ \E j \in Jobs :
          /\ job' = [job EXCEPT ![p] = j]
          /\ pc' = [pc EXCEPT ![p] =
                      IF j.prog = "syserr" THEN "syserr" ELSE "open"]
    /\ desc' = [desc EXCEPT ![p] = Fresh]
    /\ UNCHANGED <<curr_file_number, rtc_flag, retval, kernel, eax, buf, fd,
                   ffd, out, lister, woken, hit>>

Step(p) ==
    \/ Open(p) \/ Close(p) \/ Refuse(p) \/ ReadFile(p) \/ DirEnd(p) \/ DirName(p)
    \/ DirNext(p) \/ RtcRead(p) \/ RtcWake(p) \/ Return(p)
    \/ AfterOpen(p) \/ CatRead(p) \/ LsRead(p) \/ GrepRead(p)
    \/ PingpongRead(p) \/ AfterFileCall(p) \/ AfterTest(p) \/ Exit(p)

Next == hit = "none" /\ (RtcInt \/ \E p \in Procs : Step(p) \/ Execute(p))

Spec == Init /\ [][Next]_vars

(* Every process is scheduled (RunQueue) and the RTC is periodic.  A step  *)
(* of a process is possible except in its shell and before the interrupt   *)
(* it waits for, and moves its program or its system call on.              *)
CanStep(p) ==
    /\ hit = "none" /\ pc[p] # "shell"
    /\ kernel[p] = "rtc" => rtc_flag

Moves(p) == <<kernel[p], pc[p]>>' # <<kernel[p], pc[p]>>

FairSpec ==
    Spec /\ WF_vars(hit = "none" /\ RtcInt)
         /\ \A p \in Procs : []<>~CanStep(p) \/ []<><<Moves(p)>>_vars

-----------------------------------------------------------------------------
(* Properties.                                                             *)

(* Descriptors, results and the cursor stay in range: the position of an   *)
(* open file never passes the end of the file.                             *)
TypeOK ==
    /\ curr_file_number \in 0 .. Len(Dentries)
    /\ \A p \in Procs :
          /\ \A f \in Fds :
                /\ desc[p][f].flags \in {"free", "stdin", "stdout", "file",
                                         "dir", "rtc"}
                /\ desc[p][f].inode \in DOMAIN Inodes \cup {NULL}
                /\ desc[p][f].pos \in 0 .. MaxPosition
                /\ desc[p][f].flags = "file" =>
                      desc[p][f].pos <= Inodes[desc[p][f].inode].length
          /\ fd[p] \in Fds \cup {ERROR}
          /\ ffd[p] \in Fds \cup {ERROR} \cup 0 .. Len(SysErrCalls)
          /\ kernel[p] \in {"user", "dir", "rtc", "ret", "done"}
    /\ retval \in ERROR .. Max({FILE_ARRAY_SIZE, BufSize})

(* What the disk holds, by definition of its layout.                       *)
Content(i) ==
    [k \in 1 .. Inodes[i].length |->
        <<Inodes[i].blocks[(k - 1) \div BLOCK_SIZE + 1], (k - 1) % BLOCK_SIZE>>]

Names == [e \in 1 .. Len(Dentries) |-> Dentries[e].name]

TextOf(name) ==
    LET e == Dentries[Min(Named(name))]
    IN  CASE e.type = "file" -> Content(e.inode)
          [] e.type = "dir" -> Names
          [] e.type = "rtc" -> <<>>

(* What a program should write: cat the file, ls the names, and grep reads *)
(* the whole of every file, in the order of the directory.                 *)
Expected ==
    [j \in Jobs |->
       CASE j.prog = "cat" -> IF Named(j.arg) = {} THEN <<>> ELSE TextOf(j.arg)
         [] j.prog = "ls" -> Names
         [] j.prog = "grep" ->
              FlattenSeq([e \in 1 .. Len(Dentries) |->
                            IF Names[e] = "." THEN <<>> ELSE TextOf(Names[e])])
         [] j.prog \in {"pingpong", "syserr"} -> <<>>]

(* cat, ls and grep deliver exactly what is on the disk, each byte and     *)
(* name once and in order, and no call of theirs fails, while other        *)
(* processes read the same files: positions, the conversion of the inode   *)
(* to a name and back in fs_read, the crossing of blocks in read_data, the *)
(* reuse of closed descriptors by kopen and the reset of the directory     *)
(* cursor work together.  Only a file that does not exist ends with 2, and *)
(* syserr finds none of its calls wrong.                                   *)
ProgramsDeliver ==
    hit = "none" => \A p \in Procs :
        /\ pc[p] \notin {"shell"} => IsPrefix(out[p], Expected[job[p]])
        /\ pc[p] = "exit0" => out[p] = Expected[job[p]]
        /\ pc[p] # "exit3"
        /\ pc[p] = "exit2" => job[p].prog = "cat" /\ Named(job[p].arg) = {}

(* The position of an open file is what was read through it: a program     *)
(* that closes a descriptor and gets it again from kopen starts at 0, and  *)
(* increment_position moves no descriptor of another open file.  No        *)
(* position passes the end of its file.                                    *)
PositionIsRead ==
    /\ TypeOK
    /\ hit = "none" => \A p \in Procs :
         kernel[p] = "user" /\ pc[p] \in {"read", "fread"} =>
         LET d == desc[p][Arg(p)] IN
         d.flags = "file"
            => /\ d.pos <= Min({Len(out[p]), Inodes[d.inode].length})
               /\ SubSeq(Content(d.inode), 1, d.pos) =
                  SubSeq(out[p], Len(out[p]) - d.pos + 1, Len(out[p]))

(* rtc_read returns only after an interrupt that came after the call, even *)
(* when another process has just been woken by an earlier one.             *)
RtcReadWaits ==
    [][\A p \in Procs : kernel[p] = "rtc" /\ kernel'[p] = "ret"
                            => p \in woken]_vars

(* Every program but pingpong ends, and every rtc_read returns, unless two *)
(* processes met.                                                          *)
ProgramEnds ==
    \A p \in Procs :
        /\ pc[p] \in {"open", "syserr"} /\ job[p].prog # "pingpong"
                ~> pc[p] \in Exits \/ hit # "none"
        /\ kernel[p] = "rtc" ~> kernel[p] = "ret" \/ hit # "none"
=============================================================================
