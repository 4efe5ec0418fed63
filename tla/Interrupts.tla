----------------------------- MODULE Interrupts -----------------------------
(***************************************************************************)
(* How the processor gets into the kernel and out of it: the gates of the  *)
(* IDT, the 8259 interrupt controllers, the assembly linkages, the frames  *)
(* on the kernel stacks, and the way from boot to the first shell.         *)
(*                                                                         *)
(* An instruction of a linkage is a step, and so is the part of a C        *)
(* function that matters here; a kernel stack is a sequence of words that  *)
(* say what they hold.  Interrupts come between any two steps at which the *)
(* interrupt flag is set and the controller lets them through.  What       *)
(* kexecute and khalt do to the tables of the kernel is in Process.        *)
(***************************************************************************)
EXTENDS Integers, SequencesExt

CONSTANTS
    NumShells,  \* 3 in the code
    MaxNest,    \* bound: frames on a kernel stack when an interrupt comes
    MaxPreempted \* bound: processes that wait in the kernel when the timer comes

ASSUME InterruptsAssumption ==
    NumShells \in Nat \ {0} /\ MaxNest \in Nat /\ MaxPreempted \in Nat

boot == 0                     \* the stack kernel.c runs on; no process
Shells == 1 .. NumShells
child == NumShells + 1        \* a program that a shell executes
Procs == Shells \cup {child}
IRQs == {0, 1, 8}             \* PIT_INT, KEYBOARD_INT, RTC_INT

Regs == {"eax", "ecx", "edx", "ebx", "ebp", "esi", "edi"}

(* Values: what the program p has in its registers, what a call for p      *)
(* returns, -1, anything else; an address on a stack, its place in ebp.    *)
Own(p) == -p
Result(p) == -10 - p
Failure == -99
Junk == 0
Address == 1

VARIABLES
    pc,         \* routine and instruction; <<"user", 1>> is instr_ptr
    usp,        \* user stack pointer: 1 is user_stack of the pcb
    cur,        \* process of curr_node, and of tss.esp0
    on,         \* the kernel stack esp is on
    stack, reg, intFlag,
    saved,      \* ebp of the pcb; its esp is the end of the stack
    task,       \* run queue: "free", "inactive", "running", "finished"
    mask,       \* lines that are masked
    isrM, isrS, \* in service, at the master and the slave
    rtcHeld,    \* the RTC waits until its register C is read
    retval,
    raced,      \* processes whose retval another one has overwritten
    broken      \* khalt has missed the frame it writes to; nothing follows

cpu == <<pc, usp, cur, on, stack, reg, intFlag, saved>>
pic == <<mask, isrM, isrS, rtcHeld>>
vars == <<cpu, task, pic, retval, raced, broken>>

-----------------------------------------------------------------------------
(* The code.                                                               *)

pit_int_linkage ==
    << <<"movesp", "ebx">>, <<"pushf">>, <<"pusha">>, <<"push", "ebx">>,
       <<"call", "pit_handler">>,
       <<"drop", 1>>, <<"arg">>, <<"call", "send_eoi">>, <<"drop", 1>>,
       <<"popa">>, <<"popf">>, <<"iret">> >>
pit_ret == <<"pit_int_linkage", 6>>

keyboard_int_linkage_Bare ==
    << <<"pushf">>, <<"call", "keyboard_int">>, <<"popf">>, <<"iret">> >>
keyboard_int_linkage ==
    << <<"pushf">>, <<"pusha">>, <<"call", "keyboard_int">>,
       <<"popa">>, <<"popf">>, <<"iret">> >>

rtc_int_linkage ==
    << <<"push", "ebp">>, <<"movesp", "ebp">>, <<"pushf">>, <<"pusha">>,
       <<"call", "rtc_int">>, <<"popa">>, <<"popf">>, <<"leave">>, <<"iret">> >>

(* The same for every exception; the first lines are one of them.          *)
exception_linkage ==
    << <<"push", "ebp">>, <<"movesp", "ebp">>, <<"pushf">>, <<"pusha">>,
       <<"call", "exception">>, <<"popa">>, <<"popf">>, <<"leave">>, <<"iret">> >>

(* The result goes around popal through retval; the variant leaves it on   *)
(* the stack's side and loads it too early.                                *)
system_call_linkage_Early ==
    << <<"pushf">>, <<"pusha">>, <<"check">>,
       <<"push", "edx">>, <<"push", "ecx">>, <<"push", "ebx">>, <<"call", "system_call">>,
       <<"drop", 3>>, <<"store">>, <<"load">>, <<"popa">>, <<"popf">>, <<"iret">> >>
system_call_linkage ==
    << <<"pushf">>, <<"pusha">>, <<"check">>,
       <<"push", "edx">>, <<"push", "ecx">>, <<"push", "ebx">>, <<"call", "system_call">>,
       <<"drop", 3>>, <<"store">>, <<"popa">>, <<"load">>, <<"popf">>, <<"iret">> >>

invalid_syscall_num ==
    << <<"fail">>, <<"popa">>, <<"popf">>, <<"load">>, <<"iret">> >>

(* A C function keeps ebp and what it does.                                *)
Function(body) ==
    << <<"push", "ebp">>, <<"movesp", "ebp">> >> \o body \o << <<"leave">>, <<"ret">> >>

(* kernel.c from i8259_init on, and kexecute("shell") up to its int $32.   *)
entry ==
    << <<"init">>, <<"rtc_open">>, <<"enable", 2>>, <<"enable", 1>>, <<"enable", 8>>,
       <<"sti">>, <<"cli">>, <<"open", 1>>, <<"sti">> >>
    \o [p \in 1 .. (NumShells - 1) |-> <<"open", p + 1>>]
    \o << <<"enable", 0>>, <<"int">>, <<"hlt">> >>

(* send_eoi comes first.                                                   *)
keyboard_int == << <<"eoi", 1>>, <<"put_char">>, <<"junk">> >>
rtc_int == << <<"eoi", 8>>, <<"reg_c">>, <<"junk">> >>
pit_handler == << <<"switch">> >>
exception == << <<"junk">>, <<"arg">>, <<"call", "khalt">> >>
kexecute == << <<"cli">>, <<"schedule">>, <<"sti">>, <<"int">>, <<"result">> >>
khalt == << <<"halt">>, <<"int">>, <<"result">> >>

Code ==
    [pit_int_linkage |-> pit_int_linkage, keyboard_int_linkage |-> keyboard_int_linkage,
     rtc_int_linkage |-> rtc_int_linkage, exception_linkage |-> exception_linkage,
     system_call_linkage |-> system_call_linkage,
     invalid_syscall_num |-> invalid_syscall_num,
     entry |-> entry,
     keyboard_int |-> Function(keyboard_int), rtc_int |-> Function(rtc_int),
     pit_handler |-> Function(pit_handler), exception |-> Function(exception),
     send_eoi |-> Function(<< <<"eoi", 0>>, <<"junk">> >>),
     kexecute |-> Function(kexecute), khalt |-> Function(khalt),
     other |-> Function(<< <<"result">> >>)]

Op == Code[pc[1]][pc[2]]
At(op) == pc[1] # "user" /\ Op[1] = op
Advance == pc' = <<pc[1], pc[2] + 1>>
S == stack[on]
Top(k) == S[Len(S) - k + 1]

-----------------------------------------------------------------------------
(* Frames.                                                                 *)

Pusha(r) ==
    << <<"eax", r["eax"]>>, <<"ecx", r["ecx"]>>, <<"edx", r["edx"]>>, <<"ebx", r["ebx"]>>,
       <<"iesp", 0>>, <<"ebp", r["ebp"]>>, <<"esi", r["esi"]>>, <<"edi", r["edi"]>> >>

(* What iret needs; an eip word also remembers the registers, for          *)
(* RegistersRestored.                                                      *)
Frame(eip, cs, flags, r) == << <<"flags", flags>>, <<"cs", cs>>, <<"eip", eip, r>> >>
UserFrame(eip, esp, flags, r) ==
    << <<"ss", 0>>, <<"esp", esp>> >> \o Frame(eip, "user", flags, r)

(* The processor takes a gate: from user mode to the stack in tss.esp0.    *)
Enter(routine, error) ==
    /\ pc' = <<routine, 1>>
    /\ IF pc[1] = "user"
       THEN /\ on' = cur
            /\ stack' = [stack EXCEPT ![cur] = UserFrame(pc, usp, intFlag, reg) \o error]
       ELSE /\ on' = on
            /\ stack' = [stack EXCEPT ![on] = @ \o Frame(pc, "kernel", intFlag, reg)]

(* schedule builds what pit_int_linkage leaves when it calls pit_handler;  *)
(* the variant moves by a word less.                                       *)
Blank == [r \in Regs |-> Junk]
NewStack_Short == UserFrame(<<"user", 1>>, 1, TRUE, Blank) \o << <<"flags", TRUE>> >>
    \o Pusha(Blank) \o << <<"ret", pit_ret>>, <<"ebp", Junk>> >>
NewStack == UserFrame(<<"user", 1>>, 1, TRUE, Blank) \o << <<"flags", TRUE>> >>
    \o Pusha(Blank) \o << <<"arg", 0>>, <<"ret", pit_ret>>, <<"ebp", Junk>> >>

-----------------------------------------------------------------------------
(* Instructions.                                                           *)

same == <<usp, cur, on, saved, task, pic, raced, broken>>

PushWord(w) ==
    /\ stack' = [stack EXCEPT ![on] = Append(@, w)]
    /\ Advance
    /\ UNCHANGED <<same, reg, intFlag, retval>>

push == At("push") /\ PushWord(<<Op[2], reg[Op[2]]>>)
pushfl == At("pushf") /\ PushWord(<<"flags", intFlag>>)
pushArg == At("arg") /\ PushWord(<<"arg", 0>>)

moveSp ==
    /\ At("movesp")
    /\ reg' = [reg EXCEPT ![Op[2]] = IF Op[2] = "ebp" THEN Len(S) ELSE Address]
    /\ Advance
    /\ UNCHANGED <<same, stack, intFlag, retval>>

pushal ==
    /\ At("pusha")
    /\ stack' = [stack EXCEPT ![on] = @ \o Pusha(reg)]
    /\ Advance
    /\ UNCHANGED <<same, reg, intFlag, retval>>

Drop(s, n) == SubSeq(s, 1, Len(s) - n)

(* The words that pushal stores, from the top.                             *)
Place == [edi |-> 1, esi |-> 2, ebp |-> 3, ebx |-> 5, edx |-> 6, ecx |-> 7, eax |-> 8]
popal ==
    /\ At("popa")
    /\ reg' = [r \in Regs |-> Top(Place[r])[2]]
    /\ stack' = [stack EXCEPT ![on] = Drop(@, 8)]
    /\ Advance
    /\ UNCHANGED <<same, intFlag, retval>>

popfl ==
    /\ At("popf")
    /\ intFlag' = Top(1)[2]
    /\ stack' = [stack EXCEPT ![on] = Drop(@, 1)]
    /\ Advance
    /\ UNCHANGED <<same, reg, retval>>

addEsp ==
    /\ At("drop")
    /\ stack' = [stack EXCEPT ![on] = Drop(@, Op[2])]
    /\ Advance
    /\ UNCHANGED <<same, reg, intFlag, retval>>

leave ==
    /\ At("leave")
    /\ reg' = [reg EXCEPT !["ebp"] = S[reg["ebp"]][2]]
    /\ stack' = [stack EXCEPT ![on] = SubSeq(@, 1, reg["ebp"] - 1)]
    /\ Advance
    /\ UNCHANGED <<same, intFlag, retval>>

CallTo(f) ==
    /\ stack' = [stack EXCEPT ![on] = Append(@, <<"ret", <<pc[1], pc[2] + 1>> >>)]
    /\ pc' = <<f, 1>>
    /\ UNCHANGED <<same, reg, intFlag, retval>>

call == At("call") /\ Op[2] # "system_call" /\ CallTo(Op[2])

ret ==
    /\ At("ret")
    /\ pc' = Top(1)[2]
    /\ stack' = [stack EXCEPT ![on] = Drop(@, 1)]
    /\ UNCHANGED <<same, reg, intFlag, retval>>

(* Nothing returns to the stack of entry.                                  *)
iret ==
    /\ At("iret")
    /\ pc' = Top(1)[2]
    /\ intFlag' = Top(3)[2]
    /\ IF Top(2)[2] = "user"
       THEN /\ usp' = Top(4)[2] /\ on' = cur
            /\ stack' = [stack EXCEPT ![on] = IF on = boot THEN <<>> ELSE Drop(@, 5)]
            /\ raced' = raced \ {cur}
       ELSE /\ stack' = [stack EXCEPT ![on] = Drop(@, 3)]
            /\ UNCHANGED <<usp, on, raced>>
    /\ UNCHANGED <<cur, reg, saved, task, pic, retval, broken>>

(* int $32: the gate of the timer, without the controller.                 *)
int ==
    /\ At("int")
    /\ pc' = <<"pit_int_linkage", 1>>
    /\ stack' = [stack EXCEPT ![on] = @ \o Frame(<<pc[1], pc[2] + 1>>, "kernel", intFlag, reg)]
    /\ intFlag' = FALSE
    /\ UNCHANGED <<same, reg, retval>>

setFlag(op, flag) ==
    /\ At(op)
    /\ intFlag' = flag
    /\ Advance
    /\ UNCHANGED <<same, stack, reg, retval>>

(* put_char ends with sti; a key that prints nothing does not call it.     *)
put_char == setFlag("put_char", TRUE) \/ setFlag("put_char", intFlag)

-----------------------------------------------------------------------------
(* System calls: the number is in range or not, and one of three kinds.    *)
(* Bound: one program besides the shells.                                  *)
checkNumber ==
    /\ At("check")
    /\ Advance \/ pc' = <<"invalid_syscall_num", 1>>
    /\ UNCHANGED <<same, stack, reg, intFlag, retval>>

system_call ==
    /\ At("call") /\ Op[2] = "system_call"
    /\ \/ CallTo("other")
       \/ CallTo("khalt")
       \/ cur # child /\ task[child] = "free" /\ CallTo("kexecute")

(* The other process is between its store and its load.                    *)
BetweenUses(p) ==
    \E k \in DOMAIN stack[p] :
        /\ stack[p][k][1] = "eip" /\ stack[p][k][2][1] # "user"
        /\ \/ stack[p][k][2] \in {<<"system_call_linkage", 10>>, <<"system_call_linkage", 11>>}
           \/ stack[p][k][2][1] = "invalid_syscall_num" /\ stack[p][k][2][2] \in 2 .. 4

SetRetval(value) ==
    /\ retval' = value
    /\ raced' = raced \cup {p \in Procs \ {cur} : BetweenUses(p)}
    /\ Advance
    /\ UNCHANGED <<usp, cur, on, saved, task, pic, broken, stack, reg, intFlag>>

store == At("store") /\ SetRetval(reg["eax"])
fail == At("fail") /\ SetRetval(Failure)

(* A value that nobody is going to load any more is forgotten.             *)
load ==
    /\ At("load")
    /\ reg' = [reg EXCEPT !["eax"] = retval]
    /\ retval' = IF \E p \in Procs \ {cur} : BetweenUses(p) THEN retval ELSE Junk
    /\ Advance
    /\ UNCHANGED <<same, stack, intFlag>>

SetRegs(r) ==
    /\ reg' = r
    /\ Advance
    /\ UNCHANGED <<same, stack, intFlag, retval>>


(* The registers a C function need not keep, and its result.               *)
Scratch == [reg EXCEPT !["eax"] = Junk, !["ecx"] = Junk, !["edx"] = Junk]
junk == At("junk") /\ SetRegs(Scratch)
result == At("result") /\ SetRegs([Scratch EXCEPT !["eax"] = Result(cur)])

-----------------------------------------------------------------------------
(* Processes.                                                              *)

(* kexecute: schedule builds the stack of the child, its parent waits.     *)
schedule ==
    /\ At("schedule")
    /\ stack' = [stack EXCEPT ![child] = NewStack]
    /\ saved' = [saved EXCEPT ![child] = Len(NewStack)]
    /\ task' = [task EXCEPT ![child] = "running", ![cur] = "inactive"]
    /\ Advance
    /\ UNCHANGED <<usp, cur, on, pic, raced, broken, reg, intFlag, retval>>

(* khalt: a shell starts again, from the frame of its system call, JUMP    *)
(* words above ebp; a program ends and its parent runs again.              *)
JUMP_BACK_TO_IRET == 14

(* eip and esp of the frame; the variant keeps esp.                        *)
Restart_KeepsEsp(s, eip) == [s EXCEPT ![eip][2] = <<"user", 1>>]
Restart(s, eip) == [s EXCEPT ![eip][2] = <<"user", 1>>, ![eip - 3][2] = 1]

halt ==
    /\ At("halt")
    /\ IF cur \in Shells
       THEN LET eip == reg["ebp"] - JUMP_BACK_TO_IRET
                hit == eip > 3 /\ S[eip][1] = "eip" /\ S[eip - 3][1] = "esp"
            IN  /\ broken' = ~hit
                /\ stack' = [stack EXCEPT ![on] = IF hit THEN Restart(@, eip) ELSE @]
                /\ pc' = <<pc[1], pc[2] + 2>>
                /\ UNCHANGED task
       ELSE /\ task' = [p \in Procs |-> IF p = child THEN "finished"
                            ELSE IF task[p] = "inactive" THEN "running" ELSE task[p]]
            /\ Advance
            /\ UNCHANGED <<stack, broken>>
    /\ UNCHANGED <<usp, cur, on, saved, pic, raced, reg, intFlag, retval>>

(* pit_handler: from the stack of entry the first shell starts, with the   *)
(* frame below the words of the linkage, where its argument points;        *)
(* otherwise any process that may run goes on.  What is restored from a    *)
(* pcb is forgotten: it is saved again before it is used again.            *)
switch ==
    /\ At("switch")
    /\ IF cur = boot
       THEN LET eip == reg["ebp"] - 12
            IN  /\ cur' = 1
                /\ stack' = [stack EXCEPT ![on] =
                     SubSeq(@, 1, eip - 5) \o UserFrame(<<"user", 1>>, 1, TRUE, Blank)
                       \o SubSeq(@, eip + 1, Len(@))]
                /\ UNCHANGED <<on, reg, saved, task>>
       ELSE \E q \in Procs :
              /\ task[q] = "running"
              /\ cur' = q /\ on' = q
              /\ LET ebp == [saved EXCEPT ![cur] = reg["ebp"]]
                 IN  /\ reg' = [reg EXCEPT !["ebp"] = ebp[q]]
                     /\ saved' = [ebp EXCEPT ![q] = 0]
              /\ IF task[cur] = "finished"
                 THEN /\ task' = [task EXCEPT ![cur] = "free"]
                      /\ stack' = [stack EXCEPT ![cur] = <<>>]
                 ELSE UNCHANGED <<task, stack>>
    /\ Advance
    /\ UNCHANGED <<usp, pic, raced, broken, intFlag, retval>>

-----------------------------------------------------------------------------
(* Boot.                                                                   *)

PicStep ==
    /\ Advance
    /\ UNCHANGED <<usp, cur, on, saved, task, raced, broken, stack, reg, intFlag, retval>>

i8259_init ==
    /\ At("init")
    /\ mask' = 0 .. 15
    /\ PicStep /\ UNCHANGED <<isrM, isrS, rtcHeld>>

enable_irq ==
    /\ At("enable")
    /\ mask' = mask \ {Op[2]}
    /\ PicStep /\ UNCHANGED <<isrM, isrS, rtcHeld>>

(* From here on the RTC interrupts.                                        *)
rtc_open ==
    /\ At("rtc_open")
    /\ rtcHeld' = FALSE
    /\ PicStep /\ UNCHANGED <<mask, isrM, isrS>>

(* The node of a shell; schedule does not build a stack for the first.     *)
open ==
    /\ At("open")
    /\ task' = [task EXCEPT ![Op[2]] = "running"]
    /\ IF Op[2] = 1 THEN UNCHANGED <<stack, saved>>
       ELSE /\ stack' = [stack EXCEPT ![Op[2]] = NewStack]
            /\ saved' = [saved EXCEPT ![Op[2]] = Len(NewStack)]
    /\ Advance
    /\ UNCHANGED <<usp, cur, on, pic, raced, broken, reg, intFlag, retval>>

-----------------------------------------------------------------------------
(* The interrupt controllers.                                              *)

Line(i) == IF i < 8 THEN i ELSE 2

Accepts(i) ==
    /\ i \notin mask /\ Line(i) \notin mask
    /\ \A l \in isrM : l > Line(i)
    /\ i >= 8 => isrS = {} /\ ~rtcHeld

Gate(i) ==
    IF i = 0 THEN "pit_int_linkage"
    ELSE IF i = 1 THEN "keyboard_int_linkage" ELSE "rtc_int_linkage"

(* A program enters the kernel with registers of its own: what it was      *)
(* given when it last came out makes no difference to the kernel.          *)
Computed == pc[1] = "user" => pc[2] = 0 /\ reg = [r \in Regs |-> Own(cur)]

Count(s, Test(_)) == Len(SelectSeq(s, Test))

(* Processes that may run and will go on in the kernel.                    *)
Preempted == {p \in Procs \ {cur} :
    task[p] = "running" /\ Count(stack[p], LAMBDA w : w = <<"cs", "kernel">>) > 0}

(* Bounds on the interrupts of kernel code: while a program runs besides   *)
(* the shells, only that of the program and of its parent.                 *)
Bounded ==
    /\ Count(S, LAMBDA w : w[1] = "eip") < MaxNest
    /\ pc[1] # "user" =>
         /\ Cardinality(Preempted) < MaxPreempted
         /\ cur \in Shells => task[child] = "free" \/ task[cur] = "inactive"

(* A device interrupts.  One that asked earlier, while its line was not    *)
(* let through, does no more than one that asks now; the RTC does not ask  *)
(* again before it is answered.                                            *)
interrupt(i) ==
    /\ ~broken /\ intFlag /\ Accepts(i) /\ Computed /\ Bounded
    /\ Enter(Gate(i), <<>>)
    /\ intFlag' = FALSE
    /\ isrM' = isrM \cup {Line(i)}
    /\ isrS' = IF i < 8 THEN isrS ELSE isrS \cup {i - 8}
    /\ rtcHeld' = (rtcHeld \/ i = 8)
    /\ UNCHANGED <<usp, cur, reg, saved, task, mask, retval, raced, broken>>

(* For a line of the slave both are told; with the variant, the slave.     *)
MasterEoi_Skip(i) == IF i >= 8 THEN {} ELSE {i}
MasterEoi(i) == IF i >= 8 THEN {2} ELSE {i}

send_eoi ==
    /\ At("eoi")
    /\ isrM' = isrM \ MasterEoi(Op[2])
    /\ isrS' = IF Op[2] >= 8 THEN isrS \ {Op[2] % 8} ELSE isrS
    /\ PicStep /\ UNCHANGED <<mask, rtcHeld>>

readC ==
    /\ At("reg_c")
    /\ rtcHeld' = FALSE
    /\ PicStep /\ UNCHANGED <<mask, isrM, isrS>>

-----------------------------------------------------------------------------
(* Programs: they compute, then make a system call, or cause an exception  *)
(* with an error code or without.                                          *)
compute ==
    /\ pc[1] = "user" /\ ~broken
    /\ pc' = <<"user", 0>> /\ usp' = 0
    /\ reg' = [r \in Regs |-> Own(cur)]
    /\ UNCHANGED <<cur, on, stack, intFlag, saved, task, pic, retval, raced, broken>>

trap ==
    /\ pc[1] = "user" /\ Computed /\ ~broken
    /\ \/ Enter("system_call_linkage", <<>>)
       \/ Enter("exception_linkage", <<>>)
       \/ Enter("exception_linkage", << <<"error", 0>> >>)
    /\ UNCHANGED <<usp, cur, reg, intFlag, saved, task, pic, retval, raced, broken>>

Init ==
    /\ pc = <<"entry", 1>> /\ usp = 0 /\ cur = boot /\ on = boot
    /\ stack = [p \in Procs \cup {boot} |->
                  IF p = boot THEN << <<"local", 0>>, <<"local", 0>> >> ELSE <<>>]
    /\ reg = Blank /\ intFlag = FALSE
    /\ saved = [p \in Procs \cup {boot} |-> 0]
    /\ task = [p \in Procs |-> "free"]
    /\ mask = {} /\ isrM = {} /\ isrS = {} /\ rtcHeld = TRUE
    /\ retval = Junk /\ raced = {} /\ broken = FALSE

Instruction ==
    /\ pc[1] # "user" /\ ~broken
    /\ \/ push \/ moveSp \/ pushfl \/ pushArg \/ pushal \/ popal \/ popfl \/ addEsp
       \/ leave \/ call \/ ret \/ iret \/ int
       \/ setFlag("sti", TRUE) \/ setFlag("cli", FALSE) \/ put_char
       \/ checkNumber \/ system_call \/ store \/ fail \/ load
       \/ junk \/ result
       \/ schedule \/ halt \/ switch
       \/ i8259_init \/ rtc_open \/ enable_irq \/ open \/ send_eoi \/ readC

Next ==
    \/ Instruction
    \/ compute \/ trap
    \/ \E i \in IRQs : interrupt(i)
    \/ broken /\ UNCHANGED vars

Spec == Init /\ [][Next]_vars
-----------------------------------------------------------------------------
(* Properties.                                                             *)

(* The variables have their types; outside the way to the first shell esp  *)
(* is on the stack of curr_process, as reset_curr_process and pit_handler  *)
(* keep it.                                                                *)
TypeOK ==
    /\ pc[1] \in DOMAIN Code \cup {"user"} /\ pc[2] \in Nat /\ usp \in {0, 1}
    /\ cur \in Procs \cup {boot} /\ (on = cur \/ on = boot)
    /\ DOMAIN stack = Procs \cup {boot}
    /\ reg \in [Regs -> Int] /\ intFlag \in BOOLEAN
    /\ saved \in [Procs \cup {boot} -> Int]
    /\ task \in [Procs -> {"free", "inactive", "running", "finished"}]
    /\ mask \subseteq 0 .. 15
    /\ isrM \subseteq 0 .. 7 /\ isrS \subseteq 0 .. 7 /\ rtcHeld \in BOOLEAN
    /\ retval \in Int /\ raced \subseteq Procs /\ broken \in BOOLEAN

Fits(kinds) ==
    Len(S) >= Len(kinds) /\ \A k \in DOMAIN kinds : Top(k)[1] = kinds[k]

(* Every pop of a linkage or function finds the word of its push, and iret *)
(* the frame of the processor, whatever interrupts what, on stacks that    *)
(* the processor has filled and on those that schedule has built; and esp  *)
(* stays on the stack of curr_process.                                     *)
FramesMatch ==
    /\ TypeOK
    /\ At("popa") => Fits(<<"edi", "esi", "ebp", "iesp", "ebx", "edx", "ecx", "eax">>)
    /\ At("popf") => Fits(<<"flags">>)
    /\ At("ret") => Fits(<<"ret">>)
    /\ At("leave") => reg["ebp"] \in DOMAIN S /\ S[reg["ebp"]][1] = "ebp"
    /\ At("iret") =>
         /\ Fits(<<"eip", "cs", "flags">>)
         /\ Top(2)[2] = "user" => /\ Fits(<<"eip", "cs", "flags", "esp", "ss">>)
                                  /\ Len(S) = 5 \/ on = boot

(* The interrupted code finds its registers again, as the comments of the  *)
(* linkages say (a program that starts has none), but for the result of a  *)
(* system call in eax, and for ebx: pit_int_linkage puts esp there before  *)
(* it saves the registers.                                                 *)
RegistersRestored ==
    At("iret") /\ Top(1)[2] # <<"user", 1>> => \A r \in Regs :
        \/ reg[r] = Top(1)[3][r]
        \/ r = "ebx" /\ reg[r] > 0
        \/ r = "eax" /\ pc[1] \in {"system_call_linkage", "invalid_syscall_num"}

(* A system call returns its own result, although all calls hand it over   *)
(* in the one retval, with interrupts enabled: unless another process has  *)
(* used retval between the two instructions.                               *)
ResultIsOwn ==
    At("iret") /\ cur \notin raced =>
        /\ pc[1] = "system_call_linkage" => reg["eax"] = Result(cur)
        /\ pc[1] = "invalid_syscall_num" => reg["eax"] = Failure

(* A program runs with interrupts enabled and nothing left on its kernel   *)
(* stack; one that starts, or a shell that halts and starts again, does so *)
(* on the stack of its pcb.  The timer switches processes only when all    *)
(* shells are in the run queue.                                            *)
UserIsClean ==
    /\ pc[1] = "user" =>
         /\ intFlag /\ cur \in Procs /\ task[cur] = "running" /\ stack[cur] = <<>>
         /\ pc[2] = 1 => usp = 1
    /\ At("switch") => \A p \in Shells : task[p] # "free"

(* No handler leaves an interrupt in service or the RTC unanswered: while  *)
(* a program runs, every device can interrupt it.                          *)
DevicesReleased ==
    pc[1] = "user" => isrM = {} /\ isrS = {} /\ ~rtcHeld
=============================================================================
