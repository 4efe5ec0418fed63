------------------------------- MODULE Memory -------------------------------
(***************************************************************************)
(* memset, memcpy and memmove of lib.c, instruction by instruction as far  *)
(* as their loops go: single bytes up to an address that is a multiple of  *)
(* four, then words with rep, then the bytes that are left.  One behaviour *)
(* is one call, from the registers the asm statement loads.                *)
(***************************************************************************)
EXTENDS Integers

CONSTANTS
    Top,                \* the last address
    Byte,
    Memories,           \* what the memory may hold at the call
    Fill                \* the byte memset is given

Addr == 0 .. Top

ASSUME MemoryAssumption ==
    Top \in Nat /\ Memories \subseteq [Addr -> Byte] /\ Fill \in Byte

VARIABLES
    op, dest, src, n,           \* the call
    pc, edi, esi, ecx, edx, df, \* where it is
    mem,
    mem0                        \* the memory at the call

args == <<op, dest, src, n, mem0>>
vars == <<args, pc, edi, esi, ecx, edx, df, mem>>

(* The regions lie in the memory.  memcpy is called for regions that do    *)
(* not overlap, or to move to a lower address (scroll_line).               *)
Init ==
    /\ op \in {"memset", "memcpy", "memmove"}
    /\ dest \in Addr /\ src \in Addr /\ n \in 0 .. Top + 1
    /\ dest + n <= Top + 1 /\ src + n <= Top + 1
    /\ op = "memcpy" => dest <= src \/ src + n <= dest
    /\ mem0 \in Memories /\ mem = mem0
    /\ edi = dest /\ esi = src /\ ecx = n /\ edx = 0 /\ df = 1
    /\ pc = IF op = "memmove" THEN "compare" ELSE "top"

-----------------------------------------------------------------------------
(* movb, movsb, movsl and stosl.  All bytes are read before any is         *)
(* written.                                                                *)
Stored(width) ==
    [a \in Addr |->
        IF a \in edi .. edi + width - 1
        THEN IF op = "memset" THEN Fill ELSE mem[esi + (a - edi)]
        ELSE mem[a]]

Advance(width) ==
    /\ mem' = Stored(width)
    /\ edi' = edi + df * width
    /\ esi' = IF op = "memset" THEN esi ELSE esi + df * width

Go(to) == pc' = to /\ UNCHANGED <<args, df>>

(* Bytes up to an aligned address.                                         *)
TopByte ==
    /\ pc = "top" /\ ecx # 0 /\ edi % 4 # 0
    /\ Advance(1) /\ ecx' = ecx - 1 /\ edx' = edx
    /\ Go("top")

(* The jump goes back to the loop instead of to its end.                   *)
TopDone_Again == pc = "top" /\ ecx = 0 /\ UNCHANGED vars

TopDone ==
    /\ pc = "top" /\ ecx = 0
    /\ Go("done") /\ UNCHANGED <<edi, esi, ecx, edx, mem>>

Aligned ==
    /\ pc = "top" /\ ecx # 0 /\ edi % 4 = 0
    /\ edx' = ecx % 4
    /\ ecx' = ecx \div 4
    /\ Go("rep") /\ UNCHANGED <<edi, esi, mem>>

(* rep movsl, rep stosl.                                                   *)
RepWord ==
    /\ pc = "rep" /\ ecx # 0
    /\ Advance(4) /\ ecx' = ecx - 1 /\ edx' = edx
    /\ Go("rep")

RepDone ==
    /\ pc = "rep" /\ ecx = 0
    /\ Go("bottom") /\ UNCHANGED <<edi, esi, ecx, edx, mem>>

(* The bytes after the last word.                                          *)
BottomByte ==
    /\ pc = "bottom" /\ edx # 0
    /\ Advance(1) /\ edx' = edx - 1 /\ ecx' = ecx
    /\ Go("bottom")

BottomDone ==
    /\ pc = "bottom" /\ edx = 0
    /\ Go("done") /\ UNCHANGED <<edi, esi, ecx, edx, mem>>

(* memmove compares the other way round.                                   *)
Backwards_Swapped == edi <= esi
Backwards == esi < edi

(* memmove: cmp, and std for a move to a higher address.                   *)
Compare ==
    /\ pc = "compare"
    /\ IF Backwards
       THEN esi' = esi + ecx - 1 /\ edi' = edi + ecx - 1 /\ df' = -1
       ELSE UNCHANGED <<esi, edi, df>>
    /\ pc' = "go"
    /\ UNCHANGED <<args, ecx, edx, mem>>

(* rep movsb.                                                              *)
GoByte ==
    /\ pc = "go" /\ ecx # 0
    /\ Advance(1) /\ ecx' = ecx - 1 /\ edx' = edx
    /\ Go("go")

GoDone ==
    /\ pc = "go" /\ ecx = 0
    /\ Go("done") /\ UNCHANGED <<edi, esi, ecx, edx, mem>>

Next ==
    \/ TopByte \/ TopDone \/ Aligned \/ RepWord \/ RepDone \/ BottomByte
    \/ BottomDone \/ Compare \/ GoByte \/ GoDone

Spec == Init /\ [][Next]_vars

(* The CPU goes on with the next instruction.                              *)
FairSpec == Spec /\ WF_vars(Next)

-----------------------------------------------------------------------------
(* Properties.                                                             *)

(* What is in the destination when the call has ended, and elsewhere.      *)
Wanted(a) ==
    IF a \in dest .. dest + n - 1
    THEN IF op = "memset" THEN Fill ELSE mem0[src + (a - dest)]
    ELSE mem0[a]

(* memset, memcpy and memmove fill exactly the n bytes at dest, for every  *)
(* alignment and length, with the byte or with what the source held at the *)
(* call, although memcpy and memmove may overwrite the source as they go.  *)
Fills == pc = "done" => \A a \in Addr : mem[a] = Wanted(a)

(* The bytes the pointers have passed.                                     *)
Finished(a) ==
    IF df = 1 THEN a \in dest .. edi - 1 ELSE a \in edi + 1 .. dest + n - 1

(* At every instruction each byte has its old or its final value: one the  *)
(* pointers have passed is final and no other byte has been touched, so    *)
(* nothing outside the destination is ever written.                        *)
PartlyFilled ==
    \A a \in Addr : mem[a] = IF Finished(a) THEN Wanted(a) ELSE mem0[a]

(* The bytes still to do, from the counters.                               *)
Left ==
    IF pc \in {"top", "compare", "go"} THEN ecx
    ELSE IF pc = "rep" THEN 4 * ecx + edx
    ELSE IF pc = "bottom" THEN edx ELSE 0

(* The call as it was made.                                                *)
Call ==
    /\ op \in {"memset", "memcpy", "memmove"}
    /\ dest \in Addr /\ src \in Addr /\ n \in Nat
    /\ dest + n <= Top + 1 /\ src + n <= Top + 1
    /\ op = "memcpy" => dest <= src \/ src + n <= dest
    /\ mem0 \in [Addr -> Byte]

(* The registers agree with each other at every instruction: destination   *)
(* and source move together and stay in the regions of the call, the       *)
(* counters hold what is left between the destination and its end, and the *)
(* direction is the one in which the source is read before it is           *)
(* overwritten.                                                            *)
Registers ==
    /\ Call
    /\ pc \in {"top", "rep", "bottom", "compare", "go", "done"}
    /\ ecx \in Nat /\ edx \in Nat /\ df \in {1, -1}
    /\ edi \in Int /\ esi \in Int /\ mem \in [Addr -> Byte]
    /\ op # "memset" => esi - src = edi - dest
    /\ df = 1 => dest <= edi /\ edi + Left = dest + n
    /\ df = -1 => edi < dest + n /\ edi - Left = dest - 1 /\ src < dest
    /\ pc \in {"top", "rep", "bottom"} => df = 1 /\ op # "memmove"
    /\ pc = "compare" => df = 1 /\ edi = dest /\ op = "memmove"
    /\ pc = "go" => op = "memmove" /\ (df = 1 => dest <= src)

(* Every call ends.                                                        *)
Ends == <>(pc = "done")
=============================================================================
