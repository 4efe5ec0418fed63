---------------------------- MODULE MemoryProofs ----------------------------
(***************************************************************************)
(* memset, memcpy and memmove are correct for every size of the memory,    *)
(* every content, alignment and length.  Registers /\ PartlyFilled is      *)
(* inductive: what a step stores is what the source held at the call,      *)
(* because the direction of the copy keeps the bytes still to be read out  *)
(* of the part that is finished.                                           *)
(***************************************************************************)
EXTENDS Memory, TLAPS

USE SMTT(60)

(* The loops store only into the region of the call and read only bytes    *)
(* that still have the value they had at the call.                         *)
LEMMA ReadsOld ==
    ASSUME Registers, PartlyFilled, op # "memset",
           NEW w \in {1, 4}, w <= Left, df = 1 \/ w = 1, pc # "compare",
           NEW k \in 0 .. w - 1
    PROVE  esi + k \in Addr /\ mem[esi + k] = mem0[esi + k]
<1>1. Left \in Nat /\ edi \in Int /\ esi \in Int /\ w \in Nat /\ k \in Int
      /\ Top \in Nat
  BY MemoryAssumption DEF Registers, Left
<1>2. esi - src = edi - dest
  BY DEF Registers
<1>3. dest \in Int /\ src \in Int /\ n \in Nat /\ 0 <= src /\ src + n <= Top + 1
  BY <1>1 DEF Registers, Call, Addr
<1>4. CASE df = 1
  <2>1. dest <= edi /\ edi + Left = dest + n
    BY <1>4 DEF Registers
  <2>2. esi + k \in Addr
    BY <1>1, <1>2, <1>3, <2>1 DEF Addr
  <2>3. dest <= src \/ src + n <= dest
    BY <1>4 DEF Registers, Call, Left
  <2>4. ~(esi + k \in dest .. edi - 1)
    BY <1>1, <1>2, <1>3, <2>1, <2>3
  <2> QED
    BY <1>4, <2>2, <2>4 DEF PartlyFilled, Finished
<1>5. CASE df = -1
  <2>1. edi < dest + n /\ edi - Left = dest - 1 /\ src < dest /\ w = 1
    BY <1>5 DEF Registers
  <2>2. esi + k \in Addr
    BY <1>1, <1>2, <1>3, <2>1 DEF Addr
  <2>3. ~(esi + k \in edi + 1 .. dest + n - 1)
    BY <1>1, <1>2, <1>3, <2>1
  <2> QED
    BY <1>5, <2>2, <2>3 DEF PartlyFilled, Finished
<1> QED
  BY <1>4, <1>5 DEF Registers

(* A store of one or four bytes extends the finished part by them.         *)
LEMMA StepFills ==
    ASSUME Registers, PartlyFilled, NEW w \in {1, 4}, w <= Left,
           df = 1 \/ w = 1, pc # "compare", Advance(w), UNCHANGED <<args, df>>
    PROVE  /\ mem' \in [Addr -> Byte]
           /\ PartlyFilled'
<1>1. Left \in Nat /\ edi \in Int /\ w \in Nat /\ Top \in Nat
      /\ dest \in Int /\ n \in Nat
  BY MemoryAssumption DEF Registers, Left, Call, Addr
<1>2. ASSUME NEW a \in Addr
      PROVE  mem'[a] \in Byte
             /\ mem'[a] = IF Finished(a)' THEN Wanted(a)' ELSE mem0'[a]
  <2>1. Wanted(a)' = Wanted(a) /\ mem0' = mem0 /\ a \in Int
    BY DEF Wanted, args, Addr
  <2>2. mem'[a] = IF a \in edi .. edi + w - 1
                  THEN IF op = "memset" THEN Fill ELSE mem[esi + (a - edi)]
                  ELSE mem[a]
    BY DEF Advance, Stored
  <2>3. Finished(a)' <=> Finished(a) \/ a \in edi .. edi + w - 1
    <3>1. CASE df = 1
      <4>1. dest <= edi /\ edi' = edi + w
        BY <1>1, <3>1 DEF Registers, Advance
      <4> QED
        BY <1>1, <2>1, <3>1, <4>1 DEF Finished, args
    <3>2. CASE df = -1
      <4>1. edi < dest + n /\ edi' = edi - 1 /\ w = 1
        BY <1>1, <3>2 DEF Registers, Advance
      <4> QED
        BY <1>1, <2>1, <3>2, <4>1 DEF Finished, args
    <3> QED
      BY <3>1, <3>2 DEF Registers
  <2>4. CASE a \in edi .. edi + w - 1
    <3>1. a \in dest .. dest + n - 1
      BY <1>1, <2>1, <2>4 DEF Registers
    <3>2. CASE op = "memset"
      BY <2>1, <2>2, <2>3, <2>4, <3>1, <3>2, MemoryAssumption DEF Wanted
    <3>3. CASE op # "memset"
      <4>1. /\ esi + (a - edi) \in Addr
            /\ mem[esi + (a - edi)] = mem0[esi + (a - edi)]
        <5>1. a - edi \in 0 .. w - 1
          BY <1>1, <2>1, <2>4
        <5> HIDE DEF Registers, PartlyFilled, Left
        <5> QED
          BY <5>1, <3>3, ReadsOld
      <4>2. src + (a - dest) = esi + (a - edi)
        BY <1>1, <2>1, <3>3 DEF Registers, Call, Addr
      <4>3. Wanted(a) = mem0[esi + (a - edi)]
        BY <3>1, <3>3, <4>2 DEF Wanted
      <4>4. mem'[a] = mem0[esi + (a - edi)] /\ mem'[a] \in Byte
        BY <2>2, <2>4, <3>3, <4>1 DEF Registers
      <4> QED
        BY <2>1, <2>3, <2>4, <4>3, <4>4
    <3> QED
      BY <3>2, <3>3
  <2>5. CASE ~(a \in edi .. edi + w - 1)
    <3>1. mem'[a] = mem[a] /\ mem[a] \in Byte
      BY <2>2, <2>5 DEF Registers
    <3>2. mem[a] = IF Finished(a) THEN Wanted(a) ELSE mem0[a]
      BY DEF PartlyFilled
    <3> QED
      BY <2>1, <2>3, <2>5, <3>1, <3>2
  <2> QED
    BY <2>4, <2>5
<1>3. mem' \in [Addr -> Byte]
  BY <1>2 DEF Advance, Stored
<1> QED
  BY <1>2, <1>3 DEF PartlyFilled

(* A step of a loop keeps the registers in agreement.                      *)
LEMMA StepRegisters ==
    ASSUME Registers, NEW w \in {1, 4}, w <= Left, df = 1 \/ w = 1,
           Advance(w), UNCHANGED <<args, df, pc>>, Left' = Left - w,
           pc # "compare", ecx' \in Nat, edx' \in Nat, mem' \in [Addr -> Byte]
    PROVE  Registers'
<1>1. Left \in Nat /\ edi \in Int /\ esi \in Int /\ w \in Nat
      /\ dest \in Int /\ src \in Int /\ n \in Nat
  BY DEF Registers, Left, Call, Addr
<1>2. Call' /\ df' = df /\ pc' = pc /\ op' = op /\ dest' = dest /\ src' = src
      /\ n' = n
  BY DEF Registers, Call, args
<1>3. CASE df = 1
  <2>1. edi' = edi + w /\ esi' = (IF op = "memset" THEN esi ELSE esi + w)
    BY <1>1, <1>3 DEF Advance
  <2> QED
    BY <1>1, <1>2, <1>3, <2>1 DEF Registers
<1>4. CASE df = -1
  <2>1. edi' = edi - 1 /\ esi' = (IF op = "memset" THEN esi ELSE esi - 1)
        /\ w = 1
    BY <1>1, <1>4 DEF Advance
  <2> QED
    BY <1>1, <1>2, <1>4, <2>1 DEF Registers
<1> QED
  BY <1>3, <1>4 DEF Registers

(* An instruction that stores nothing and leaves the number of bytes to do *)
(* as it is.                                                               *)
LEMMA JumpKeeps ==
    ASSUME Registers, PartlyFilled,
           UNCHANGED <<args, df, edi, esi, mem>>, Left' = Left,
           ecx' \in Nat, edx' \in Nat,
           pc' = "done" \/ (pc' \in {"rep", "bottom"} /\ df = 1 /\ op # "memmove")
    PROVE  Registers' /\ PartlyFilled'
<1>1. Call' /\ UNCHANGED <<df, edi, esi, mem, op, dest, src, n, mem0>>
  BY DEF Registers, Call, args
<1>2. Registers'
  BY <1>1 DEF Registers
<1>3. ASSUME NEW a \in Addr
      PROVE  Finished(a)' = Finished(a) /\ Wanted(a)' = Wanted(a)
  BY <1>1 DEF Finished, Wanted
<1> QED
  BY <1>1, <1>2, <1>3 DEF PartlyFilled

LEMMA LoopKeeps ==
    ASSUME Registers, PartlyFilled, NEW w \in {1, 4}, w <= Left,
           df = 1 \/ w = 1, Advance(w), UNCHANGED <<args, df, pc>>,
           Left' = Left - w, pc # "compare", ecx' \in Nat, edx' \in Nat
    PROVE  Registers' /\ PartlyFilled'
<1>1. mem' \in [Addr -> Byte] /\ PartlyFilled'
  BY StepFills
<1> QED
  BY <1>1, StepRegisters

LEMMA Inductive ==
    ASSUME Registers, PartlyFilled, [Next]_vars
    PROVE  Registers' /\ PartlyFilled'
<1> USE DEF Go
<1>0. ecx \in Nat /\ edx \in Nat /\ df \in {1, -1}
      /\ (pc \in {"top", "rep", "bottom"} => df = 1 /\ op # "memmove")
  BY DEF Registers
<1>1. CASE TopByte
  <2>1. pc' = pc /\ Left' = Left - 1 /\ 1 <= Left /\ ecx' \in Nat /\ edx' \in Nat
    BY <1>0, <1>1 DEF TopByte, Left
  <2>2. Advance(1) /\ UNCHANGED <<args, df, pc>> /\ pc # "compare"
        /\ 1 \in {1, 4} /\ (df = 1 \/ 1 = 1)
    BY <1>0, <1>1, <2>1 DEF TopByte
  <2> QED
    BY ONLY Registers, PartlyFilled, <2>1, <2>2, LoopKeeps, ZenonT(30)
<1>2. CASE TopDone
  <2>1. Left' = Left
    BY <1>0, <1>2 DEF TopDone, Left
  <2> QED
    BY <1>0, <1>2, <2>1, JumpKeeps DEF TopDone
<1>3. CASE Aligned
  <2>1. ecx' \in Nat /\ edx' \in Nat /\ 4 * ecx' + edx' = ecx
    BY <1>0, <1>3 DEF Aligned
  <2>2. Left' = Left
    BY <1>0, <1>3, <2>1 DEF Aligned, Left
  <2> QED
    BY <1>0, <1>3, <2>1, <2>2, JumpKeeps DEF Aligned
<1>4. CASE RepWord
  <2>1. pc' = pc /\ Left' = Left - 4 /\ 4 <= Left /\ ecx' \in Nat /\ edx' \in Nat
    BY <1>0, <1>4 DEF RepWord, Left
  <2>2. Advance(4) /\ UNCHANGED <<args, df, pc>> /\ pc # "compare"
        /\ 4 \in {1, 4} /\ (df = 1 \/ 4 = 1)
    BY <1>0, <1>4, <2>1 DEF RepWord
  <2> QED
    BY ONLY Registers, PartlyFilled, <2>1, <2>2, LoopKeeps, ZenonT(30)
<1>5. CASE RepDone
  <2>1. Left' = Left
    BY <1>0, <1>5 DEF RepDone, Left
  <2> QED
    BY <1>0, <1>5, <2>1, JumpKeeps DEF RepDone
<1>6. CASE BottomByte
  <2>1. pc' = pc /\ Left' = Left - 1 /\ 1 <= Left /\ ecx' \in Nat /\ edx' \in Nat
    BY <1>0, <1>6 DEF BottomByte, Left
  <2>2. Advance(1) /\ UNCHANGED <<args, df, pc>> /\ pc # "compare"
        /\ 1 \in {1, 4} /\ (df = 1 \/ 1 = 1)
    BY <1>0, <1>6, <2>1 DEF BottomByte
  <2> QED
    BY ONLY Registers, PartlyFilled, <2>1, <2>2, LoopKeeps, ZenonT(30)
<1>7. CASE BottomDone
  <2>1. Left' = Left
    BY <1>0, <1>7 DEF BottomDone, Left
  <2> QED
    BY <1>0, <1>7, <2>1, JumpKeeps DEF BottomDone
<1>8. CASE Compare
  <2>1. pc = "compare" /\ op = "memmove" /\ df = 1 /\ edi = dest /\ ecx = n
        /\ esi = src /\ dest \in Int /\ src \in Int /\ n \in Nat
    BY <1>8 DEF Compare, Registers, Left, Call, Addr
  <2>2. /\ UNCHANGED <<op, dest, src, n, mem0, ecx, edx, mem>>
        /\ pc' = "go" /\ Left = n /\ Left' = n
    BY <1>8, <2>1 DEF Compare, args, Left
  <2>3. Call' /\ mem' \in [Addr -> Byte]
    BY <2>2 DEF Registers, Call
  <2>4. \A a \in Addr : mem[a] = mem0[a]
    <3> SUFFICES ASSUME NEW a \in Addr PROVE mem[a] = mem0[a]
      OBVIOUS
    <3>1. ~Finished(a)
      BY <2>1 DEF Finished, Addr
    <3> QED
      BY <3>1 DEF PartlyFilled
  <2>5. CASE Backwards
    <3>1. edi' = dest + n - 1 /\ esi' = src + n - 1 /\ df' = -1 /\ src < dest
      BY <1>8, <2>1, <2>5 DEF Compare, Backwards
    <3>2. Registers'
      BY <1>0, <2>1, <2>2, <2>3, <3>1 DEF Registers
    <3>3. \A a \in Addr : ~Finished(a)'
      BY <2>1, <2>2, <3>1 DEF Finished, Addr
    <3> QED
      BY <2>2, <2>4, <3>2, <3>3 DEF PartlyFilled
  <2>6. CASE ~Backwards
    <3>1. UNCHANGED <<edi, esi, df>> /\ dest <= src
      BY <1>8, <2>1, <2>6 DEF Compare, Backwards
    <3>2. Registers'
      BY <1>0, <2>1, <2>2, <2>3, <3>1 DEF Registers
    <3>3. \A a \in Addr : ~Finished(a)'
      BY <2>1, <2>2, <3>1 DEF Finished, Addr
    <3> QED
      BY <2>2, <2>4, <3>2, <3>3 DEF PartlyFilled
  <2> QED
    BY <2>5, <2>6
<1>9. CASE GoByte
  <2>1. pc' = pc /\ Left' = Left - 1 /\ 1 <= Left /\ ecx' \in Nat /\ edx' \in Nat
    BY <1>0, <1>9 DEF GoByte, Left
  <2>2. Advance(1) /\ UNCHANGED <<args, df, pc>> /\ pc # "compare"
        /\ 1 \in {1, 4} /\ (df = 1 \/ 1 = 1)
    BY <1>0, <1>9, <2>1 DEF GoByte
  <2> QED
    BY ONLY Registers, PartlyFilled, <2>1, <2>2, LoopKeeps, ZenonT(30)
<1>10. CASE GoDone
  <2>1. Left' = Left
    BY <1>0, <1>10 DEF GoDone, Left
  <2> QED
    BY <1>0, <1>10, <2>1, JumpKeeps DEF GoDone
<1>11. CASE UNCHANGED vars
  <2>1. UNCHANGED <<op, dest, src, n, mem0, pc, edi, esi, ecx, edx, df, mem>>
    BY <1>11 DEF vars, args
  <2> QED
    BY <2>1 DEF Registers, PartlyFilled, Call, Left, Finished, Wanted
<1> QED
  BY <1>1, <1>2, <1>3, <1>4, <1>5, <1>6, <1>7, <1>8, <1>9, <1>10, <1>11
     DEF Next

(* When a call of memset, memcpy or memmove has ended, exactly the n bytes *)
(* at dest hold the fill byte or what the source held at the call; before  *)
(* that every byte has its old or its final value, and the registers never *)
(* leave the regions of the call: for every memory, alignment and length,  *)
(* and for overlapping regions wherever the caller may pass them.          *)
THEOREM CopiesAreExact ==
    Spec => [](Registers /\ PartlyFilled /\ Fills)
<1>1. Init => Registers /\ PartlyFilled
  <2> SUFFICES ASSUME Init PROVE Registers /\ PartlyFilled
    OBVIOUS
  <2>1. Call /\ mem = mem0 /\ mem \in [Addr -> Byte]
    BY MemoryAssumption DEF Init, Call
  <2>2. Left = n /\ dest \in Int /\ src \in Int /\ n \in Nat
    BY MemoryAssumption DEF Init, Left, Addr
  <2>3. Registers
    BY <2>1, <2>2 DEF Init, Registers
  <2>4. \A a \in Addr : ~Finished(a)
    BY <2>2 DEF Init, Finished, Addr
  <2> QED
    BY <2>1, <2>3, <2>4 DEF PartlyFilled
<1>2. Registers /\ PartlyFilled /\ [Next]_vars => (Registers /\ PartlyFilled)'
  BY Inductive
<1>3. Registers /\ PartlyFilled => Fills
  <2> SUFFICES ASSUME Registers, PartlyFilled, pc = "done", NEW a \in Addr
               PROVE  mem[a] = Wanted(a)
    BY DEF Fills
  <2>1. Left = 0 /\ dest \in Int /\ n \in Nat /\ edi \in Int /\ a \in Int
    BY DEF Left, Registers, Call, Addr
  <2>2. a \in dest .. dest + n - 1 => Finished(a)
    BY <2>1 DEF Finished, Registers
  <2> QED
    BY <2>2 DEF PartlyFilled, Wanted
<1> QED
  BY <1>1, <1>2, <1>3, PTL DEF Spec
=============================================================================
