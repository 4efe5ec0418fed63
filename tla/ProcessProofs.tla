---------------------------- MODULE ProcessProofs ----------------------------
(***************************************************************************)
(* Proofs about Process, for every number of pids and of shells, and for   *)
(* every set of exit statuses: its types, and that Body survives booting,  *)
(* the yield, and kexecute up to the loaded program.                       *)
(***************************************************************************)
EXTENDS ProcessInv, TLAPS

(* A leaf that names no prover is the SMT solver's.                        *)
USE SMTT(60)

(* The values every proof needs to know apart.                             *)
LEMMA Constants ==
    /\ NumPids \in Nat /\ NumShells \in Nat /\ 1 <= NumShells /\ NumShells <= NumPids
    /\ Shells \subseteq Pids /\ Pids \subseteq Int /\ 0 \in Shells
    /\ Null \notin Nodes /\ Sentinel \notin Pids /\ Sentinel \in Nodes /\ Pids \subseteq Nodes
    /\ Boot \notin Pids /\ Dead \notin Pids /\ Boot # Dead
    /\ \A p \in Pids : p \in Shells <=> p < NumShells
BY PidAssumption DEF Pids, Shells, Nodes, Null, Sentinel, Boot, Dead

LEMMA StoredType == \A s \in Statuses : Stored(s) \in 0 .. 255 /\ ReturnValue(s) \in 0 .. 256
BY StatusAssumption DEF Stored, ReturnValue, EHALT, EXCEPTION_RETURN

(* Typing of the list operations.                                          *)
LEMMA ScheduleType ==
    ASSUME RQTypeOK, NEW p \in Pids, NEW q \in Pids \cup {Null}, Schedule(p, q)
    PROVE  RQTypeOK'
BY Constants DEF RQTypeOK, Schedule, TaskState

LEMMA UnscheduleType ==
    ASSUME RQTypeOK, NEW p \in Pids, NEW q \in Pids, Unschedule(p, q)
    PROVE  RQTypeOK'
BY Constants DEF RQTypeOK, Unschedule, TaskState

LEMMA RelinkType ==
    ASSUME RQTypeOK, LinksIntact, Relink, curr_node' \in Nodes
    PROVE  RQTypeOK'
BY Constants DEF RQTypeOK, Relink, LinksIntact, NextAfter, PrevAfter, TailAfter, Leaving

(* Types of what a step leaves alone, and of one control point moved.      *)
LEMMA RQFrame == ASSUME RQTypeOK, UNCHANGED rqVars PROVE RQTypeOK'
BY DEF RQTypeOK, rqVars

LEMMA PcbFrame == ASSUME PcbTypeOK, UNCHANGED pcbVars PROVE PcbTypeOK'
BY DEF PcbTypeOK, pcbVars

LEMMA RestFrame == ASSUME RestTypeOK, UNCHANGED <<image, booted, ghosts, hit>> PROVE RestTypeOK'
BY DEF RestTypeOK, ghosts

LEMMA PointNames ==
    {"none", "user", "alloc", "load", "pcb", "current", "sched", "exec_pit", "return", "halt",
     "unsched", "halt_pit"} \subseteq Points
BY DEF Points

(* A step of c that moves no other process keeps Placed.                   *)
LEMMA PlacedStep ==
    ASSUME Placed, NEW c \in Pids, ctx = c, ctx' # Boot, curr_process' \in Pids,
           \A d \in Pids \ {c} : pc'[d] = pc[d] /\ local'[d] = local[d],
           pc'[c] \in {"alloc", "load", "pcb", "current", "exec_pit", "halt_pit"} => local'[c] \in Pids
    PROVE  Placed'
BY Constants DEF Placed

(* TypeInv is inductive.                                                   *)
LEMMA TypeInvariance == Spec => []TypeInv
<1>1. Init => TypeInv
  <2> SUFFICES ASSUME Init PROVE TypeInv
    OBVIOUS
  <2>1. RQTypeOK
    BY Constants DEF Init, RQInit, RQTypeOK, TaskState
  <2>2. PcbTypeOK /\ CpuTypeOK
    BY Constants, PointNames DEF Init, PcbTypeOK, CpuTypeOK
  <2>3. RestTypeOK
    BY Constants DEF Init, RestTypeOK
  <2>4. Placed
    BY Constants DEF Init, RQInit, Placed, Sentinel
  <2> QED
    BY <2>1, <2>2, <2>3, <2>4 DEF TypeInv, TypeOK
<1>2. TypeInv /\ [Next]_vars => TypeInv'
  <2> SUFFICES ASSUME RQTypeOK, PcbTypeOK, CpuTypeOK, RestTypeOK, Placed, [Next]_vars
               PROVE  RQTypeOK' /\ PcbTypeOK' /\ CpuTypeOK' /\ RestTypeOK' /\ Placed'
    BY DEF TypeInv, TypeOK
  <2> USE Constants DEF At, On
  <2>a. pc \in [Pids -> Points] /\ local \in [Pids -> Pids \cup {Null}]
    BY DEF CpuTypeOK
  <2>b. /\ ctx \in Pids => curr_process \in Pids
        /\ \A c \in Pids : pc[c] \in {"alloc", "load", "pcb", "current", "exec_pit", "halt_pit"} =>
                               local[c] \in Pids
    BY DEF Placed
  <2>1. CASE BootShell
    <3>1. booted \in Pids /\ booted' \in 0 .. NumShells
      BY <2>1 DEF BootShell, RestTypeOK, Pids
    <3>2. tail' = booted' - 1 /\ next'[Sentinel] = 0
      BY <2>1, <3>1 DEF BootShell, Placed, RQTypeOK, RestTypeOK, Schedule, Sentinel
    <3>3. RQTypeOK'
      BY <2>1, <3>1, ScheduleType, ZenonT(60) DEF BootShell
    <3>4. PcbTypeOK'
      BY <2>1, <3>1 DEF BootShell, PcbTypeOK
    <3>5. CpuTypeOK'
      BY <2>1, <3>1, PointNames DEF BootShell, CpuTypeOK, Goto
    <3>6. RestTypeOK'
      BY <2>1, <3>1 DEF BootShell, RestTypeOK, ghosts
    <3>7. Placed'
      BY <2>1, <2>a, <2>b, <3>1, <3>2 DEF BootShell, Placed, Goto
    <3> QED
      BY <3>3, <3>4, <3>5, <3>6, <3>7
  <2>2. CASE BootSwitch
    <3>1. next[Sentinel] = 0
      BY <2>2 DEF BootSwitch, Placed
    <3>2. RQTypeOK'
      BY <2>2, <3>1 DEF BootSwitch, PitFirst, RQTypeOK, Shells
    <3>3. PcbTypeOK'
      BY <2>2, <3>1 DEF BootSwitch, PcbTypeOK
    <3>4. CpuTypeOK'
      BY <2>2, <3>1 DEF BootSwitch, CpuTypeOK
    <3>5. RestTypeOK'
      BY <2>2, RestFrame DEF BootSwitch
    <3>6. Placed'
      BY <2>2, <2>b, <3>1 DEF BootSwitch, Placed
    <3> QED
      BY <3>2, <3>3, <3>4, <3>5, <3>6
  <2>3. ASSUME NEW c \in Pids, Tick(c) PROVE RQTypeOK' /\ PcbTypeOK' /\ CpuTypeOK' /\ RestTypeOK' /\ Placed'
    <3>1. PICK t \in Pids : /\ PicksTask(t) /\ Relink
                            /\ curr_node' = t /\ curr_process' = t /\ cr3' = t
                            /\ esp' = [esp EXCEPT ![curr_node] = c] /\ ctx' = esp'[t]
      BY <2>3, ZenonT(60) DEF Tick
    <3>2. esp' \in [Pids -> Pids] /\ ctx' \in Pids /\ pc' \in [Pids -> Points]
      BY <2>3, <3>1, PointNames, ZenonT(60) DEF Tick, CpuTypeOK
    <3>3. \A d \in Pids : pc'[d] = pc[d] \/ pc'[d] = "none"
      BY <2>3, <2>a DEF Tick
    <3>4. RQTypeOK'
      BY <3>1, RelinkType DEF PicksTask
    <3>5. PcbTypeOK'
      BY <2>3, <3>1 DEF Tick, PcbTypeOK
    <3>6. CpuTypeOK'
      BY <2>3, <3>1, <3>2 DEF Tick, CpuTypeOK
    <3>7. RestTypeOK'
      BY <2>3 DEF Tick, RestTypeOK, ghosts
    <3>8. Placed'
      BY <2>3, <3>1, <3>2, <3>3 DEF Tick, Placed
    <3> QED
      BY <3>4, <3>5, <3>6, <3>7, <3>8
  <2>4. ASSUME NEW c \in Pids, YieldPick(c) PROVE RQTypeOK' /\ PcbTypeOK' /\ CpuTypeOK' /\ RestTypeOK' /\ Placed'
    <3>1. PICK t \in Pids : /\ PicksTask(t) /\ Relink
                            /\ curr_process' = t /\ cr3' = t
                            /\ local' = [local EXCEPT ![c] = t]
      BY <2>4, ZenonT(60) DEF YieldPick
    <3>2. esp' \in [Pids -> Pids] /\ local' \in [Pids -> Pids \cup {Null}]
      BY <2>4, <3>1, ZenonT(60) DEF YieldPick, CpuTypeOK
    <3>3. RQTypeOK'
      BY <2>4, <3>1, RelinkType DEF YieldPick, RQTypeOK, PicksTask
    <3>4. PcbTypeOK'
      BY <2>4, <3>1 DEF YieldPick, PcbTypeOK
    <3>5. CpuTypeOK'
      BY <2>4, <3>1, <3>2, PointNames DEF YieldPick, CpuTypeOK, Goto
    <3>6. RestTypeOK'
      BY <2>4, RestFrame, ZenonT(60) DEF YieldPick
    <3>7. Placed'
      BY <2>4, <2>a, <2>b, <3>1, PlacedStep DEF YieldPick, Goto
    <3> QED
      BY <3>3, <3>4, <3>5, <3>6, <3>7
  <2>5. ASSUME NEW c \in Pids, YieldSwitch(c) PROVE RQTypeOK' /\ PcbTypeOK' /\ CpuTypeOK' /\ RestTypeOK' /\ Placed'
    <3>1. local[c] \in Pids /\ ctx' = esp[local[c]] /\ ctx' \in Pids
      <4>1. ctx' = esp[local[c]] /\ pc[c] \in {"exec_pit", "halt_pit"}
        BY <2>5, ZenonT(60) DEF YieldSwitch
      <4>2. esp \in [Pids -> Pids]
        BY ZenonT(60) DEF CpuTypeOK
      <4>3. local[c] \in Pids
        BY <2>b, <4>1, ZenonT(60)
      <4> QED
        BY ONLY <4>1, <4>2, <4>3, SMTT(60)
    <3>2. RQTypeOK'
      <4>1. curr_node' = local[c] /\ UNCHANGED <<next, prev, running, tail>>
        BY <2>5, ZenonT(60) DEF YieldSwitch
      <4>2. local[c] \in Nodes
        BY <3>1, ZenonT(60)
      <4> QED
        BY <4>1, <4>2, ZenonT(60) DEF RQTypeOK
    <3>3. PcbTypeOK'
      BY <2>5, PcbFrame, ZenonT(60) DEF YieldSwitch
    <3>4. CpuTypeOK'
      BY <2>5, <3>1, PointNames DEF YieldSwitch, CpuTypeOK, Goto
    <3>5. RestTypeOK'
      BY <2>5, RestFrame, ZenonT(60) DEF YieldSwitch
    <3>6. Placed'
      BY <2>5, <2>a, <2>b, <3>1, PlacedStep DEF YieldSwitch, pcbVars, Goto
    <3> QED
      BY <3>2, <3>3, <3>4, <3>5, <3>6
  <2>6. ASSUME NEW c \in Pids, ExecAlloc(c) PROVE RQTypeOK' /\ PcbTypeOK' /\ CpuTypeOK' /\ RestTypeOK' /\ Placed'
    <3>1. RQTypeOK'
      BY <2>6, RQFrame, ZenonT(60) DEF ExecAlloc
    <3>2. PcbTypeOK'
      BY <2>6, PcbFrame, ZenonT(60) DEF ExecAlloc
    <3>3. CpuTypeOK'
      BY <2>6, PointNames DEF ExecAlloc, CpuTypeOK, Goto
    <3>4. RestTypeOK'
      BY <2>6 DEF ExecAlloc, RestTypeOK, ghosts, Events, QueueEvents
    <3>5. Placed'
      BY <2>6, <2>a, <2>b, PlacedStep DEF ExecAlloc, pcbVars, Goto
    <3> QED
      BY <3>1, <3>2, <3>3, <3>4, <3>5
  <2>7. ASSUME NEW c \in Pids, ExecPaging(c) PROVE RQTypeOK' /\ PcbTypeOK' /\ CpuTypeOK' /\ RestTypeOK' /\ Placed'
    <3>1. RQTypeOK'
      BY <2>7, RQFrame, ZenonT(60) DEF ExecPaging
    <3>2. PcbTypeOK'
      BY <2>7, PcbFrame, ZenonT(60) DEF ExecPaging
    <3>3. CpuTypeOK'
      BY <2>7, <2>b, PointNames DEF ExecPaging, CpuTypeOK, Goto
    <3>4. RestTypeOK'
      BY <2>7, RestFrame, ZenonT(60) DEF ExecPaging
    <3>5. Placed'
      BY <2>7, <2>a, <2>b, PlacedStep DEF ExecPaging, pcbVars, Goto
    <3> QED
      BY <3>1, <3>2, <3>3, <3>4, <3>5
  <2>8. ASSUME NEW c \in Pids, ExecLoad(c) PROVE RQTypeOK' /\ PcbTypeOK' /\ CpuTypeOK' /\ RestTypeOK' /\ Placed'
    <3>1. local[c] \in Pids
      BY <2>8, <2>b DEF ExecLoad
    <3>2. image' \in [Pids -> Pids \cup {Null}]
      BY <2>8, <3>1, ZenonT(60) DEF ExecLoad, RestTypeOK
    <3>3. RQTypeOK'
      BY <2>8, RQFrame, ZenonT(60) DEF ExecLoad
    <3>4. PcbTypeOK'
      BY <2>8, <3>1 DEF ExecLoad, PcbTypeOK
    <3>5. CpuTypeOK'
      BY <2>8, PointNames DEF ExecLoad, CpuTypeOK, Goto
    <3>6. RestTypeOK'
      BY <2>8, <3>2, ZenonT(60) DEF ExecLoad, RestTypeOK, ghosts
    <3>7. Placed'
      BY <2>8, <2>a, <2>b, PlacedStep DEF ExecLoad, Goto
    <3> QED
      BY <3>3, <3>4, <3>5, <3>6, <3>7
  <2>9. ASSUME NEW c \in Pids, ExecLoadFails(c) PROVE RQTypeOK' /\ PcbTypeOK' /\ CpuTypeOK' /\ RestTypeOK' /\ Placed'
    <3>1. local[c] \in Pids
      BY <2>9, <2>b DEF ExecLoadFails
    <3>2. image' \in [Pids -> Pids \cup {Null}]
      BY <2>9, <3>1, ZenonT(60) DEF ExecLoadFails, RestTypeOK
    <3>3. RQTypeOK'
      BY <2>9, RQFrame, ZenonT(60) DEF ExecLoadFails
    <3>4. PcbTypeOK'
      BY <2>9, PcbFrame, ZenonT(60) DEF ExecLoadFails
    <3>5. CpuTypeOK'
      BY <2>9, PointNames DEF ExecLoadFails, CpuTypeOK, Goto
    <3>6. RestTypeOK'
      <4>1. hit' \subseteq Events
        BY <2>9 DEF ExecLoadFails, RestTypeOK, Events
      <4> QED
        BY <2>9, <3>2, <4>1, ZenonT(60) DEF ExecLoadFails, RestTypeOK, ghosts
    <3>7. Placed'
      BY <2>9, <2>a, <2>b, PlacedStep DEF ExecLoadFails, pcbVars, Goto
    <3> QED
      BY <3>3, <3>4, <3>5, <3>6, <3>7
  <2>10. ASSUME NEW c \in Pids, ExecPcb(c) PROVE RQTypeOK' /\ PcbTypeOK' /\ CpuTypeOK' /\ RestTypeOK' /\ Placed'
    <3>1. RQTypeOK'
      BY <2>10, RQFrame, ZenonT(60) DEF ExecPcb
    <3>2. PcbTypeOK'
      BY <2>10, <2>b DEF ExecPcb, PcbTypeOK
    <3>3. CpuTypeOK'
      BY <2>10, PointNames DEF ExecPcb, CpuTypeOK, Goto
    <3>4. RestTypeOK'
      BY <2>10, <2>b DEF ExecPcb, RestTypeOK
    <3>5. Placed'
      BY <2>10, <2>a, <2>b, PlacedStep DEF ExecPcb, Goto
    <3> QED
      BY <3>1, <3>2, <3>3, <3>4, <3>5
  <2>11. ASSUME NEW c \in Pids, ExecSchedule(c) PROVE RQTypeOK' /\ PcbTypeOK' /\ CpuTypeOK' /\ RestTypeOK' /\ Placed'
    <3>1. curr_process \in Pids /\ parent[curr_process] \in Pids \cup {Null}
      BY <2>11, <2>b DEF ExecSchedule, PcbTypeOK
    <3>2. RQTypeOK'
      BY <2>11, <3>1, ScheduleType, ZenonT(60) DEF ExecSchedule
    <3>3. PcbTypeOK'
      BY <2>11, PcbFrame, ZenonT(60) DEF ExecSchedule
    <3>4. CpuTypeOK'
      BY <2>11, <3>1, PointNames DEF ExecSchedule, CpuTypeOK
    <3>5. RestTypeOK'
      BY <2>11, <3>1 DEF ExecSchedule, RestTypeOK
    <3>6. Placed'
      BY <2>11, <2>a, <2>b, <3>1 DEF ExecSchedule, Placed, pcbVars
    <3> QED
      BY <3>2, <3>3, <3>4, <3>5, <3>6
  <2>12. ASSUME NEW c \in Pids, ExecReturn(c) PROVE RQTypeOK' /\ PcbTypeOK' /\ CpuTypeOK' /\ RestTypeOK' /\ Placed'
    <3>1. RQTypeOK'
      BY <2>12, RQFrame, ZenonT(60) DEF ExecReturn
    <3>2. PcbTypeOK'
      BY <2>12, PcbFrame, ZenonT(60) DEF ExecReturn
    <3>3. CpuTypeOK'
      BY <2>12, PointNames DEF ExecReturn, CpuTypeOK, Goto
    <3>4. RestTypeOK'
      <4>1. rval' = [rval EXCEPT ![c] = ret_status[curr_process]] /\ curr_process \in Pids
        BY <2>12, <2>b, ZenonT(60) DEF ExecReturn
      <4>2. rval' \in [Pids -> 0 .. 255]
        BY <4>1, ZenonT(60) DEF RestTypeOK, PcbTypeOK
      <4> QED
        BY <2>12, <4>2, ZenonT(60) DEF ExecReturn, RestTypeOK
    <3>5. Placed'
      BY <2>12, <2>a, <2>b, PlacedStep DEF ExecReturn, pcbVars, Goto
    <3> QED
      BY <3>1, <3>2, <3>3, <3>4, <3>5
  <2>13. ASSUME NEW c \in Pids, HaltRelease(c) PROVE RQTypeOK' /\ PcbTypeOK' /\ CpuTypeOK' /\ RestTypeOK' /\ Placed'
    <3>1. RQTypeOK'
      BY <2>13, RQFrame, ZenonT(60) DEF HaltRelease
    <3>2. PcbTypeOK'
      BY <2>13, <2>b DEF HaltRelease, PcbTypeOK
    <3>3. CpuTypeOK'
      BY <2>13, <2>b, PointNames DEF HaltRelease, CpuTypeOK, PcbTypeOK, Goto
    <3>4. RestTypeOK'
      BY <2>13, RestFrame, ZenonT(60) DEF HaltRelease
    <3>5. Placed'
      BY <2>13, <2>a, <2>b, PlacedStep DEF HaltRelease, Goto
    <3> QED
      BY <3>1, <3>2, <3>3, <3>4, <3>5
  <2>14. ASSUME NEW c \in Pids, NEW s \in Statuses, HaltDetach(c, s) PROVE RQTypeOK' /\ PcbTypeOK' /\ CpuTypeOK' /\ RestTypeOK' /\ Placed'
    <3>1. curr_process \in Pids /\ local[c] \in Pids /\ ctx = c
      BY <2>14, <2>a, <2>b DEF HaltDetach, Detach
    <3>2. s \in 0 .. 255 /\ Stored(s) \in 0 .. 255 /\ ReturnValue(s) \in 0 .. 256
      BY StoredType, StatusAssumption
    <3>3. ret_status' \in [Pids -> 0 .. 255]
      <4>1. ret_status' = [ret_status EXCEPT ![curr_process] = s, ![local[c]] = Stored(s)]
        BY <2>14, ZenonT(60) DEF HaltDetach, Detach
      <4>2. ret_status \in [Pids -> 0 .. 255]
        BY ZenonT(60) DEF PcbTypeOK
      <4> QED
        BY ONLY <4>1, <4>2, <3>1, <3>2, SMTT(60)
    <3>4. child' \in [Pids -> Pids \cup {Null}] /\ parent' \in [Pids -> Pids \cup {Null}]
      BY <2>14, <3>1 DEF HaltDetach, Detach, PcbTypeOK
    <3>5. local' = [local EXCEPT ![c] = Null] /\ pc' = [pc EXCEPT ![c] = "unsched"]
      BY <2>14, ZenonT(60) DEF HaltDetach, Detach, Goto
    <3>6. UNCHANGED <<curr_process, pid_arr, cr3, ctx, esp, image, booted, creator, rval, hit>>
      BY <2>14, ZenonT(60) DEF HaltDetach, Detach
    <3>7. RQTypeOK'
      BY <2>14, <3>1, UnscheduleType, ZenonT(60) DEF HaltDetach, Detach
    <3>8. PcbTypeOK'
      BY <3>1, <3>3, <3>4, <3>6 DEF PcbTypeOK
    <3>9. CpuTypeOK'
      BY <3>5, <3>6, PointNames DEF CpuTypeOK
    <3>10. RestTypeOK'
      <4>1. expect' = [p \in Pids |-> IF p = creator[c] THEN ReturnValue(s) ELSE expect[p]]
        BY <2>14, ZenonT(60) DEF HaltDetach, Detach
      <4>2. expect \in [Pids -> 0 .. 256]
        BY ZenonT(60) DEF RestTypeOK
      <4>3. expect' \in [Pids -> 0 .. 256]
        BY ONLY <3>2, <4>1, <4>2, SMTT(60)
      <4> QED
        BY <3>6, <4>3, ZenonT(60) DEF RestTypeOK
    <3>11. Placed'
      BY <2>a, <2>b, <3>1, <3>5, <3>6, PlacedStep
    <3> QED
      BY <3>7, <3>8, <3>9, <3>10, <3>11
  <2>15. ASSUME NEW c \in Pids, KernelFault(c) PROVE RQTypeOK' /\ PcbTypeOK' /\ CpuTypeOK' /\ RestTypeOK' /\ Placed'
    <3>1. RQTypeOK'
      BY <2>15, RQFrame, ZenonT(60) DEF KernelFault
    <3>2. PcbTypeOK'
      BY <2>15, PcbFrame, ZenonT(60) DEF KernelFault
    <3>3. CpuTypeOK'
      BY <2>15 DEF KernelFault, CpuTypeOK
    <3>4. RestTypeOK'
      BY <2>15 DEF KernelFault, RestTypeOK, ghosts
    <3>5. Placed'
      BY <2>15, <2>a, <2>b, PlacedStep DEF KernelFault, pcbVars
    <3> QED
      BY <3>1, <3>2, <3>3, <3>4, <3>5
  <2>16. CASE UNCHANGED vars
    <3>1. RQTypeOK'
      BY <2>16, RQFrame, ZenonT(60) DEF vars
    <3>2. PcbTypeOK'
      BY <2>16, PcbFrame, ZenonT(60) DEF vars
    <3>3. CpuTypeOK'
      BY <2>16 DEF vars, cpuVars, CpuTypeOK
    <3>4. RestTypeOK'
      BY <2>16, RestFrame, ZenonT(60) DEF vars
    <3>5. Placed'
      BY <2>16 DEF vars, Placed, rqVars, pcbVars, cpuVars
    <3> QED
      BY <3>1, <3>2, <3>3, <3>4, <3>5
  <2> QED
    BY ZenonT(60), <2>1, <2>2, <2>3, <2>4, <2>5, <2>6, <2>7, <2>8, <2>9, <2>10, <2>11,
       <2>12, <2>13, <2>14, <2>15, <2>16 DEF Next, UserStep, KernelStep, Stopped
<1> QED
  BY <1>1, <1>2, PTL DEF Spec

(* Type correctness of the kernel state: however calls and ticks           *)
(* interleave, and whatever they break, no variable of Process leaves its  *)
(* domain.                                                                 *)
THEOREM TypeCorrect == Spec => []TypeOK
<1>1. TypeInv => TypeOK
  BY DEF TypeInv
<1> QED
  BY <1>1, TypeInvariance, PTL

-----------------------------------------------------------------------------
(* schedule appends an unlinked node and keeps the links inverse.          *)
LEMMA ScheduleLinks ==
    ASSUME RQTypeOK, LinksInv, NEW p \in Pids, NEW q \in Pids \cup {Null},
           next[p] = Null, Schedule(p, q)
    PROVE  /\ LinksInv'
           /\ \A n \in Nodes : next'[n] = Null <=> next[n] = Null /\ n # p
BY Constants DEF RQTypeOK, LinksInv, Schedule

(* pit_handler unlinks at most the current node and keeps the links        *)
(* inverse.                                                                *)
LEMMA RelinkLinks ==
    ASSUME RQTypeOK, LinksInv, curr_node \in Pids, next[curr_node] # Null, Relink
    PROVE  /\ LinksInv'
           /\ \A n \in Nodes : next'[n] = Null <=>
                    next[n] = Null \/ (n = curr_node /\ Leaving)
<1>1. CASE ~Leaving
  BY <1>1 DEF RQTypeOK, LinksInv, Relink, NextAfter, PrevAfter, TailAfter
<1>2. CASE Leaving
  <2> DEFINE a == prev[curr_node]  b == next[curr_node]
  <2>1. /\ a \in Nodes /\ b \in Nodes /\ next[a] = curr_node /\ prev[b] = curr_node
    BY Constants DEF RQTypeOK, LinksInv
  <2>2. /\ next' = [next EXCEPT ![a] = b, ![curr_node] = Null]
        /\ prev' = [prev EXCEPT ![b] = a, ![curr_node] = Null]
        /\ tail' = IF curr_node = tail THEN a ELSE tail
    BY <1>2 DEF Relink, NextAfter, PrevAfter, TailAfter
  <2>3. /\ \A n \in Nodes : next'[n] = IF n = curr_node THEN Null ELSE IF n = a THEN b ELSE next[n]
        /\ \A n \in Nodes : prev'[n] = IF n = curr_node THEN Null ELSE IF n = b THEN a ELSE prev[n]
    BY <2>1, <2>2, Constants DEF RQTypeOK
  <2> HIDE DEF a, b
  <2>4. \A n \in Nodes : next'[n] = Null <=> next[n] = Null \/ n = curr_node
    BY <2>1, <2>3, Constants DEF RQTypeOK, LinksInv
  <2>5. ASSUME NEW n \in Nodes, next'[n] # Null
        PROVE  prev'[n] # Null /\ prev'[next'[n]] = n
    <3>1. n # curr_node
      BY <2>3, <2>5
    <3>2. CASE n = a
      BY <2>1, <2>3, <3>1, <3>2, Constants, ZenonT(60) DEF RQTypeOK, LinksInv, a, b
    <3>3. CASE n # a
      <4>1. next'[n] = next[n] /\ next[n] # Null /\ next[n] \in Nodes
        BY <2>3, <2>5, <3>1, <3>3 DEF RQTypeOK
      <4>2. prev[n] # Null /\ prev[next[n]] = n
        BY <4>1 DEF LinksInv
      <4>3. next[n] # curr_node /\ next[n] # b
        BY <2>1, <3>1, <3>3, <4>2 DEF a, b
      <4>4. prev'[next[n]] = n
        BY <2>3, <4>1, <4>2, <4>3
      <4>5. prev'[n] # Null
        BY <2>1, <2>3, <3>1, <4>2, Constants
      <4> QED
        BY <4>1, <4>4, <4>5
    <3> QED
      BY <3>2, <3>3
  <2>6. ASSUME NEW n \in Nodes, prev'[n] # Null
        PROVE  next'[n] # Null /\ next'[prev'[n]] = n
    <3>1. n # curr_node
      BY <2>3, <2>6
    <3>2. CASE n = b
      BY <2>1, <2>3, <3>1, <3>2, Constants, ZenonT(60) DEF RQTypeOK, LinksInv, a, b
    <3>3. CASE n # b
      <4>1. prev'[n] = prev[n] /\ prev[n] # Null /\ prev[n] \in Nodes
        BY <2>3, <2>6, <3>1, <3>3 DEF RQTypeOK
      <4>2. next[n] # Null /\ next[prev[n]] = n
        BY <4>1 DEF LinksInv
      <4>3. prev[n] # curr_node /\ prev[n] # a
        BY <2>1, <3>1, <3>3, <4>2 DEF a, b
      <4>4. next'[prev[n]] = n
        BY <2>3, <4>1, <4>2, <4>3
      <4>5. next'[n] # Null
        BY <2>1, <2>3, <3>1, <4>2, Constants
      <4> QED
        BY <4>1, <4>4, <4>5
    <3> QED
      BY <3>2, <3>3
  <2>7. tail' = prev'[Sentinel] /\ next'[Sentinel] # Null
    BY <2>1, <2>2, <2>3, Constants DEF RQTypeOK, LinksInv, a, b
  <2> QED
    BY <1>2, <2>4, <2>5, <2>6, <2>7 DEF LinksInv
<1> QED
  BY <1>1, <1>2

-----------------------------------------------------------------------------
(* A step that moves no context across the boundaries that the tree and    *)
(* the statuses, or the pid array, depend on.                              *)
SameKin(p) ==
    /\ pc'[p] \in Working <=> pc[p] \in Working
    /\ pc'[p] \in Waiting <=> pc[p] \in Waiting
    /\ pc'[p] \in {"halt", "current"} => pc'[p] = pc[p] /\ local'[p] = local[p]
    /\ pc'[p] \in {"unsched", "halt_pit"} => pc[p] \in {"unsched", "halt_pit"}

SamePid(p) ==
    /\ pc'[p] \in InExec <=> pc[p] \in InExec
    /\ pc'[p] \in {"pcb", "current"} <=> pc[p] \in {"pcb", "current"}
    /\ pc'[p] \in (Working \cup Waiting) \ {"halt"} <=> pc[p] \in (Working \cup Waiting) \ {"halt"}
    /\ pc[p] = "none" => pc'[p] = "none"
    /\ pc[p] \in InExec => local'[p] = local[p]

(* Such a step keeps the tree and the statuses, ...                        *)
LEMMA TreeFrame ==
    ASSUME Body, \A p \in Pids : SameKin(p),
           UNCHANGED <<running, parent, child, ret_status, creator, expect, rval>>
    PROVE  TreeInv' /\ StatusInv'
<1>1. \A p \in Pids : pc'[p] \in Working \cup Waiting <=> pc[p] \in Working \cup Waiting
  BY DEF SameKin
<1>a. /\ \A p \in Pids : ParentWaits(p) /\ ChildLives(p) /\ Kin(p)
      /\ StatusInv
  BY DEF Body, TreeInv
<1>b. \A p \in Pids : pc'[p] \in Waiting <=> pc[p] \in Waiting
  BY DEF SameKin
<1>2. ASSUME NEW p \in Pids PROVE ParentWaits(p)'
  BY <1>a, <1>b, <1>1, ZenonT(60) DEF ParentWaits
<1>3. ASSUME NEW p \in Pids PROVE ChildLives(p)'
  BY <1>a, <1>b, <1>1, ZenonT(60) DEF ChildLives
<1>4. ASSUME NEW p \in Pids PROVE Kin(p)'
  <2>1. Kin(p) /\ SameKin(p)
    BY <1>a
  <2> QED
    BY ONLY <2>1, UNCHANGED <<running, parent, child, ret_status, creator, expect, rval>>, SMTT(60)
       DEF Kin, SameKin
<1>5. StatusInv'
  BY <1>a, ZenonT(60) DEF StatusInv, SameKin
<1> QED
  BY <1>2, <1>3, <1>4, <1>5 DEF TreeInv

(* ... or the pid array.                                                   *)
LEMMA PidFrame ==
    ASSUME Body, \A p \in Pids : SamePid(p), UNCHANGED pid_arr
    PROVE  PidInv'
<1>1. \A p \in Pids : pc[p] \in {"pcb", "current"} => local'[p] = local[p]
  BY DEF SamePid, InExec
<1>2. \A p \in Pids : Building(p)' <=> Building(p)
  BY <1>1 DEF Building, SamePid
<1>3. ASSUME NEW p \in Pids PROVE OwnPid(p)'
  <2>1. OwnPid(p) /\ \A d \in Pids : SamePid(d)
    BY DEF Body, PidInv
  <2> QED
    BY ONLY <2>1, p \in Pids, UNCHANGED pid_arr, SMTT(60) DEF OwnPid, SamePid
<1>4. ASSUME NEW p \in Pids PROVE Marked(p)'
  BY <1>2 DEF Body, PidInv, Marked, SamePid
<1> QED
  BY <1>3, <1>4 DEF PidInv

(* A kexecute that the step is not about keeps its pid.                    *)
LEMMA OwnPidFrame ==
    ASSUME NEW p \in Pids, OwnPid(p),
           pc'[p] = pc[p], local'[p] = local[p],
           pc[p] \in InExec =>
                 /\ pc'[local[p]] = "none"
                 /\ pid_arr'[local[p]] <=> pid_arr[local[p]]
                 /\ \A d \in Pids \ {p} : pc'[d] \in InExec => local'[d] # local[p]
    PROVE  OwnPid(p)'
BY DEF OwnPid

-----------------------------------------------------------------------------
(* The invariant IInv, one lemma per action, one step per conjunct of      *)
(* Body.  First the initial states, boot, the timer and "int $32".         *)

(* The invariant holds initially.                                          *)
LEMMA InitBody == Init => Body
<1> SUFFICES ASSUME Init PROVE Body
  OBVIOUS
<1> USE Constants DEF Init, RQInit
<1>1. LinksInv
  BY DEF LinksInv
<1>2. BootInv
  BY DEF BootInv, Sentinel, Pids
<1>3. CurrentInv
  BY DEF CurrentInv, Atomic
<1>4. TaskInv
  BY DEF TaskInv, Working, Waiting, InExec
<1>5. PidInv
  BY DEF PidInv, OwnPid, Marked, Working, Waiting, InExec, Building
<1>6. TreeInv
  BY DEF TreeInv, ParentWaits, ChildLives, Kin, Working, Waiting, InExec
<1>7. StatusInv /\ SpaceInv
  BY DEF StatusInv, SpaceInv, Working, Waiting, InExec
<1> QED
  BY <1>1, <1>2, <1>3, <1>4, <1>5, <1>6, <1>7 DEF Body

-----------------------------------------------------------------------------
(* A tick, with the context switch it makes, keeps the invariant.          *)
LEMMA TickBody ==
    ASSUME TypeInv, Body, Sound, Sound', NEW c \in Pids, Tick(c)
    PROVE  Body'
<1> USE Constants
<1>1. /\ ctx = c /\ pc[c] \in Points \ {"none"} /\ pc[c] \notin Atomic
      /\ hit' = hit \cup ({pc[c]} \cap Events)
  BY ZenonT(60) DEF Tick, On, TypeInv, TypeOK, CpuTypeOK, RestTypeOK, Sound, Atomic, Events, QueueEvents
<1>2. curr_node = c /\ next[c] # Null /\ esp = [p \in Pids |-> p]
  BY <1>1 DEF Body, CurrentInv, TaskInv, Points, Atomic
<1>3. Leaving <=> pc[c] = "unsched"
  BY <1>1, <1>2 DEF Leaving, Body, TaskInv, Working, Waiting, InExec, Points, Atomic
<1>4. PICK t \in Pids : /\ running[t] = "RUNNING" /\ Relink
                        /\ curr_node' = t /\ curr_process' = t /\ cr3' = t
                        /\ esp' = [esp EXCEPT ![curr_node] = c] /\ ctx' = esp'[t]
  BY DEF Tick, PicksTask
<1>5. esp' = [p \in Pids |-> p] /\ ctx' = t
  BY <1>2, <1>4
<1>6. \A p \in Pids : pc'[p] = IF p = c /\ pc[c] = "unsched" THEN "none" ELSE pc[p]
  BY <1>2, <1>3 DEF Tick, TypeInv, TypeOK, CpuTypeOK
<1>7. LinksInv' /\ \A n \in Nodes : next'[n] = Null <=>
                     next[n] = Null \/ (n = c /\ pc[c] = "unsched")
  BY <1>2, <1>3, <1>4, RelinkLinks DEF Body, TypeInv, TypeOK, CpuTypeOK
<1>8. UNCHANGED <<running, pid_arr, parent, child, ret_status, local, image, booted, creator, expect, rval>>
  BY <1>4 DEF Tick, Relink, ghosts
<1>9. BootInv'
  BY <1>1, <1>5, <1>8 DEF Body, BootInv
<1>10. pc[t] # "none" /\ pc[t] \notin {"halt_pit", "unsched"} /\ pc'[t] = pc[t] /\ pc[t] \notin Atomic
  BY <1>1, <1>4, <1>6 DEF Body, TaskInv, CurrentInv
<1>11. CurrentInv'
  <2>1. \A p \in Pids : pc'[p] \notin Atomic
    BY <1>1, <1>6 DEF Body, CurrentInv, Atomic
  <2> QED
    BY <1>4, <1>5, <1>8, <1>10, <2>1, ZenonT(60) DEF CurrentInv
<1>12. TaskInv'
  <2>1. \A p \in Pids : pc[p] = "unsched" => running[p] = "FINISHED" /\ p \notin Shells
    BY DEF Body, TaskInv
  <2>2. \A p \in Pids : next'[p] = Null <=> pc'[p] \in {"none", "halt_pit"}
    BY <1>6, <1>7 DEF Body, TaskInv
  <2>3. \A s \in Shells : next'[s] # Null
    BY <1>1, <1>7, <2>1 DEF Body, TaskInv
  <2> QED
    BY <1>1, <1>6, <1>8, <2>1, <2>2, <2>3 DEF Body, TaskInv, Working, Waiting, InExec
<1>13. \A p \in Pids : SameKin(p) /\ SamePid(p)
  BY <1>6, <1>8 DEF SameKin, SamePid, Working, Waiting, InExec
<1>14. PidInv' /\ TreeInv' /\ StatusInv'
  BY <1>8, <1>13, TreeFrame, PidFrame
<1>15. SpaceInv'
  <2> SUFFICES ASSUME hit' = {} PROVE SpaceInv'
    BY DEF SpaceInv
  <2>1. hit = {} /\ pc[c] # "load"
    BY <1>1 DEF Events
  <2> QED
    BY <1>1, <1>4, <1>5, <1>6, <1>7, <1>8, <1>10, <2>1 DEF Body, SpaceInv, Atomic
<1> QED
  BY <1>7, <1>9, <1>11, <1>12, <1>14, <1>15 DEF Body

(* The first half of "int $32" keeps the invariant.                        *)
LEMMA YieldPickBody ==
    ASSUME TypeInv, Body, Sound, Sound', NEW c \in Pids, YieldPick(c)
    PROVE  Body'
<1> USE Constants
<1>1. ctx = c /\ pc[c] \in {"sched", "unsched"} /\ hit' = hit
  BY DEF YieldPick, On
<1>2. curr_node = c /\ next[c] # Null /\ esp = [p \in Pids |-> p]
  BY <1>1 DEF Body, CurrentInv, TaskInv
<1>3. Leaving <=> pc[c] = "unsched"
  BY <1>1, <1>2 DEF Leaving, Body, TaskInv, Waiting
<1>4. PICK t \in Pids : /\ running[t] = "RUNNING" /\ Relink
                        /\ curr_process' = t /\ cr3' = t
                        /\ local' = [local EXCEPT ![c] = t]
  BY ZenonT(60) DEF YieldPick, PicksTask
<1>5. esp' = [p \in Pids |-> p] /\ ctx' = c /\ curr_node' = c
  BY <1>1, <1>2 DEF YieldPick
<1>6. \A p \in Pids : /\ pc'[p] = IF p = c THEN IF pc[c] = "sched" THEN "exec_pit" ELSE "halt_pit"
                                 ELSE pc[p]
                      /\ local'[p] = IF p = c THEN t ELSE local[p]
  <2>1. /\ pc' = [pc EXCEPT ![c] = IF pc[c] = "sched" THEN "exec_pit" ELSE "halt_pit"]
        /\ local' = [local EXCEPT ![c] = t]
    BY <1>4, ZenonT(60) DEF YieldPick, Goto
  <2>2. pc \in [Pids -> Points] /\ local \in [Pids -> Pids \cup {Null}]
    BY ZenonT(60) DEF TypeInv, TypeOK, CpuTypeOK
  <2> QED
    BY ONLY <2>1, <2>2, c \in Pids, SMTT(60)
<1>7. LinksInv' /\ \A n \in Nodes : next'[n] = Null <=>
                     next[n] = Null \/ (n = c /\ pc[c] = "unsched")
  BY <1>2, <1>3, <1>4, RelinkLinks DEF Body, TypeInv, TypeOK, CpuTypeOK
<1>8. UNCHANGED <<running, pid_arr, parent, child, ret_status, image, booted, creator, expect, rval>>
  BY <1>4 DEF YieldPick, Relink, ghosts
<1>9. BootInv'
  BY <1>1, <1>5, <1>8 DEF Body, BootInv
<1>10. CurrentInv'
  BY <1>1, <1>4, <1>5, <1>6 DEF Body, CurrentInv, Atomic
<1>11. TaskInv'
  <2>1. \A p \in Pids : next'[p] = Null <=> pc'[p] \in {"none", "halt_pit"}
    BY <1>1, <1>6, <1>7 DEF Body, TaskInv
  <2>2. ASSUME NEW p \in Pids, pc'[p] \in {"exec_pit", "halt_pit"}
        PROVE  local'[p] \in Pids /\ running[local'[p]] = "RUNNING"
    BY <1>4, <1>6, <2>2 DEF Body, TaskInv
  <2>3. \A s \in Shells : next'[s] # Null
    BY <1>1, <1>7 DEF Body, TaskInv
  <2> QED
    BY <1>1, <1>6, <1>8, <2>1, <2>2, <2>3 DEF Body, TaskInv, Working, Waiting, InExec
<1>12. \A p \in Pids : SameKin(p) /\ SamePid(p)
  BY <1>1, <1>6 DEF SameKin, SamePid, Working, Waiting, InExec
<1>13. PidInv' /\ TreeInv' /\ StatusInv'
  BY <1>8, <1>12, TreeFrame, PidFrame
<1>14. SpaceInv'
  BY <1>1, <1>4, <1>5, <1>6, <1>7, <1>8 DEF Body, SpaceInv
<1> QED
  BY <1>7, <1>9, <1>10, <1>11, <1>13, <1>14 DEF Body

(* So does the switch to the stack that was picked.                        *)
LEMMA YieldSwitchBody ==
    ASSUME TypeInv, Body, Sound, Sound', NEW c \in Pids, YieldSwitch(c)
    PROVE  Body'
<1> USE Constants
<1> DEFINE t == local[c]
<1>1. ctx = c /\ pc[c] \in {"exec_pit", "halt_pit"} /\ hit' = hit
  BY DEF YieldSwitch, On
<1>2. t \in Pids /\ running[t] = "RUNNING" /\ curr_process = t
  BY <1>1 DEF Body, TaskInv, CurrentInv, Atomic
<1>3. esp' = [p \in Pids |-> p] /\ ctx' = t /\ curr_node' = t /\ cr3' = cr3 /\ curr_process' = t
  BY <1>2 DEF YieldSwitch, Body, CurrentInv, pcbVars
<1>4. \A p \in Pids : /\ pc'[p] = IF p = c THEN IF pc[c] = "exec_pit" THEN "return" ELSE "none"
                                 ELSE pc[p]
                      /\ local'[p] = IF p = c THEN Null ELSE local[p]
  BY DEF YieldSwitch, Goto, TypeInv, TypeOK, CpuTypeOK
<1>5. UNCHANGED <<next, prev, tail, running, pid_arr, parent, child, ret_status, image, booted,
                  creator, expect, rval>>
  BY DEF YieldSwitch, ghosts, pcbVars
<1> HIDE DEF t
<1>6. LinksInv'
  BY <1>5 DEF Body, LinksInv
<1>7. BootInv'
  BY <1>1, <1>2, <1>3, <1>5 DEF Body, BootInv
<1>8. pc'[t] # "none" /\ \A p \in Pids : pc'[p] \notin Atomic
  BY <1>1, <1>2, <1>4 DEF Body, TaskInv, CurrentInv, Atomic
<1>9. CurrentInv'
  BY <1>2, <1>3, <1>5, <1>8 DEF CurrentInv
<1>10. TaskInv'
  <2>1. \A p \in Pids : next'[p] = Null <=> pc'[p] \in {"none", "halt_pit"}
    BY <1>1, <1>4, <1>5 DEF Body, TaskInv
  <2>2. ASSUME NEW p \in Pids PROVE pc'[p] \notin {"exec_pit", "halt_pit"}
    BY <1>8 DEF Atomic
  <2> QED
    BY <1>1, <1>4, <1>5, <2>1, <2>2 DEF Body, TaskInv, Working, Waiting, InExec
<1>11. \A p \in Pids : SameKin(p) /\ SamePid(p)
  BY <1>1, <1>4 DEF SameKin, SamePid, Working, Waiting, InExec
<1>12. PidInv' /\ TreeInv' /\ StatusInv'
  BY <1>5, <1>11, TreeFrame, PidFrame
<1>13. SpaceInv'
  BY <1>1, <1>2, <1>3, <1>4, <1>5, <1>8, ZenonT(60) DEF Body, SpaceInv, Atomic, t
<1> QED
  BY <1>6, <1>7, <1>9, <1>10, <1>12, <1>13 DEF Body

-----------------------------------------------------------------------------
(* Opening a shell at boot keeps the invariant.                            *)
LEMMA BootShellBody ==
    ASSUME TypeInv, Body, Sound, Sound', BootShell
    PROVE  Body'
<1> USE Constants
<1> DEFINE b == booted
<1>1. b \in Shells /\ ctx = Boot /\ ctx' = Boot /\ booted' = b + 1 /\ booted \in Int
  BY DEF BootShell, TypeInv, TypeOK, CpuTypeOK, RestTypeOK, Shells
<1>2. /\ curr_node = Sentinel /\ hit = {} /\ curr_node' = Sentinel /\ hit' = {}
      /\ \A p \in Pids : /\ pc[p] = IF p < b THEN "user" ELSE "none"
                         /\ image[p] = IF p < b THEN p ELSE Null
                         /\ expect[p] = 0 /\ rval[p] = 0
  BY <1>1 DEF BootShell, Schedule, Body, BootInv
<1>3. next[b] = Null
  BY <1>1, <1>2 DEF Body, TaskInv
<1>4. LinksInv' /\ \A n \in Nodes : next'[n] = Null <=> next[n] = Null /\ n # b
  BY <1>1, <1>3, ScheduleLinks, ZenonT(60) DEF BootShell, Body, TypeInv, TypeOK
<1>5. /\ tail' = b
      /\ \A n \in Nodes : running'[n] = IF n = b THEN "RUNNING" ELSE running[n]
  BY <1>1 DEF BootShell, Schedule
<1>6. \A p \in Pids : /\ pc'[p] = IF p = b THEN "user" ELSE pc[p]
                      /\ image'[p] = IF p = b THEN p ELSE image[p]
                      /\ pid_arr'[p] = IF p = b THEN TRUE ELSE pid_arr[p]
  BY <1>1 DEF BootShell, Goto, TypeInv, TypeOK, PcbTypeOK, CpuTypeOK, RestTypeOK
<1>7. UNCHANGED <<parent, child, ret_status, ctx, local, esp, creator, expect, rval>>
  BY DEF BootShell, ghosts
<1> HIDE DEF b
<1>8. \A p \in Pids : pc'[p] = IF p < booted' THEN "user" ELSE "none"
  <2>1. ASSUME NEW p \in Pids PROVE p < booted' <=> p < b \/ p = b
    BY <1>1 DEF b, Pids
  <2> QED
    BY <1>2, <1>6, <2>1, ZenonT(60)
<1>9. BootInv'
  <2>1. tail' = booted' - 1 /\ b < booted'
    BY <1>1, <1>5 DEF b
  <2>2. \A p \in Pids : image'[p] = IF p < booted' THEN p ELSE Null
    <3>1. ASSUME NEW p \in Pids PROVE p < booted' <=> p < b \/ p = b
      BY <1>1 DEF b, Pids
    <3> QED
      BY <1>2, <1>6, <3>1, ZenonT(60)
  <2> QED
    BY <1>1, <1>2, <1>7, <1>8, <2>1, <2>2 DEF BootInv
<1>10. CurrentInv'
  BY <1>1, <1>7, <1>8 DEF Body, CurrentInv, Atomic
<1>11. TaskInv'
  <2>1. ASSUME NEW p \in Pids
        PROVE  /\ next'[p] = Null <=> pc'[p] = "none"
               /\ pc'[p] = "user" => running'[p] = "RUNNING"
               /\ pc'[p] = "none" => running'[p] # "RUNNING"
    <3>1. pc[p] \in {"user", "none"}
      BY <1>2
    <3>2. /\ next[p] = Null <=> pc[p] = "none"
          /\ pc[p] = "user" => running[p] = "RUNNING"
          /\ pc[p] = "none" => running[p] # "RUNNING"
      BY <3>1 DEF Body, TaskInv, Working
    <3> QED
      BY <1>4, <1>5, <1>6, <3>1, <3>2, ZenonT(60)
  <2>2. running'[Sentinel] = "SENTINEL"
    BY <1>1, <1>5 DEF Body, TaskInv
  <2> QED
    BY <1>1, <1>8, <2>1, <2>2 DEF TaskInv, Working, Waiting, InExec
<1>12. PidInv'
  <2>1. \A p \in Pids : OwnPid(p)'
    BY <1>8 DEF OwnPid, InExec
  <2>2. \A p \in Pids : ~Building(p) /\ ~Building(p)'
    BY <1>2, <1>8 DEF Building
  <2>3. \A p \in Pids : Marked(p)'
    BY <1>2, <1>6, <2>2, ZenonT(60) DEF Body, PidInv, Marked, Working
  <2> QED
    BY <2>1, <2>3 DEF PidInv
<1>13. TreeInv'
  <2>1. \A p \in Pids : p \notin Shells => pc'[p] = "none"
    BY <1>1, <1>2, <1>6, <1>8
  <2>2. \A p \in Pids : ParentWaits(p)' /\ ChildLives(p)'
    BY <1>8, <2>1 DEF ParentWaits, ChildLives, Working, Waiting, InExec
  <2>3. \A p \in Pids : Kin(p)'
    BY <1>7, <1>8 DEF Body, TreeInv, Kin
  <2> QED
    BY <2>2, <2>3 DEF TreeInv
<1>14. StatusInv'
  BY <1>2, <1>7, <1>8 DEF StatusInv, Waiting
<1>15. SpaceInv'
  <2>1. \A p \in Pids : next'[p] # Null => image'[p] = p
    <3>1. \A p \in Pids : next[p] # Null => p < b
      BY <1>2 DEF Body, TaskInv
    <3> QED
      BY <1>2, <1>4, <1>6, <3>1, ZenonT(60)
  <2> QED
    BY <1>1, <1>8, <2>1 DEF SpaceInv
<1> QED
  BY <1>4, <1>9, <1>10, <1>11, <1>12, <1>13, <1>14, <1>15 DEF Body

(* The first switch keeps the invariant.                                   *)
LEMMA BootSwitchBody ==
    ASSUME TypeInv, Body, Sound, Sound', BootSwitch
    PROVE  Body'
<1> USE Constants
<1>1. /\ ctx = Boot /\ booted = NumShells /\ next[Sentinel] = 0 /\ booted' = booted
      /\ curr_node' = 0 /\ ctx' = 0 /\ curr_process' = 0 /\ cr3' = 0 /\ 0 \in Pids
  BY DEF BootSwitch, PitFirst, TypeInv, Placed
<1>2. UNCHANGED <<next, prev, tail, running, pid_arr, parent, child, ret_status, pc, local, esp,
                  image, creator, expect, rval, hit>>
  BY DEF BootSwitch, PitFirst, ghosts
<1>3. \A p \in Pids : pc[p] = IF p < NumShells THEN "user" ELSE "none"
  BY <1>1 DEF Body, BootInv
<1>4. LinksInv' /\ BootInv'
  BY <1>1, <1>2 DEF Body, LinksInv, BootInv
<1>5. CurrentInv'
  BY <1>1, <1>2, <1>3 DEF Body, CurrentInv, Atomic
<1>6. TaskInv'
  BY <1>1, <1>2, <1>3 DEF Body, TaskInv
<1>7. \A p \in Pids : SameKin(p) /\ SamePid(p)
  BY <1>2 DEF SameKin, SamePid
<1>8. PidInv' /\ TreeInv' /\ StatusInv'
  BY <1>2, <1>7, TreeFrame, PidFrame
<1>9. SpaceInv'
  BY <1>1, <1>2, <1>3 DEF Body, SpaceInv
<1> QED
  BY <1>4, <1>5, <1>6, <1>8, <1>9 DEF Body

-----------------------------------------------------------------------------
(* kexecute, until the program is loaded.                                  *)

(* Taking a pid keeps the invariant.                                       *)
LEMMA ExecAllocBody ==
    ASSUME TypeInv, Body, Sound, Sound', NEW c \in Pids, ExecAlloc(c)
    PROVE  Body'
<1> USE Constants
<1>1. PICK q \in Pids : /\ ~pid_arr[q] /\ local' = [local EXCEPT ![c] = q]
                        /\ hit' = IF Raced(c, q) THEN hit \cup {"race"} ELSE hit
  BY ZenonT(60) DEF ExecAlloc
<1>2. /\ hit' = hit /\ next[q] = Null /\ pc[q] = "none"
      /\ \A d \in Pids \ {c} : pc[d] \in {"alloc", "load"} => local[d] # q
  BY <1>1 DEF Raced, Sound, QueueEvents
<1>3. ctx = c /\ pc[c] = "user"
  BY DEF ExecAlloc, At, On
<1>4. \A p \in Pids : /\ pc'[p] = IF p = c THEN "alloc" ELSE pc[p]
                      /\ local'[p] = IF p = c THEN q ELSE local[p]
  <2>1. pc' = [pc EXCEPT ![c] = "alloc"] /\ local' = [local EXCEPT ![c] = q]
    BY <1>1, ZenonT(60) DEF ExecAlloc, Goto
  <2>2. pc \in [Pids -> Points] /\ local \in [Pids -> Pids \cup {Null}]
    BY ZenonT(60) DEF TypeInv, TypeOK, CpuTypeOK
  <2> QED
    BY ONLY <2>1, <2>2, c \in Pids, SMTT(60)
<1>5. UNCHANGED <<next, prev, running, tail, curr_node, curr_process, pid_arr, parent, child,
                  ret_status, cr3, ctx, esp, image, booted, creator, expect, rval>>
  BY DEF ExecAlloc, rqVars, pcbVars, ghosts
<1>6. LinksInv' /\ BootInv'
  BY <1>3, <1>5 DEF Body, LinksInv, BootInv
<1>7. CurrentInv'
  BY <1>3, <1>4, <1>5 DEF Body, CurrentInv, Atomic
<1>8. TaskInv'
  BY <1>3, <1>4, <1>5 DEF Body, TaskInv, Working, Waiting, InExec
<1>9. TreeInv' /\ StatusInv'
  <2>1. \A p \in Pids : SameKin(p)
    BY <1>3, <1>4 DEF SameKin, Working, Waiting, InExec
  <2> QED
    BY <1>5, <2>1, TreeFrame
<1>10. PidInv'
  <2>1. \A d \in Pids \ {c} : pc[d] \in InExec => local[d] # q
    BY <1>1, <1>2 DEF Body, PidInv, OwnPid, InExec
  <2>2. ASSUME NEW p \in Pids, p = c PROVE OwnPid(p)'
    BY <1>1, <1>2, <1>3, <1>4, <1>5, <2>1, <2>2 DEF OwnPid, InExec
  <2>3. ASSUME NEW p \in Pids, p # c PROVE OwnPid(p)'
    <3>1. OwnPid(p)
      BY DEF Body, PidInv
    <3>2. ASSUME pc[p] \in InExec PROVE pc'[local[p]] = "none"
      BY <1>3, <1>4, <3>1, <3>2, ZenonT(60) DEF OwnPid
    <3>3. ASSUME pc[p] \in InExec, NEW d \in Pids \ {p}, pc'[d] \in InExec
          PROVE  local'[d] # local[p]
      BY <1>4, <2>1, <2>3, <3>1, <3>3 DEF OwnPid
    <3> QED
      BY <1>4, <1>5, <2>3, <3>1, <3>2, <3>3, OwnPidFrame
  <2>4. \A p \in Pids : Building(p)' <=> Building(p)
    BY <1>3, <1>4 DEF Building
  <2>5. ASSUME NEW p \in Pids PROVE Marked(p)'
    BY <1>3, <1>4, <1>5, <2>4 DEF Body, PidInv, Marked, Working, InExec
  <2> QED
    BY <2>2, <2>3, <2>5 DEF PidInv
<1>11. SpaceInv'
  BY <1>2, <1>3, <1>4, <1>5 DEF Body, SpaceInv
<1> QED
  BY <1>6, <1>7, <1>8, <1>9, <1>10, <1>11 DEF Body

(* Activating the new page directory keeps the invariant.                  *)
LEMMA ExecPagingBody ==
    ASSUME TypeInv, Body, Sound, Sound', NEW c \in Pids, ExecPaging(c)
    PROVE  Body'
<1> USE Constants
<1>1. ctx = c /\ pc[c] = "alloc" /\ cr3' = local[c]
  BY DEF ExecPaging, At, On
<1>2. \A p \in Pids : pc'[p] = IF p = c THEN "load" ELSE pc[p]
  BY DEF ExecPaging, Goto, TypeInv, TypeOK, CpuTypeOK
<1>3. UNCHANGED <<next, prev, running, tail, curr_node, curr_process, pid_arr, parent, child,
                  ret_status, ctx, local, esp, image, booted, creator, expect, rval, hit>>
  BY DEF ExecPaging, rqVars, pcbVars, ghosts
<1>4. LinksInv' /\ BootInv'
  BY <1>1, <1>3 DEF Body, LinksInv, BootInv
<1>5. CurrentInv'
  BY <1>1, <1>2, <1>3 DEF Body, CurrentInv, Atomic
<1>6. TaskInv'
  BY <1>1, <1>2, <1>3 DEF Body, TaskInv, Working, Waiting, InExec
<1>7. \A p \in Pids : SameKin(p) /\ SamePid(p)
  BY <1>1, <1>2, <1>3 DEF SameKin, SamePid, Working, Waiting, InExec
<1>8. PidInv' /\ TreeInv' /\ StatusInv'
  BY <1>3, <1>7, TreeFrame, PidFrame
<1>9. SpaceInv'
  BY <1>1, <1>2, <1>3 DEF Body, SpaceInv
<1> QED
  BY <1>4, <1>5, <1>6, <1>8, <1>9 DEF Body

(* Loading the program and marking its pid keeps the invariant.            *)
LEMMA ExecLoadBody ==
    ASSUME TypeInv, Body, Sound, Sound', NEW c \in Pids, ExecLoad(c)
    PROVE  Body'
<1> USE Constants
<1> DEFINE q == local[c]
<1>1. ctx = c /\ pc[c] = "load"
  BY DEF ExecLoad, At, On
<1>2. /\ q \in Pids /\ pc[q] = "none" /\ q # c
      /\ \A d \in Pids \ {c} : pc[d] \in InExec => local[d] # q
  BY <1>1 DEF Body, PidInv, OwnPid, InExec
<1>3. \A p \in Pids : pc'[p] = IF p = c THEN "pcb" ELSE pc[p]
  <2>1. pc' = [pc EXCEPT ![c] = "pcb"]
    BY ZenonT(60) DEF ExecLoad, Goto
  <2>2. pc \in [Pids -> Points]
    BY ZenonT(60) DEF TypeInv, TypeOK, CpuTypeOK
  <2> QED
    BY ONLY <2>1, <2>2, c \in Pids, SMTT(60)
<1>3a. \A p \in Pids : /\ pid_arr'[p] = IF p = q THEN TRUE ELSE pid_arr[p]
                       /\ image'[p] = IF p = cr3 THEN q ELSE image[p]
  BY DEF ExecLoad, TypeInv, TypeOK, PcbTypeOK, CpuTypeOK, RestTypeOK
<1>4. UNCHANGED <<next, prev, running, tail, curr_node, curr_process, parent, child, ret_status,
                  cr3, ctx, local, esp, booted, creator, expect, rval, hit>>
  BY DEF ExecLoad, rqVars, ghosts
<1> HIDE DEF q
<1>5. LinksInv' /\ BootInv'
  BY <1>1, <1>4 DEF Body, LinksInv, BootInv
<1>6. CurrentInv'
  BY <1>1, <1>3, <1>4 DEF Body, CurrentInv, Atomic
<1>7. TaskInv'
  BY <1>1, <1>3, <1>4 DEF Body, TaskInv, Working, Waiting, InExec
<1>8. TreeInv' /\ StatusInv'
  <2>1. \A p \in Pids : SameKin(p)
    BY <1>1, <1>3, <1>4 DEF SameKin, Working, Waiting, InExec
  <2> QED
    BY <1>4, <2>1, TreeFrame
<1>9. PidInv'
  <2>1. ASSUME NEW p \in Pids, p = c PROVE OwnPid(p)'
    BY <1>2, <1>3, <1>3a, <1>4, <2>1, ZenonT(60) DEF OwnPid, InExec, q
  <2>2. ASSUME NEW p \in Pids, p # c PROVE OwnPid(p)'
    <3> SUFFICES ASSUME pc[p] \in InExec PROVE OwnPid(p)'
      BY <1>3, <2>2 DEF OwnPid
    <3>1. local[p] # q /\ local[p] \in Pids /\ pc[local[p]] = "none" /\ OwnPid(p)
      BY <1>2, <2>2 DEF Body, PidInv, OwnPid
    <3> QED
      BY <1>1, <1>2, <1>3, <1>3a, <1>4, <2>2, <3>1, ZenonT(60) DEF OwnPid, InExec, q
  <2>3. ASSUME NEW p \in Pids PROVE Building(p)' <=> Building(p) \/ p = q
    BY <1>1, <1>3, <1>4 DEF Building, q
  <2>4. ASSUME NEW p \in Pids PROVE Marked(p)'
    BY <1>1, <1>3, <1>3a, <1>4, <2>3, ZenonT(60) DEF Body, PidInv, Marked, Working, InExec
  <2> QED
    BY <2>1, <2>2, <2>4 DEF PidInv
<1>10. SpaceInv'
  <2> SUFFICES ASSUME hit = {} PROVE SpaceInv'
    BY <1>4 DEF SpaceInv
  <2>1. cr3 = q /\ next[q] = Null
    BY <1>1, <1>2, ZenonT(60) DEF Body, SpaceInv, TaskInv, q
  <2>2. \A p \in Pids : next'[p] # Null => image'[p] = p
    BY <1>3a, <1>4, <2>1, ZenonT(60) DEF Body, SpaceInv
  <2>3. ASSUME NEW d \in Pids, pc'[d] \in {"pcb", "current"}
        PROVE  image'[local[d]] = local[d]
    <3>1. CASE d = c
      BY <1>2, <1>3a, <2>1, <3>1, ZenonT(60) DEF q
    <3>2. CASE d # c
      <4>1. pc[d] \in {"pcb", "current"} /\ pc[d] \in InExec
        BY <1>3, <2>3, <3>2 DEF InExec
      <4>2. local[d] \in Pids /\ local[d] # q /\ image[local[d]] = local[d]
        BY <1>2, <3>2, <4>1 DEF Body, PidInv, OwnPid, SpaceInv
      <4> QED
        BY <1>3a, <2>1, <4>2, ZenonT(60)
    <3> QED
      BY <3>1, <3>2
  <2> QED
    BY <1>1, <1>3, <1>4, <2>2, <2>3 DEF Body, SpaceInv
<1> QED
  BY <1>5, <1>6, <1>7, <1>8, <1>9, <1>10 DEF Body

(* A load that fails keeps the invariant.                                  *)
LEMMA ExecLoadFailsBody ==
    ASSUME TypeInv, Body, Sound, Sound', NEW c \in Pids, ExecLoadFails(c)
    PROVE  Body'
<1> USE Constants
<1>1. ctx = c /\ pc[c] = "load" /\ hit' # {}
  BY DEF ExecLoadFails, At, On
<1>2. \A p \in Pids : /\ pc'[p] = IF p = c THEN "user" ELSE pc[p]
                      /\ local'[p] = IF p = c THEN Null ELSE local[p]
  <2>1. pc' = [pc EXCEPT ![c] = "user"] /\ local' = [local EXCEPT ![c] = Null]
    BY ZenonT(60) DEF ExecLoadFails, Goto
  <2>2. pc \in [Pids -> Points] /\ local \in [Pids -> Pids \cup {Null}]
    BY ZenonT(60) DEF TypeInv, TypeOK, CpuTypeOK
  <2> QED
    BY ONLY <2>1, <2>2, c \in Pids, SMTT(60)
<1>3. UNCHANGED <<next, prev, running, tail, curr_node, curr_process, pid_arr, parent, child,
                  ret_status, cr3, ctx, esp, booted, creator, expect, rval>>
  BY DEF ExecLoadFails, rqVars, pcbVars, ghosts
<1>4. LinksInv' /\ BootInv'
  BY <1>1, <1>3 DEF Body, LinksInv, BootInv
<1>5. CurrentInv'
  BY <1>1, <1>2, <1>3 DEF Body, CurrentInv, Atomic
<1>6. TaskInv'
  BY <1>1, <1>2, <1>3 DEF Body, TaskInv, Working, Waiting, InExec
<1>7. TreeInv' /\ StatusInv'
  <2>1. \A p \in Pids : SameKin(p)
    BY <1>1, <1>2, <1>3 DEF SameKin, Working, Waiting, InExec
  <2> QED
    BY <1>3, <2>1, TreeFrame
<1>8. PidInv'
  <2>1. ASSUME NEW p \in Pids PROVE OwnPid(p)'
    <3>1. OwnPid(p)
      BY DEF Body, PidInv
    <3>2. CASE p = c
      BY <1>2, <3>2 DEF OwnPid, InExec
    <3>3. CASE p # c
      <4>1. ASSUME pc[p] \in InExec PROVE pc'[local[p]] = "none"
        BY <1>1, <1>2, <3>1, <4>1, ZenonT(60) DEF OwnPid
      <4>2. ASSUME pc[p] \in InExec, NEW d \in Pids \ {p}, pc'[d] \in InExec
            PROVE  local'[d] # local[p]
        BY <1>2, <3>1, <4>2 DEF OwnPid, InExec
      <4> QED
        BY <1>2, <1>3, <3>1, <3>3, <4>1, <4>2, OwnPidFrame
    <3> QED
      BY <3>2, <3>3
  <2>2. \A p \in Pids : Building(p)' <=> Building(p)
    BY <1>1, <1>2 DEF Building
  <2>3. ASSUME NEW p \in Pids PROVE Marked(p)'
    BY <1>1, <1>2, <1>3, <2>2 DEF Body, PidInv, Marked, Working, InExec
  <2> QED
    BY <2>1, <2>3 DEF PidInv
<1>9. SpaceInv'
  BY <1>1 DEF SpaceInv
<1> QED
  BY <1>4, <1>5, <1>6, <1>7, <1>8, <1>9 DEF Body
=============================================================================
