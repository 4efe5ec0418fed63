--------------------------- MODULE ProcessSafety ----------------------------
(***************************************************************************)
(* Body survives the rest of kexecute and halting.  IInv is then an        *)
(* invariant of Process, and with it the properties that follow from it    *)
(* hold; the last theorem adds that the run queue stays a ring, so that    *)
(* the kernel never follows a null or dangling link.                       *)
(***************************************************************************)
EXTENDS ProcessProofs, RunQueueRing

(* A leaf that names no prover is the SMT solver's.                        *)
USE SMTT(60)

-----------------------------------------------------------------------------
(* kexecute, from the built PCB on.                                        *)

(* Building the PCB and making it current keeps the invariant.             *)
LEMMA ExecPcbBody ==
    ASSUME TypeInv, Body, Sound, Sound', NEW c \in Pids, ExecPcb(c)
    PROVE  Body'
<1> USE Constants
<1> DEFINE q == local[c]
<1>1. ctx = c /\ pc[c] = "pcb" /\ curr_process = c
  BY Zenon DEF ExecPcb, At, On, Body, CurrentInv
<1>2. q \in Pids /\ pc[q] = "none" /\ q # c /\ q \notin Shells
  BY <1>1, ZenonT(60) DEF Body, PidInv, OwnPid, InExec, TaskInv
<1>3. \A p \in Pids : pc'[p] = IF p = c THEN "current" ELSE pc[p]
  <2>1. pc' = [pc EXCEPT ![c] = "current"]
    BY ZenonT(60) DEF ExecPcb, Goto
  <2>2. pc \in [Pids -> Points]
    BY ZenonT(60) DEF TypeInv, TypeOK, CpuTypeOK
  <2> QED
    BY ONLY <2>1, <2>2, c \in Pids, SMTT(60)
<1>4. \A p \in Pids : /\ parent'[p] = IF p = q THEN c ELSE parent[p]
                      /\ creator'[p] = IF p = q THEN c ELSE creator[p]
                      /\ child'[p] = IF p = c THEN q ELSE IF p = q THEN Null ELSE child[p]
  <2>1. /\ parent' = [parent EXCEPT ![q] = c]
        /\ creator' = [creator EXCEPT ![q] = c]
        /\ child' = [child EXCEPT ![q] = Null, ![c] = q]
    BY <1>1, ZenonT(60) DEF ExecPcb
  <2>2. /\ parent \in [Pids -> Pids \cup {Null}]
        /\ creator \in [Pids -> Pids \cup {Null}]
        /\ child \in [Pids -> Pids \cup {Null}]
    BY ZenonT(60) DEF TypeInv, TypeOK, PcbTypeOK, RestTypeOK
  <2> HIDE DEF q
  <2> QED
    BY ONLY <2>1, <2>2, <1>2, c \in Pids, SMTT(60)
<1>5. curr_process' = q
  BY Zenon DEF ExecPcb
<1>6. UNCHANGED <<next, prev, running, tail, curr_node, pid_arr, ret_status, cr3, ctx, local, esp,
                  image, booted, expect, rval, hit>>
  BY Zenon DEF ExecPcb, rqVars
<1>7. LinksInv' /\ BootInv'
  BY <1>1, <1>6, Zenon DEF Body, LinksInv, BootInv
<1>8. CurrentInv'
  BY <1>1, <1>3, <1>5, <1>6, Zenon DEF Body, CurrentInv, Atomic
<1> HIDE DEF q
<1>9. TaskInv'
  BY <1>1, <1>3, <1>6 DEF Body, TaskInv, Working, Waiting, InExec
<1>10. PidInv'
  <2>1. \A p \in Pids : SamePid(p)
    BY <1>1, <1>3, <1>6, Zenon DEF SamePid, Working, Waiting, InExec
  <2> QED
    BY <1>6, <2>1, PidFrame, Zenon
<1>11. \A p \in Pids : /\ pc'[p] \in Working <=> pc[p] \in Working
                       /\ pc'[p] \in Waiting <=> pc[p] \in Waiting
                       /\ pc'[p] \in Working \cup Waiting <=> pc[p] \in Working \cup Waiting
                       /\ pc[p] \in Waiting => p # c /\ p # q
                       /\ pc[p] \in Working \cup Waiting => p # q
  BY <1>1, <1>2, <1>3, Zenon DEF Working, Waiting, InExec
<1>12. TreeInv'
  <2>1. ASSUME NEW p \in Pids PROVE ParentWaits(p)'
    <3> SUFFICES ASSUME p \notin Shells, pc[p] \in Working \cup Waiting PROVE ParentWaits(p)'
      BY <1>11, ZenonT(60) DEF ParentWaits
    <3>1. /\ parent[p] \in Pids /\ creator[p] = parent[p]
          /\ pc[parent[p]] \in Waiting /\ running[parent[p]] = "INACTIVE" /\ child[parent[p]] = p
      BY Zenon DEF Body, TreeInv, ParentWaits
    <3>2. parent'[p] = parent[p] /\ creator'[p] = creator[p] /\ child'[parent[p]] = child[parent[p]]
      BY <1>4, <1>11, <3>1, ZenonT(60)
    <3> QED
      BY <1>6, <1>11, <3>1, <3>2, ZenonT(60) DEF ParentWaits
  <2>2. ASSUME NEW p \in Pids PROVE ChildLives(p)'
    BY <1>4, <1>6, <1>11, ZenonT(60) DEF Body, TreeInv, ChildLives
  <2>3. ASSUME NEW p \in Pids PROVE Kin(p)'
    <3>1. Kin(p)
      BY Zenon DEF Body, TreeInv
    <3>2. pc[p] = "current" => p = c
      BY <1>1, Zenon DEF Body, CurrentInv, Atomic
    <3>3. CASE p = c
      BY <1>1, <1>2, <1>3, <1>4, <1>6, <3>1, <3>3, ZenonT(60) DEF Kin, q
    <3>4. CASE p # c
      BY <1>2, <1>3, <1>4, <1>6, <3>1, <3>2, <3>4, Zenon DEF Kin
    <3> QED
      BY <3>3, <3>4, Zenon
  <2> QED
    BY <2>1, <2>2, <2>3, Zenon DEF TreeInv
<1>13. StatusInv'
  <2>1. StatusInv
    BY Zenon DEF Body
  <2> QED
    BY <1>6, <1>11, <2>1, ZenonT(60) DEF StatusInv
<1>14. SpaceInv'
  BY <1>1, <1>3, <1>6, Zenon DEF Body, SpaceInv
<1> QED
  BY <1>7, <1>8, <1>9, <1>10, <1>12, <1>13, <1>14, Zenon DEF Body

-----------------------------------------------------------------------------
(* A process is queued, and its parent waits for it until it halts.        *)

(* Queueing the new process and parking its parent keeps the invariant.    *)
LEMMA ExecScheduleBody ==
    ASSUME TypeInv, Body, Sound, Sound', NEW c \in Pids, ExecSchedule(c)
    PROVE  Body'
<1> USE Constants
<1> DEFINE q == local[c]
<1>1. ctx = c /\ pc[c] = "current" /\ curr_process = q /\ parent[q] = c /\ creator[q] = c /\ child[c] = q
  BY Zenon DEF ExecSchedule, At, On, Body, CurrentInv, TreeInv, Kin, Atomic
<1>2. /\ q \in Pids /\ pc[q] = "none" /\ q # c /\ q \notin Shells /\ next[q] = Null /\ pid_arr[q]
      /\ \A d \in Pids \ {c} : pc[d] \in InExec => local[d] # q
  <2>1. OwnPid(c) /\ pc[c] \in InExec
    BY <1>1, Zenon DEF Body, PidInv, InExec
  <2>2. /\ q \in Pids /\ pc[q] = "none"
        /\ \A d \in Pids \ {c} : pc[d] \in InExec => local[d] # q
    BY <2>1, Zenon DEF OwnPid
  <2>3. pid_arr[q]
    BY <1>1, <2>1, Zenon DEF OwnPid
  <2>4. q # c /\ q \notin Shells /\ next[q] = Null
    BY <1>1, <2>2, ZenonT(60) DEF Body, TaskInv
  <2> QED
    BY <2>2, <2>3, <2>4, Zenon
<1>3. \A p \in Pids : /\ pc'[p] = IF p = c THEN "sched" ELSE IF p = q THEN "user" ELSE pc[p]
                      /\ local'[p] = IF p = c THEN Null ELSE local[p]
  <2>1. /\ pc' = [pc EXCEPT ![q] = "user", ![c] = "sched"]
        /\ local' = [local EXCEPT ![c] = Null]
    BY <1>1, Zenon DEF ExecSchedule
  <2>2. pc \in [Pids -> Points] /\ local \in [Pids -> Pids \cup {Null}]
    BY ZenonT(60) DEF TypeInv, TypeOK, CpuTypeOK
  <2> HIDE DEF q
  <2> QED
    BY ONLY <1>2, <2>1, <2>2, c \in Pids, SMTT(60)
<1>4. \A p \in Pids : /\ expect'[p] = IF p = q THEN 0 ELSE expect[p]
                      /\ rval'[p] = IF p = q THEN 0 ELSE rval[p]
  <2>1. expect' = [expect EXCEPT ![q] = 0] /\ rval' = [rval EXCEPT ![q] = 0]
    BY <1>1, Zenon DEF ExecSchedule
  <2>2. expect \in [Pids -> 0 .. 256] /\ rval \in [Pids -> 0 .. 255]
    BY ZenonT(60) DEF TypeInv, TypeOK, RestTypeOK
  <2> HIDE DEF q
  <2> QED
    BY ONLY <1>2, <2>1, <2>2, SMTT(60)
<1>5. Schedule(q, c) /\ cr3' = c
  BY <1>1, Zenon DEF ExecSchedule
<1>6. /\ \A n \in Nodes : running'[n] = IF n = c THEN "INACTIVE" ELSE IF n = q THEN "RUNNING"
                                        ELSE running[n]
      /\ curr_node' = curr_node
  BY <1>5, Zenon DEF Schedule
<1>7. LinksInv' /\ \A n \in Nodes : next'[n] = Null <=> next[n] = Null /\ n # q
  BY <1>2, <1>5, ScheduleLinks, ZenonT(60) DEF Body, TypeInv, TypeOK
<1>8. esp' = [p \in Pids |-> p]
  BY <1>1, <1>2, Zenon DEF ExecSchedule, Body, CurrentInv
<1>9. UNCHANGED <<curr_process, pid_arr, parent, child, ret_status, ctx, image, booted, creator, hit>>
  BY Zenon DEF ExecSchedule, pcbVars
<1> HIDE DEF q
<1>10. BootInv'
  BY <1>1, <1>9, Zenon DEF Body, BootInv
<1>11. \A p \in Pids : pc'[p] \notin Atomic
  BY <1>1, <1>3, Zenon DEF Body, CurrentInv, Atomic
<1>12. CurrentInv'
  BY <1>1, <1>3, <1>6, <1>8, <1>9, <1>11, Zenon DEF Body, CurrentInv
<1>13. TaskInv'
  <2>1. running'[Sentinel] = "SENTINEL"
    BY <1>2, <1>6 DEF Body, TaskInv
  <2>2. ASSUME NEW p \in Pids PROVE next'[p] = Null <=> pc'[p] \in {"none", "halt_pit"}
    BY <1>1, <1>2, <1>3, <1>7 DEF Body, TaskInv
  <2>3. ASSUME NEW p \in Pids
        PROVE  /\ pc'[p] \in Working => running'[p] = "RUNNING"
               /\ pc'[p] \in Waiting => running'[p] \in {"RUNNING", "INACTIVE"}
               /\ pc'[p] \in {"unsched", "halt_pit"} => running'[p] = "FINISHED"
               /\ pc'[p] = "none" => running'[p] # "RUNNING"
    BY <1>2, <1>3, <1>6 DEF Body, TaskInv, Working, Waiting, InExec
  <2>4. ASSUME NEW p \in Pids
        PROVE  p \in Shells => pc'[p] \notin {"halt", "unsched", "halt_pit"}
    BY <1>3, Zenon DEF Body, TaskInv
  <2>5. \A s \in Shells : next'[s] # Null
    BY <1>1, <1>2, <1>7 DEF Body, TaskInv
  <2> QED
    BY <1>11, <2>1, <2>2, <2>3, <2>4, <2>5, Zenon DEF TaskInv, Atomic
<1>14. PidInv'
  <2>1. ASSUME NEW p \in Pids, p \in {c, q} PROVE OwnPid(p)'
    BY <1>3, <2>1, Zenon DEF OwnPid, InExec
  <2>2. ASSUME NEW p \in Pids, p # c, p # q PROVE OwnPid(p)'
    <3>1. OwnPid(p)
      BY Zenon DEF Body, PidInv
    <3>2. ASSUME pc[p] \in InExec PROVE pc'[local[p]] = "none"
      BY <1>1, <1>2, <1>3, <2>2, <3>1, <3>2, ZenonT(60) DEF OwnPid
    <3>3. ASSUME pc[p] \in InExec, NEW d \in Pids \ {p}, pc'[d] \in InExec
          PROVE  local'[d] # local[p]
      BY <1>3, <3>1, <3>3, Zenon DEF OwnPid, InExec
    <3> QED
      BY <1>3, <1>9, <2>2, <3>1, <3>2, <3>3, OwnPidFrame, Zenon
  <2>3. ASSUME NEW p \in Pids PROVE Building(p)' <=> Building(p) /\ p # q
    <3>1. \A d \in Pids : pc'[d] \in {"pcb", "current"} <=> pc[d] \in {"pcb", "current"} /\ d # c
      BY <1>2, <1>3, Zenon
    <3>2. \A d \in Pids : d # c /\ pc[d] \in {"pcb", "current"} => local'[d] = local[d] /\ local[d] # q
      BY <1>2, <1>3, Zenon DEF InExec
    <3> QED
      BY <3>1, <3>2, Zenon DEF Building, q
  <2>4. ASSUME NEW p \in Pids PROVE Marked(p)'
    BY <1>1, <1>2, <1>3, <1>9, <2>3 DEF Body, PidInv, Marked, Working, Waiting, InExec
  <2> QED
    BY <2>1, <2>2, <2>4, Zenon DEF PidInv
<1>15. \A p \in Pids : /\ pc'[p] \in Working \cup Waiting <=> pc[p] \in Working \cup Waiting \/ p = q
                       /\ pc'[p] \in Waiting <=> pc[p] \in Waiting \/ p = c
                       /\ pc[p] \in Waiting => p # c /\ p # q
                       /\ pc[p] \in Working \cup Waiting => p # q
                       /\ pc'[p] \in Working => pc[p] \in Working \/ p = q
  BY <1>1, <1>2, <1>3, Zenon DEF Working, Waiting, InExec
<1>16. TreeInv'
  <2>1. ASSUME NEW p \in Pids PROVE ParentWaits(p)'
    <3>1. CASE p = q
      BY <1>1, <1>2, <1>6, <1>9, <1>15, <3>1, Zenon DEF ParentWaits
    <3>2. CASE p # q
      BY <1>6, <1>9, <1>15, <3>2, ZenonT(60) DEF Body, TreeInv, ParentWaits
    <3> QED
      BY <3>1, <3>2, Zenon
  <2>2. ASSUME NEW p \in Pids PROVE ChildLives(p)'
    <3>1. CASE p = c
      BY <1>1, <1>2, <1>9, <1>15, <3>1, Zenon DEF ChildLives
    <3>2. CASE p # c
      BY <1>6, <1>9, <1>15, <3>2, ZenonT(60) DEF Body, TreeInv, ChildLives
    <3> QED
      BY <3>1, <3>2, Zenon
  <2>3. ASSUME NEW p \in Pids PROVE Kin(p)'
    BY <1>3, <1>9, <1>11, Zenon DEF Body, TreeInv, Kin, Atomic
  <2> QED
    BY <2>1, <2>2, <2>3, Zenon DEF TreeInv
<1>17. StatusInv'
  <2>1. ASSUME NEW p \in Pids, p = q
        PROVE  pc'[p] \in Working /\ pc'[p] \notin Waiting /\ rval'[p] = expect'[p] % 256
    BY <1>2, <1>3, <1>4, <2>1 DEF Working, Waiting
  <2>2. ASSUME NEW p \in Pids, p # q
        PROVE  /\ pc'[p] \in Working => rval'[p] = expect'[p] % 256
               /\ pc'[p] \in Waiting /\ running'[p] = "RUNNING" => ret_status'[p] = expect'[p] % 256
    BY <1>4, <1>6, <1>9, <1>15, <2>2 DEF Body, StatusInv
  <2> QED
    BY <2>1, <2>2 DEF StatusInv
<1>18. SpaceInv'
  <2> SUFFICES ASSUME hit = {} PROVE SpaceInv'
    BY <1>9, Zenon DEF SpaceInv
  <2>1. image[q] = q
    BY <1>1, Zenon DEF Body, SpaceInv, q
  <2>2. \A p \in Pids : next'[p] # Null => image'[p] = p
    BY <1>7, <1>9, <2>1, Zenon DEF Body, SpaceInv
  <2>3. \A d \in Pids : pc'[d] \in {"pcb", "current"} => image'[local'[d]] = local'[d]
    BY <1>2, <1>3, <1>9, Zenon DEF Body, SpaceInv
  <2> QED
    BY <1>1, <1>2, <1>3, <1>5, <1>9, <2>2, <2>3 DEF Body, SpaceInv
<1> QED
  BY <1>7, <1>10, <1>12, <1>13, <1>14, <1>16, <1>17, <1>18, Zenon DEF Body

(* The return of a kexecute keeps the invariant.                           *)
LEMMA ExecReturnBody ==
    ASSUME TypeInv, Body, Sound, Sound', NEW c \in Pids, ExecReturn(c)
    PROVE  Body'
<1> USE Constants
<1>1. ctx = c /\ pc[c] = "return" /\ curr_process = c /\ running[c] = "RUNNING"
  BY Zenon DEF ExecReturn, At, On, Body, CurrentInv
<1>2. \A p \in Pids : pc'[p] = IF p = c THEN "user" ELSE pc[p]
  <2>1. pc' = [pc EXCEPT ![c] = "user"]
    BY ZenonT(60) DEF ExecReturn, Goto
  <2>2. pc \in [Pids -> Points]
    BY ZenonT(60) DEF TypeInv, TypeOK, CpuTypeOK
  <2> QED
    BY ONLY <2>1, <2>2, c \in Pids, SMTT(60)
<1>3. \A p \in Pids : rval'[p] = IF p = c THEN ret_status[c] ELSE rval[p]
  BY <1>1 DEF ExecReturn, TypeInv, TypeOK, PcbTypeOK, RestTypeOK
<1>4. UNCHANGED <<next, prev, running, tail, curr_node, curr_process, pid_arr, parent, child,
                  ret_status, cr3, ctx, local, esp, image, booted, creator, expect, hit>>
  BY Zenon DEF ExecReturn, rqVars, pcbVars
<1>5. LinksInv' /\ BootInv'
  BY <1>1, <1>4, Zenon DEF Body, LinksInv, BootInv
<1>6. CurrentInv'
  BY <1>1, <1>2, <1>4, Zenon DEF Body, CurrentInv, Atomic
<1>7. TaskInv'
  BY <1>1, <1>2, <1>4 DEF Body, TaskInv, Working, Waiting, InExec
<1>8. PidInv'
  <2>1. \A p \in Pids : SamePid(p)
    BY <1>1, <1>2, <1>4, Zenon DEF SamePid, Working, Waiting, InExec
  <2> QED
    BY <1>4, <2>1, PidFrame, Zenon
<1>9. \A p \in Pids : /\ pc'[p] \in Working \cup Waiting <=> pc[p] \in Working \cup Waiting
                      /\ pc'[p] \in Waiting <=> pc[p] \in Waiting /\ p # c
                      /\ pc'[p] \in Working <=> pc[p] \in Working \/ p = c
  BY <1>1, <1>2, Zenon DEF Working, Waiting, InExec
<1>10. TreeInv'
  <2>1. ASSUME NEW p \in Pids PROVE ParentWaits(p)'
    BY <1>1, <1>4, <1>9, ZenonT(60) DEF Body, TreeInv, ParentWaits
  <2>2. ASSUME NEW p \in Pids PROVE ChildLives(p)'
    BY <1>4, <1>9, ZenonT(60) DEF Body, TreeInv, ChildLives
  <2>3. ASSUME NEW p \in Pids PROVE Kin(p)'
    BY <1>2, <1>4, Zenon DEF Body, TreeInv, Kin
  <2> QED
    BY <2>1, <2>2, <2>3, Zenon DEF TreeInv
<1>11. StatusInv'
  <2>1. ret_status[c] = expect[c] % 256
    BY <1>1, ZenonT(60) DEF Body, StatusInv, Waiting
  <2> QED
    BY <1>3, <1>4, <1>9, <2>1 DEF Body, StatusInv
<1>12. SpaceInv'
  BY <1>1, <1>2, <1>4, Zenon DEF Body, SpaceInv
<1> QED
  BY <1>5, <1>6, <1>7, <1>8, <1>10, <1>11, <1>12, Zenon DEF Body

-----------------------------------------------------------------------------
(* Releasing the pid keeps the invariant.                                  *)
LEMMA HaltReleaseBody ==
    ASSUME TypeInv, Body, Sound, Sound', NEW c \in Pids, HaltRelease(c)
    PROVE  Body'
<1> USE Constants
<1>1. ctx = c /\ pc[c] = "user" /\ curr_process = c
  BY Zenon DEF HaltRelease, At, On, Body, CurrentInv
<1>2. c \notin Shells
  BY <1>1 DEF HaltRelease, Pids
<1>3. \A p \in Pids : /\ pc'[p] = IF p = c THEN "halt" ELSE pc[p]
                      /\ local'[p] = IF p = c THEN parent[c] ELSE local[p]
  <2>1. pc' = [pc EXCEPT ![c] = "halt"] /\ local' = [local EXCEPT ![c] = parent[c]]
    BY <1>1, ZenonT(60) DEF HaltRelease, Goto
  <2>2. pc \in [Pids -> Points] /\ local \in [Pids -> Pids \cup {Null}]
    BY ZenonT(60) DEF TypeInv, TypeOK, CpuTypeOK
  <2> QED
    BY ONLY <2>1, <2>2, c \in Pids, SMTT(60)
<1>4. \A p \in Pids : pid_arr'[p] = IF p = c THEN FALSE ELSE pid_arr[p]
  BY <1>1, Zenon DEF HaltRelease, TypeInv, TypeOK, PcbTypeOK
<1>5. UNCHANGED <<next, prev, running, tail, curr_node, curr_process, parent, child, ret_status,
                  cr3, ctx, esp, image, booted, creator, expect, rval, hit>>
  BY Zenon DEF HaltRelease, rqVars, ghosts
<1>6. LinksInv' /\ BootInv'
  BY <1>1, <1>5, Zenon DEF Body, LinksInv, BootInv
<1>7. CurrentInv'
  BY <1>1, <1>3, <1>5, Zenon DEF Body, CurrentInv, Atomic
<1>8. TaskInv'
  BY <1>1, <1>2, <1>3, <1>5 DEF Body, TaskInv, Working, Waiting, InExec
<1>9. PidInv'
  <2>1. \A d \in Pids : pc[d] \in InExec => local[d] # c
    BY <1>1, Zenon DEF Body, PidInv, OwnPid
  <2>2. ASSUME NEW p \in Pids PROVE OwnPid(p)'
    <3>1. OwnPid(p)
      BY Zenon DEF Body, PidInv
    <3>2. CASE p = c
      BY <1>3, <3>2, Zenon DEF OwnPid, InExec
    <3>3. CASE p # c
      <4>1. ASSUME pc[p] \in InExec
            PROVE  pc'[local[p]] = "none" /\ (pid_arr'[local[p]] <=> pid_arr[local[p]])
        BY <1>3, <1>4, <2>1, <3>1, <4>1, ZenonT(60) DEF OwnPid
      <4>2. ASSUME pc[p] \in InExec, NEW d \in Pids \ {p}, pc'[d] \in InExec
            PROVE  local'[d] # local[p]
        BY <1>3, <3>1, <4>2, Zenon DEF OwnPid, InExec
      <4> QED
        BY <1>3, <3>1, <3>3, <4>1, <4>2, OwnPidFrame, Zenon
    <3> QED
      BY <3>2, <3>3, Zenon
  <2>3. ASSUME NEW p \in Pids PROVE Building(p)' <=> Building(p)
    BY <1>1, <1>3, Zenon DEF Building
  <2>4. ~Building(c)
    BY <2>1, Zenon DEF Building, InExec
  <2>5. ASSUME NEW p \in Pids PROVE Marked(p)'
    BY <1>1, <1>3, <1>4, <2>3, <2>4, ZenonT(60) DEF Body, PidInv, Marked, Working, Waiting, InExec
  <2> QED
    BY <2>2, <2>5, Zenon DEF PidInv
<1>10. \A p \in Pids : /\ pc'[p] \in Working <=> pc[p] \in Working
                       /\ pc'[p] \in Waiting <=> pc[p] \in Waiting
                       /\ pc'[p] \in Working \cup Waiting <=> pc[p] \in Working \cup Waiting
  BY <1>1, <1>3, Zenon DEF Working, Waiting, InExec
<1>11. TreeInv'
  <2>1. ASSUME NEW p \in Pids PROVE ParentWaits(p)'
    BY <1>5, <1>10, ZenonT(60) DEF Body, TreeInv, ParentWaits
  <2>2. ASSUME NEW p \in Pids PROVE ChildLives(p)'
    BY <1>5, <1>10, ZenonT(60) DEF Body, TreeInv, ChildLives
  <2>3. ASSUME NEW p \in Pids PROVE Kin(p)'
    BY <1>3, <1>5, ZenonT(60) DEF Body, TreeInv, Kin
  <2> QED
    BY <2>1, <2>2, <2>3, Zenon DEF TreeInv
<1>12. StatusInv'
  BY <1>5, <1>10, ZenonT(60) DEF Body, StatusInv
<1>13. SpaceInv'
  BY <1>1, <1>3, <1>5, Zenon DEF Body, SpaceInv
<1> QED
  BY <1>6, <1>7, <1>8, <1>9, <1>11, <1>12, <1>13, Zenon DEF Body

(* Leaving the tree and waking the parent keeps the invariant.             *)
LEMMA HaltDetachBody ==
    ASSUME TypeInv, Body, Sound, Sound', NEW c \in Pids, NEW s \in Statuses,
           HaltDetach(c, s)
    PROVE  Body'
<1> USE Constants
<1> DEFINE r == parent[c]
<1>1. ctx = c /\ pc[c] = "halt" /\ curr_process = c /\ local[c] = r /\ local[c] # Null
  <2>1. ctx = c /\ pc[c] = "halt" /\ local[c] # Null
    BY ZenonT(60) DEF HaltDetach, Detach, At, On
  <2>2. CurrentInv /\ Kin(c)
    BY ZenonT(60) DEF Body, TreeInv
  <2> QED
    BY <2>1, <2>2, Zenon DEF CurrentInv, Kin
<1>2. c \notin Shells /\ c >= NumShells
  BY <1>1 DEF Body, TaskInv, Pids
<1>3. /\ r \in Pids /\ creator[c] = r /\ pc[r] \in Waiting /\ running[r] = "INACTIVE"
      /\ child[r] = c /\ r # c
  BY <1>1, <1>2, Zenon DEF Body, TreeInv, ParentWaits, Working, Waiting
<1>4. \A p \in Pids : /\ pc'[p] = IF p = c THEN "unsched" ELSE pc[p]
                      /\ local'[p] = IF p = c THEN Null ELSE local[p]
  <2>1. pc' = [pc EXCEPT ![c] = "unsched"] /\ local' = [local EXCEPT ![c] = Null]
    BY Zenon DEF HaltDetach, Detach, Goto
  <2>2. pc \in [Pids -> Points] /\ local \in [Pids -> Pids \cup {Null}]
    BY Zenon DEF TypeInv, TypeOK, CpuTypeOK
  <2> QED
    BY ONLY <2>1, <2>2, c \in Pids, SMTT(60)
<1>5. \A p \in Pids : /\ parent'[p] = IF p = c THEN Null ELSE parent[p]
                      /\ child'[p] = IF p = r THEN Null ELSE child[p]
  <2>1. parent' = [parent EXCEPT ![c] = Null] /\ child' = [child EXCEPT ![r] = Null]
    BY <1>1, <1>3, Zenon DEF HaltDetach, Detach
  <2>2. parent \in [Pids -> Pids \cup {Null}] /\ child \in [Pids -> Pids \cup {Null}] /\ r \in Pids
    BY <1>3, Zenon DEF TypeInv, TypeOK, PcbTypeOK
  <2> HIDE DEF r
  <2> QED
    BY ONLY <2>1, <2>2, c \in Pids, SMTT(60)
<1>6. \A p \in Pids : /\ p # c => ret_status'[p] = IF p = r THEN Stored(s) ELSE ret_status[p]
                      /\ expect'[p] = IF p = r THEN ReturnValue(s) ELSE expect[p]
  <2>1. /\ ret_status' = [ret_status EXCEPT ![c] = s, ![r] = Stored(s)]
        /\ expect' = [p \in Pids |-> IF p = r THEN ReturnValue(s) ELSE expect[p]]
    BY <1>1, <1>3, Zenon DEF HaltDetach, Detach
  <2>2. ret_status \in [Pids -> 0 .. 255] /\ r \in Pids
    BY <1>3, Zenon DEF TypeInv, TypeOK, PcbTypeOK
  <2> HIDE DEF r
  <2> QED
    BY ONLY <2>1, <2>2, c \in Pids, SMTT(60)
<1>7. /\ \A n \in Nodes : running'[n] = IF n = r THEN "RUNNING" ELSE IF n = c THEN "FINISHED"
                                        ELSE running[n]
      /\ UNCHANGED <<next, prev, tail, curr_node>>
  BY <1>1, <1>2, Zenon DEF HaltDetach, Detach, Unschedule
<1>8. UNCHANGED <<curr_process, pid_arr, cr3, ctx, esp, image, booted, creator, rval, hit>>
  BY Zenon DEF HaltDetach, Detach
<1> HIDE DEF r
<1>9. LinksInv' /\ BootInv'
  BY <1>1, <1>7, <1>8, Zenon DEF Body, LinksInv, BootInv
<1>10. \A p \in Pids : pc'[p] \notin Atomic
  BY <1>1, <1>4, Zenon DEF Body, CurrentInv, Atomic
<1>11. CurrentInv'
  BY <1>1, <1>4, <1>7, <1>8, <1>10, Zenon DEF Body, CurrentInv
<1>12. TaskInv'
  <2>1. running'[Sentinel] = "SENTINEL"
    BY <1>3, <1>7 DEF Body, TaskInv
  <2>2. ASSUME NEW p \in Pids
        PROVE  /\ next'[p] = Null <=> pc'[p] \in {"none", "halt_pit"}
               /\ p \in Shells => pc'[p] \notin {"halt", "unsched", "halt_pit"}
    BY <1>1, <1>2, <1>4, <1>7 DEF Body, TaskInv
  <2>3. ASSUME NEW p \in Pids
        PROVE  /\ pc'[p] \in Working => running'[p] = "RUNNING"
               /\ pc'[p] \in Waiting => running'[p] \in {"RUNNING", "INACTIVE"}
               /\ pc'[p] \in {"unsched", "halt_pit"} => running'[p] = "FINISHED"
               /\ pc'[p] = "none" => running'[p] # "RUNNING"
    BY <1>3, <1>4, <1>7 DEF Body, TaskInv, Working, Waiting, InExec
  <2>4. \A x \in Shells : next'[x] # Null
    BY <1>1, <1>7, Zenon DEF Body, TaskInv
  <2> QED
    BY <1>10, <2>1, <2>2, <2>3, <2>4, Zenon DEF TaskInv, Atomic
<1>13. PidInv'
  <2>1. \A p \in Pids : SamePid(p)
    BY <1>1, <1>4, Zenon DEF SamePid, Working, Waiting, InExec
  <2> QED
    BY <1>8, <2>1, PidFrame, Zenon
<1>14. \A p \in Pids : /\ pc'[p] \in Working <=> pc[p] \in Working /\ p # c
                       /\ pc'[p] \in Waiting <=> pc[p] \in Waiting
                       /\ pc'[p] \in Working \cup Waiting <=> pc[p] \in Working \cup Waiting /\ p # c
                       /\ pc[p] \in Waiting => p # c /\ pc[p] \notin Working
  BY <1>1, <1>4, Zenon DEF Working, Waiting, InExec
<1>15. TreeInv'
  <2>1. ASSUME NEW p \in Pids PROVE ParentWaits(p)'
    <3> SUFFICES ASSUME p # c, p \notin Shells, pc[p] \in Working \cup Waiting PROVE ParentWaits(p)'
      BY <1>14, ZenonT(60) DEF ParentWaits
    <3>1. /\ parent[p] \in Pids /\ creator[p] = parent[p]
          /\ pc[parent[p]] \in Waiting /\ running[parent[p]] = "INACTIVE" /\ child[parent[p]] = p
      BY Zenon DEF Body, TreeInv, ParentWaits
    <3>2. parent[p] # c /\ parent[p] # r
      BY <1>3, <1>14, <3>1, ZenonT(60)
    <3> QED
      BY <1>5, <1>7, <1>8, <1>14, <3>1, <3>2, ZenonT(60) DEF ParentWaits
  <2>2. ASSUME NEW p \in Pids PROVE ChildLives(p)'
    <3> SUFFICES ASSUME pc[p] \in Waiting, running[p] = "INACTIVE", p # r PROVE ChildLives(p)'
      <4>1. p \in Nodes
        BY Constants, ZenonT(60)
      <4> QED
        BY <1>7, <1>14, <4>1, ZenonT(60) DEF ChildLives
    <3>1. child[p] \in Pids /\ parent[child[p]] = p /\ pc[child[p]] \in Working \cup Waiting
      BY Zenon DEF Body, TreeInv, ChildLives
    <3>2. child[p] # c
      BY <3>1, Zenon DEF r
    <3> QED
      BY <1>5, <1>14, <3>1, <3>2, ZenonT(60) DEF ChildLives
  <2>3. ASSUME NEW p \in Pids PROVE Kin(p)'
    BY <1>2, <1>4, <1>5, <1>10, ZenonT(60) DEF Body, TreeInv, Kin, Atomic
  <2> QED
    BY <2>1, <2>2, <2>3, Zenon DEF TreeInv
<1>16. StatusInv'
  <2>1. ASSUME NEW p \in Pids, p = r
        PROVE  pc'[p] \notin Working /\ ret_status'[p] = expect'[p] % 256
    BY <1>3, <1>6, <1>14, <2>1, ZenonT(60) DEF Stored
  <2>2. ASSUME NEW p \in Pids, p # r
        PROVE  /\ pc'[p] \in Working => rval'[p] = expect'[p] % 256
               /\ pc'[p] \in Waiting /\ running'[p] = "RUNNING" => ret_status'[p] = expect'[p] % 256
    <3>1. StatusInv /\ p \in Nodes
      BY Constants, Zenon DEF Body
    <3>2. /\ expect'[p] = expect[p] /\ rval'[p] = rval[p]
          /\ running'[p] = "RUNNING" /\ p # c => running[p] = "RUNNING"
          /\ p # c => ret_status'[p] = ret_status[p]
      BY <1>6, <1>7, <1>8, <2>2, <3>1, ZenonT(60)
    <3> QED
      BY <1>14, <3>1, <3>2, ZenonT(60) DEF StatusInv
  <2> QED
    BY <2>1, <2>2 DEF StatusInv
<1>17. SpaceInv'
  <2>1. SpaceInv
    BY Zenon DEF Body
  <2>2. \A p \in Pids : pc'[p] \in {"pcb", "current", "load"} => pc'[p] = pc[p] /\ local'[p] = local[p]
    BY ONLY <1>4, SMTT(60)
  <2>3. c \in Pids /\ pc'[c] = "unsched" /\ ctx' = c
    BY <1>1, <1>4, <1>8, ZenonT(60)
  <2> QED
    BY <1>7, <1>8, <2>1, <2>2, <2>3, ZenonT(60) DEF SpaceInv
<1> QED
  BY <1>9, <1>11, <1>12, <1>13, <1>15, <1>16, <1>17, Zenon DEF Body

-----------------------------------------------------------------------------
(* No event is ever forgotten, and a dead kernel stays dead.               *)
LEMMA HitKept ==
    ASSUME TypeInv, [Next]_vars
    PROVE  hit \subseteq hit'
<1>1. ASSUME NEW c \in Pids, UserStep(c) PROVE hit \subseteq hit'
  BY <1>1, Zenon DEF UserStep, ExecAlloc, HaltRelease
<1>2. ASSUME NEW c \in Pids, KernelStep(c) PROVE hit \subseteq hit'
  BY <1>2, ZenonT(60) DEF KernelStep, ExecPaging, ExecLoad, ExecLoadFails, ExecPcb, ExecSchedule,
                          ExecReturn, HaltDetach, Detach, YieldPick, YieldSwitch
<1>3. ASSUME NEW c \in Pids, Tick(c) \/ KernelFault(c) PROVE hit \subseteq hit'
  BY <1>3, Zenon DEF Tick, KernelFault
<1> QED
  BY <1>1, <1>2, <1>3, ZenonT(60) DEF Next, BootShell, BootSwitch, Stopped, vars

LEMMA SoundBefore ==
    ASSUME TypeInv, [Next]_vars, Sound'
    PROVE  Sound
<1>1. hit \subseteq hit'
  BY HitKept, Zenon
<1>2. ctx = Dead => ctx' = Dead
  <2>1. ASSUME NEW c \in Pids, UserStep(c) \/ KernelStep(c) \/ Tick(c) \/ KernelFault(c)
        PROVE  ctx = c
    BY <2>1, ZenonT(60) DEF UserStep, KernelStep, ExecAlloc, HaltRelease, ExecPaging, ExecLoad, ExecLoadFails,
         ExecPcb, ExecSchedule, ExecReturn, HaltDetach, Detach, YieldPick, YieldSwitch, Tick,
         KernelFault, At, On
  <2>2. UNCHANGED vars => UNCHANGED ctx
    BY Zenon DEF vars, cpuVars
  <2> QED
    BY <2>1, <2>2, Constants, ZenonT(60) DEF Next, BootShell, BootSwitch, Stopped
<1> QED
  BY <1>1, <1>2, Zenon DEF Sound

(* Only a fault kills the kernel.                                          *)
LEMMA OnlyFaultsKill ==
    ASSUME TypeInv, TypeInv', [Next]_vars, ctx # Dead, \A c \in Pids : ~KernelFault(c)
    PROVE  ctx' # Dead
<1>1. ASSUME NEW c \in Pids, UserStep(c) \/ KernelStep(c) \/ Tick(c) PROVE ctx' \in Pids
  <2>1. CASE UserStep(c) \/ Tick(c) \/ YieldSwitch(c)
    <3>1. CASE UserStep(c)
      BY <3>1, Zenon DEF UserStep, ExecAlloc, HaltRelease, At, On
    <3>2. CASE Tick(c)
      BY <3>2 DEF Tick, TypeInv, TypeOK, CpuTypeOK
    <3>3. CASE YieldSwitch(c)
      BY <3>3, Zenon DEF YieldSwitch, On, TypeInv, TypeOK, CpuTypeOK, Placed
    <3> QED
      BY <2>1, <3>1, <3>2, <3>3, Zenon
  <2>2. CASE KernelStep(c) /\ ~YieldSwitch(c)
    BY <2>2, ZenonT(60) DEF KernelStep, ExecPaging, ExecLoad, ExecLoadFails, ExecPcb, ExecSchedule,
                            ExecReturn, HaltDetach, Detach, YieldPick, At, On
  <2> QED
    BY <1>1, <2>1, <2>2, Zenon
<1>2. CASE BootSwitch
  BY <1>2, Constants, Zenon DEF BootSwitch, TypeInv, Placed
<1>3. CASE BootShell \/ UNCHANGED vars
  BY <1>3, Zenon DEF BootShell, vars, cpuVars
<1> QED
  BY <1>1, <1>2, <1>3, Constants, Zenon DEF Next, Stopped

-----------------------------------------------------------------------------
(* Whatever the number of processes and however calls and ticks interleave *)
(* outside the windows, kexecute, khalt and pit_handler keep the links,    *)
(* the tree, the pids, the stacks and the address spaces consistent at     *)
(* every control point.                                                    *)
THEOREM Invariance == Spec => []IInv
<1>1. Init => IInv
  BY InitBody, Zenon DEF IInv
<1>2. TypeInv /\ TypeInv' /\ IInv /\ [Next]_vars => IInv'
  <2> SUFFICES ASSUME TypeInv, TypeInv', IInv, [Next]_vars, Sound' PROVE Body'
    BY Zenon DEF IInv
  <2>1. Sound /\ Body
    BY SoundBefore, Zenon DEF IInv
  <2>2. CASE BootShell
    BY <2>1, <2>2, BootShellBody, Zenon
  <2>3. CASE BootSwitch
    BY <2>1, <2>3, BootSwitchBody, Zenon
  <2>4. ASSUME NEW c \in Pids, UserStep(c) PROVE Body'
    BY <2>1, <2>4, ExecAllocBody, HaltReleaseBody, Zenon DEF UserStep
  <2>5. ASSUME NEW c \in Pids, KernelStep(c) PROVE Body'
    BY <2>1, <2>5, ExecPagingBody, ExecLoadBody, ExecLoadFailsBody, ExecPcbBody, ExecScheduleBody,
       ExecReturnBody, HaltDetachBody, YieldPickBody, YieldSwitchBody, Zenon DEF KernelStep
  <2>6. ASSUME NEW c \in Pids, Tick(c) PROVE Body'
    BY <2>1, <2>6, TickBody, Zenon
  <2>7. ASSUME NEW c \in Pids, KernelFault(c) PROVE FALSE
    BY <2>7, Zenon DEF KernelFault, Sound
  <2>8. CASE UNCHANGED vars
    <3>1. UNCHANGED <<next, prev, running, tail, curr_node, curr_process, pid_arr, parent, child,
                      ret_status, cr3, ctx, pc, local, esp, image, booted, creator, expect, rval, hit>>
      BY <2>8, ZenonT(60) DEF vars, rqVars, pcbVars, cpuVars, ghosts
    <3>2. LinksInv' /\ BootInv' /\ CurrentInv' /\ TaskInv' /\ SpaceInv'
      BY <2>1, <3>1 DEF Body, LinksInv, BootInv, CurrentInv, TaskInv, SpaceInv
    <3>3. \A p \in Pids : SameKin(p) /\ SamePid(p)
      BY <3>1, Zenon DEF SameKin, SamePid
    <3> QED
      BY <2>1, <3>1, <3>2, <3>3, TreeFrame, PidFrame, Zenon DEF Body
  <2> QED
    BY <2>2, <2>3, <2>4, <2>5, <2>6, <2>7, <2>8, Zenon DEF Next, Stopped
<1> QED
  BY <1>1, <1>2, TypeInvariance, PTL DEF Spec

(* User code runs as the process the kernel takes it for, as long as no    *)
(* tick falls into one of the windows of kexecute and khalt and no load    *)
(* fails: curr_process, curr_node, cr3 and the kernel stack agree.         *)
THEOREM CurrentCoherent == Spec => []Coherent
<1>1. TypeInv /\ IInv => Coherent
  BY Constants, Zenon DEF IInv, Sound, Body, CurrentInv, SpaceInv, Coherent, QueueEvents
<1> QED
  BY <1>1, TypeInvariance, Invariance, PTL

(* The links of the run queue stay inverse to one another, for every       *)
(* number of processes and every interleaving of execute, halt and ticks   *)
(* outside the windows.                                                    *)
THEOREM LinksStayIntact == Spec => []QueueIntact
<1>1. TypeInv /\ IInv => QueueIntact
  BY Constants, Zenon DEF IInv, Sound, Body, LinksInv, QueueIntact, Orderly, Linked
<1> QED
  BY <1>1, TypeInvariance, Invariance, PTL

(* pid_arr marks exactly the processes that exist or are being built.      *)
THEOREM PidArrayExact == Spec => []PidsAccounted
<1>1. ASSUME TypeInv, IInv PROVE PidsAccounted
  <2> SUFFICES ASSUME Orderly, NEW p \in Pids
               PROVE  pid_arr[p] <=> Building(p) \/ (p \in Linked /\ pc[p] \notin {"halt", "unsched"})
    BY Zenon DEF PidsAccounted
  <2>1. Body
    BY <1>1, Constants, Zenon DEF IInv, Sound, Orderly
  <2>2. (p \in Linked /\ pc[p] \notin {"halt", "unsched"}) <=> pc[p] \in (Working \cup Waiting) \ {"halt"}
    BY <1>1, <2>1 DEF Body, TaskInv, Linked, Working, Waiting, InExec, TypeInv, TypeOK, CpuTypeOK, Points
  <2> QED
    BY <2>1, <2>2, Zenon DEF Body, PidInv, Marked
<1> QED
  BY <1>1, TypeInvariance, Invariance, PTL

(* The process tree and the run queue agree.                               *)
THEOREM TreeAndQueueAgree == Spec => []TreeMatchesQueue
<1>1. ASSUME TypeInv, IInv PROVE TreeMatchesQueue
  <2> SUFFICES ASSUME Orderly, NEW p \in Linked
               PROVE  /\ running[p] = "INACTIVE" <=>
                            \E q \in Linked : parent[q] = p /\ creator[q] = p
                      /\ parent[p] # Null =>
                            child[parent[p]] = p /\ running[parent[p]] = "INACTIVE"
                      /\ parent[p] = Null <=> p \in Shells \/ running[p] = "FINISHED"
    BY Zenon DEF TreeMatchesQueue
  <2>1. Body
    BY <1>1, Constants, Zenon DEF IInv, Sound, Orderly
  <2>2. ASSUME NEW q \in Linked
        PROVE  /\ q \in Pids
               /\ pc[q] \in Working \cup Waiting \/ (pc[q] = "unsched" /\ q \notin Shells)
               /\ running[q] = "FINISHED" <=> pc[q] = "unsched"
               /\ pc[q] = "unsched" => parent[q] = Null
               /\ q \in Shells => parent[q] = Null
               /\ running[q] = "INACTIVE" => pc[q] \in Waiting
    <3>1. TaskInv /\ Kin(q) /\ q \in Pids /\ pc[q] \in Points
      BY <1>1, <2>1, Zenon DEF Body, TreeInv, Linked, TypeInv, TypeOK, CpuTypeOK
    <3> QED
      BY <3>1, Zenon DEF TaskInv, Kin, Linked, Working, Waiting, InExec, Points
  <2>3. ASSUME NEW q \in Linked, parent[q] # Null
        PROVE  /\ parent[q] \in Pids /\ creator[q] = parent[q]
               /\ child[parent[q]] = q /\ running[parent[q]] = "INACTIVE"
    BY <2>1, <2>2, <2>3, Zenon DEF Body, TreeInv, ParentWaits
  <2>4. ASSUME running[p] = "INACTIVE"
        PROVE  \E q \in Linked : parent[q] = p /\ creator[q] = p
    <3>1. child[p] \in Pids /\ parent[child[p]] = p /\ pc[child[p]] \in Working \cup Waiting
      BY <2>1, <2>2, <2>4, Zenon DEF Body, TreeInv, ChildLives
    <3>2. child[p] \in Linked
      BY <2>1, <3>1, Zenon DEF Body, TaskInv, Linked, Working, Waiting, InExec
    <3>3. p # Null
      BY Constants, Zenon DEF Linked
    <3>4. creator[child[p]] = p
      BY <2>3, <3>1, <3>2, <3>3, Zenon
    <3> QED
      BY <3>1, <3>2, <3>4, Zenon
  <2>5. ASSUME NEW q \in Linked, parent[q] = p PROVE running[p] = "INACTIVE"
    <3>1. parent[q] # Null
      BY <2>5, Constants, Zenon DEF Linked
    <3> QED
      BY <2>3, <2>5, <3>1, Zenon
  <2>6. parent[p] = Null <=> p \in Shells \/ running[p] = "FINISHED"
    BY <2>1, <2>2, Constants, ZenonT(60) DEF Body, TreeInv, ParentWaits
  <2> QED
    BY <2>3, <2>4, <2>5, <2>6, ZenonT(60)
<1> QED
  BY <1>1, TypeInvariance, Invariance, PTL

(* Every queued process has its own program in its memory, as long as no   *)
(* tick falls between new_paging and the end of read_data.                 *)
THEOREM ProgramsIntact == Spec => []ImagesIntact
<1>1. TypeInv /\ IInv => ImagesIntact
  BY Constants, Zenon DEF IInv, Sound, Body, SpaceInv, Linked, QueueEvents, ImagesIntact
<1> QED
  BY <1>1, TypeInvariance, Invariance, PTL

(* kexecute returns what its own child halted with.                        *)
THEOREM StatusReachesParent == Spec => []ReturnsChildStatus
<1>1. ASSUME TypeInv, IInv PROVE ReturnsChildStatus
  <2> SUFFICES ASSUME Orderly, NEW p \in Linked, pc[p] = "user"
               PROVE  rval[p] = expect[p] \/ expect[p] = EXCEPTION_RETURN
    BY Zenon DEF ReturnsChildStatus
  <2>1. rval[p] = expect[p] % 256 /\ expect[p] \in 0 .. 256
    BY <1>1, Constants DEF IInv, Sound, Orderly, Body, StatusInv, Working, Linked, TypeInv, TypeOK, RestTypeOK
  <2> QED
    BY <2>1 DEF EXCEPTION_RETURN
<1> QED
  BY <1>1, TypeInvariance, Invariance, PTL

-----------------------------------------------------------------------------
(* Why the search of pit_handler always ends: the list is one ring, and    *)
(* once the first task runs there always is one to be found.               *)
Alive == ctx # Boot => \E p \in Pids : running[p] = "RUNNING"
FaultInv == (Sound => Ringed(next, prev, tail) /\ Alive) /\ NoKernelFault

(* A runnable task is linked.                                              *)
LEMMA RunnableLinked ==
    ASSUME TypeInv, TaskInv, NEW p \in Pids, running[p] = "RUNNING"
    PROVE  next[p] # Null
BY Zenon DEF TaskInv

(* schedule leaves its task runnable, unschedule of a program the parent.  *)
LEMMA ScheduleAlive ==
    ASSUME TypeInv, NEW p \in Pids, NEW q, q # p, Schedule(p, q)
    PROVE  \E r \in Pids : running'[r] = "RUNNING"
<1>1. p \in Nodes
  BY Constants, Zenon
<1>2. running'[p] = "RUNNING"
  BY <1>1, Zenon DEF Schedule
<1> QED
  BY <1>2, Zenon

LEMMA UnscheduleAlive ==
    ASSUME TypeInv, NEW p \in Pids \ Shells, NEW q \in Pids, Unschedule(p, q)
    PROVE  \E r \in Pids : running'[r] = "RUNNING"
<1>1. q \in Nodes /\ p >= NumShells
  BY Constants
<1>2. running'[q] = "RUNNING"
  BY <1>1, Zenon DEF Unschedule
<1> QED
  BY <1>2, Zenon

(* No process that is where the code expects it to be can fault.           *)
LEMMA NoFault ==
    ASSUME TypeInv, Body, Sound, Ringed(next, prev, tail), Alive,
           NEW c \in Pids, KernelFault(c), hit' \cap QueueEvents = {}
    PROVE  FALSE
<1>1. /\ ctx = c /\ hit' = hit \cup ({pc[c]} \cap Events)
      /\ \/ PicksNone
         \/ pc[c] = "halt" /\ local[c] = Null
         \/ pc[c] = "none"
  BY Zenon DEF KernelFault, On
<1>2. pc[c] \in Points /\ pc[c] \notin {"current", "exec_pit", "halt_pit"}
  BY <1>1, ZenonT(60) DEF TypeInv, TypeOK, CpuTypeOK, Events, QueueEvents
<1>3. pc[c] # "none" /\ curr_node = c /\ ctx # Boot
  BY <1>1, Constants, Zenon DEF Body, CurrentInv
<1>4. next[c] # Null
  BY <1>2, <1>3, Zenon DEF Body, TaskInv
<1>5. ASSUME pc[c] = "halt" PROVE local[c] # Null
  <2>1. ParentWaits(c) /\ Kin(c)
    BY Zenon DEF Body, TreeInv
  <2>2. c \notin Shells /\ pc[c] \in Working
    BY <1>5, Zenon DEF Body, TaskInv, Working
  <2>3. local[c] = parent[c]
    BY <1>5, <2>1, Zenon DEF Kin
  <2>4. parent[c] \in Pids
    BY <2>1, <2>2, Zenon DEF ParentWaits
  <2>5. Null \notin Pids
    BY NodeFacts, Zenon
  <2> QED
    BY <2>3, <2>4, <2>5, Zenon
<1>6. PICK r \in Pids : running[r] = "RUNNING"
  BY <1>3, Zenon DEF Alive
<1>7. next[r] # Null
  BY <1>6, RunnableLinked, Zenon DEF Body
<1>8. RQTypeOK /\ running[Sentinel] = "SENTINEL"
  BY Zenon DEF TypeInv, TypeOK, Body, TaskInv
<1>9. \E t \in Pids : PicksTask(t)
  BY <1>3, <1>4, <1>6, <1>7, <1>8, PicksSome, Zenon
<1> QED
  BY <1>1, <1>3, <1>5, <1>9, Zenon DEF PicksNone

(* A step that leaves the queue alone leaves it a ring with a runnable     *)
(* task.                                                                   *)
LEMMA QueueKept ==
    ASSUME Ringed(next, prev, tail), Alive, ctx # Boot,
           UNCHANGED <<next, prev, tail, running>>
    PROVE  Ringed(next', prev', tail') /\ Alive'
<1>1. next' = next /\ prev' = prev /\ tail' = tail /\ running' = running
  BY Zenon
<1>2. Ringed(next', prev', tail')
  BY <1>1, Zenon
<1> QED
  BY <1>1, <1>2, Zenon DEF Alive

LEMMA QueueStep ==
    ASSUME TypeInv, TypeInv', Body, Sound, Sound', Ringed(next, prev, tail), Alive, [Next]_vars
    PROVE  Ringed(next', prev', tail') /\ Alive'
<1>0. RQTypeOK
  BY Zenon DEF TypeInv, TypeOK
<1>1. CASE BootShell
  <2>0. booted \in Nat /\ booted < NumShells
    BY <1>1 DEF BootShell, TypeInv, TypeOK, RestTypeOK
  <2>1. Schedule(booted, Null) /\ ctx' = ctx /\ ctx = Boot /\ booted \in Pids
    BY <1>1, <2>0, PidAssumption DEF BootShell, Pids
  <2>2. pc[booted] = "none"
    BY <2>1, Constants DEF Body, BootInv
  <2>3. next[booted] = Null
    BY <2>1, <2>2, Zenon DEF Body, TaskInv
  <2>4. Ringed(next', prev', tail')
    BY <1>0, <2>1, <2>3, RingedSchedule, Zenon
  <2> QED
    BY <2>1, <2>4, Zenon DEF Alive
<1>2. CASE BootSwitch
  <2>1. next' = next /\ prev' = prev /\ tail' = tail /\ running' = running
    BY <1>2, Zenon DEF BootSwitch, PitFirst
  <2>2. 0 \in Pids /\ pc[0] = "user"
    BY <1>2, Constants, Zenon DEF BootSwitch, Body, BootInv
  <2>3. running[0] = "RUNNING"
    BY <2>2, Zenon DEF Body, TaskInv, Working
  <2>4. Alive'
    BY <2>1, <2>2, <2>3, Zenon DEF Alive
  <2> QED
    BY <2>1, <2>4, Zenon
<1>3. ASSUME NEW c \in Pids, UserStep(c) PROVE Ringed(next', prev', tail') /\ Alive'
  <2>1. UNCHANGED <<next, prev, tail, running>> /\ ctx = c
    BY <1>3, Zenon DEF UserStep, ExecAlloc, HaltRelease, rqVars, At, On
  <2> QED
    BY <2>1, Constants, QueueKept, Zenon
<1>4. ASSUME NEW c \in Pids, ExecSchedule(c) PROVE Ringed(next', prev', tail') /\ Alive'
  <2> DEFINE p == curr_process
             q == parent[p]
  <2>1. ctx = c /\ pc[c] = "current" /\ Schedule(p, q)
    BY <1>4, Zenon DEF ExecSchedule, At, On
  <2>2. p = local[c] /\ p \in Pids
    BY <2>1, Zenon DEF Body, CurrentInv, Atomic, TypeInv, Placed
  <2>3. pc[p] = "none"
    BY <2>1, <2>2, Zenon DEF Body, PidInv, OwnPid, InExec
  <2>4. next[p] = Null
    BY <2>2, <2>3, Zenon DEF Body, TaskInv
  <2>5. q = c /\ q # p
    BY <2>1, <2>2, <2>3, Zenon DEF Body, TreeInv, Kin
  <2> HIDE DEF p, q
  <2>6. Ringed(next', prev', tail')
    BY <1>0, <2>1, <2>2, <2>4, RingedSchedule, Zenon
  <2>7. \E r \in Pids : running'[r] = "RUNNING"
    BY <2>1, <2>2, <2>5, ScheduleAlive, Zenon
  <2> QED
    BY <2>6, <2>7, Zenon DEF Alive
<1>5. ASSUME NEW c \in Pids, NEW status \in Statuses, HaltDetach(c, status)
      PROVE  Ringed(next', prev', tail') /\ Alive'
  <2>1. /\ ctx = c /\ pc[c] = "halt" /\ local[c] # Null /\ Unschedule(curr_process, local[c])
    BY <1>5, Zenon DEF HaltDetach, Detach, At, On
  <2>2. curr_process = c /\ c \notin Shells /\ local[c] \in Pids
    BY <2>1 DEF Body, CurrentInv, TaskInv, TypeInv, TypeOK, CpuTypeOK
  <2>3. Unschedule(c, local[c])
    BY <2>1, <2>2, Zenon
  <2>4. \E r \in Pids : running'[r] = "RUNNING"
    BY <2>2, <2>3, UnscheduleAlive, Zenon
  <2>5. next' = next /\ prev' = prev /\ tail' = tail
    BY <2>1, Zenon DEF Unschedule
  <2> QED
    BY <2>4, <2>5, Zenon DEF Alive
<1>6. ASSUME NEW c \in Pids, Tick(c) \/ YieldPick(c)
      PROVE  Ringed(next', prev', tail') /\ Alive'
  <2>1. ctx = c /\ Relink /\ LinksIntact
    BY <1>6, Zenon DEF Tick, YieldPick, On, PicksTask
  <2>2. curr_node = c /\ next[curr_node] # Null /\ ctx # Boot
    BY <2>1, Constants, Zenon DEF Body, CurrentInv, LinksIntact
  <2>3. Ringed(next', prev', tail')
    BY <1>0, <2>1, <2>2, RingedRelink, Zenon
  <2>4. running' = running
    BY <2>1, Zenon DEF Relink
  <2> QED
    BY <2>2, <2>3, <2>4, Zenon DEF Alive
<1>7. ASSUME NEW c \in Pids, KernelStep(c) PROVE Ringed(next', prev', tail') /\ Alive'
  <2>1. CASE ExecSchedule(c)
    BY <1>4, <2>1, Zenon
  <2>2. ASSUME NEW status \in Statuses, HaltDetach(c, status)
        PROVE  Ringed(next', prev', tail') /\ Alive'
    BY <1>5, <2>2, Zenon
  <2>3. CASE YieldPick(c)
    BY <1>6, <2>3, Zenon
  <2>4. CASE \/ ExecPaging(c) \/ ExecLoad(c) \/ ExecLoadFails(c) \/ ExecPcb(c)
             \/ ExecReturn(c) \/ YieldSwitch(c)
    <3>1. UNCHANGED <<next, prev, tail, running>> /\ ctx = c
      <4>1. CASE ExecPaging(c) \/ ExecLoad(c) \/ ExecLoadFails(c)
        BY <4>1, Zenon DEF ExecPaging, ExecLoad, ExecLoadFails, rqVars, At, On
      <4>2. CASE ExecPcb(c) \/ ExecReturn(c)
        BY <4>2, Zenon DEF ExecPcb, ExecReturn, rqVars, At, On
      <4>3. CASE YieldSwitch(c)
        BY <4>3, Zenon DEF YieldSwitch, On
      <4> QED
        BY <2>4, <4>1, <4>2, <4>3, Zenon
    <3> QED
      BY <3>1, Constants, QueueKept, Zenon
  <2> QED
    BY <1>7, <2>1, <2>2, <2>3, <2>4, Zenon DEF KernelStep
<1>8. ASSUME NEW c \in Pids, KernelFault(c) PROVE FALSE
  BY <1>8, Zenon DEF KernelFault, Sound
<1>9. CASE UNCHANGED vars
  <2>1. next' = next /\ prev' = prev /\ tail' = tail /\ running' = running /\ ctx' = ctx
    BY <1>9, Zenon DEF vars, rqVars, cpuVars
  <2>2. Alive'
    BY <2>1, Zenon DEF Alive
  <2> QED
    BY <2>1, <2>2, Zenon
<1> QED
  BY <1>1, <1>2, <1>3, <1>6, <1>7, <1>8, <1>9, Zenon DEF Next, Stopped

(* pit_handler never follows a NULL link or searches for ever, and khalt   *)
(* never follows a NULL parent, for every number of processes, as long as  *)
(* no tick falls into one of the windows of kexecute and khalt.            *)
THEOREM KernelNeverFaults == Spec => []NoKernelFault
<1>1. Init => FaultInv
  <2> SUFFICES ASSUME Init PROVE FaultInv
    BY Zenon
  <2>1. Ringed(next, prev, tail)
    BY RingedInit, Zenon DEF Init
  <2>2. ctx = Boot
    BY Zenon DEF Init
  <2> QED
    BY <2>1, <2>2, Constants, Zenon DEF FaultInv, Alive, NoKernelFault
<1>2. TypeInv /\ TypeInv' /\ IInv /\ IInv' /\ FaultInv /\ [Next]_vars => FaultInv'
  <2> SUFFICES ASSUME TypeInv, TypeInv', IInv, IInv', FaultInv, [Next]_vars PROVE FaultInv'
    BY Zenon
  <2>1. ASSUME Sound' PROVE Ringed(next', prev', tail') /\ Alive'
    <3>1. Sound
      BY <2>1, SoundBefore, Zenon
    <3>2. Body /\ Ringed(next, prev, tail) /\ Alive
      BY <3>1, Zenon DEF IInv, FaultInv
    <3> QED
      BY <2>1, <3>1, <3>2, QueueStep, Zenon
  <2>2. ASSUME hit' \cap QueueEvents = {} PROVE ctx' # Dead
    <3>1. hit \subseteq hit'
      BY HitKept, Zenon
    <3>2. hit \cap QueueEvents = {}
      BY <2>2, <3>1, Zenon
    <3>3. ctx # Dead
      BY <3>2, Zenon DEF FaultInv, NoKernelFault
    <3>4. Sound
      BY <3>2, <3>3, Zenon DEF Sound
    <3>5. Body /\ Ringed(next, prev, tail) /\ Alive
      BY <3>4, Zenon DEF IInv, FaultInv
    <3>6. \A c \in Pids : ~KernelFault(c)
      BY <2>2, <3>4, <3>5, NoFault, Zenon
    <3> QED
      BY <3>3, <3>6, OnlyFaultsKill, Zenon
  <2> QED
    BY <2>1, <2>2, Zenon DEF FaultInv, NoKernelFault
<1>3. FaultInv => NoKernelFault
  BY Zenon DEF FaultInv
<1> QED
  BY <1>1, <1>2, <1>3, TypeInvariance, Invariance, PTL DEF Spec
=============================================================================
