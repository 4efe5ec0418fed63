------------------------------ MODULE MCFiles -------------------------------
(* A disk with the directory, the RTC and two files.  The first file lies  *)
(* in two blocks that are not consecutive and ends inside the second; the  *)
(* other one fills its block and has inode 0, like "." and "rtc".          *)
EXTENDS Files

MCDentries ==
    <<[name |-> ".", type |-> "dir", inode |-> 0],
      [name |-> "f", type |-> "file", inode |-> 1],
      [name |-> "rtc", type |-> "rtc", inode |-> 0],
      [name |-> "g", type |-> "file", inode |-> 0]>>

MCInodes == 0 :> [length |-> 2, blocks |-> <<1>>]
            @@ 1 :> [length |-> 3, blocks |-> <<2, 0>>]

MCJobs ==
    {[prog |-> "cat", arg |-> a] : a \in {"f", "g", "none"}}
    \cup [prog : {"ls", "grep", "pingpong", "syserr"}, arg : {"none"}]
=============================================================================
