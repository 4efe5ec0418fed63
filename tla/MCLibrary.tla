----------------------------- MODULE MCLibrary ------------------------------
(***************************************************************************)
(* Calls of the library, one in each behaviour: the copies of Memory byte  *)
(* by byte, the functions of Library in one step.                          *)
(***************************************************************************)
EXTENDS Memory, Library

MCMemories == {[a \in Addr |-> a]}

Strings(chars, len) == {f \in [0 .. len -> chars \cup {NUL}] : f[len] = NUL}
Texts(chars, len) == UNION {[1 .. k -> chars] : k \in 0 .. len}
Arg(v) == [num |-> v, chr |-> "q", str |-> <<"s", "t">>]

MCCalls ==
    [fn : {"compare"}, s1 : Strings({1, 200}, 3), s2 : Strings({1, 200}, 3),
     n : 0 .. 3]
    \cup {c \in [fn : {"strcpy"}, mem : Strings({1, 2}, 6), to : 0 .. 3,
                 from : 0 .. 3] : c.to <= c.from}
    \cup [fn : {"strncpy"}, dest : {[k \in 0 .. 4 |-> 9]},
          src : Strings({1, 2}, 4), n : 0 .. 4]
    \cup [fn : {"number"}, arg : {Arg(v) : v \in 0 .. Word - 1},
          radix : {2, 8, 10, 16}]
    \cup [fn : {"printf"}, args : {<<Arg(7), Arg(200), Arg(31)>>},
          format : Texts({"%", "#", "x", "d", "c", "s", "a"}, 4)]
    \cup [fn : {"puts"}, text : Texts({"a", "\n"}, 7), y : 0 .. NUM_ROWS - 1]
    \cup [fn : {"rtc_write"}, frequency : (0 .. 20) \cup UNION
            {{2^k - 1, 2^k, 2^k + 1, 3 * 2^k} : k \in 5 .. 15}]
    \cup [fn : {"execute"}, command : Strings({SP, NL, 1}, CMD_LENGTH - 1),
          no_args : {0, 1}]
    \cup [fn : {"grep"}, file : Texts({NL, 1, 2}, 7), 
          stack : {[k \in 0 .. BUFSIZE |-> IF k < BUFSIZE THEN b ELSE e] :
                      b \in {NL, 1}, e \in {NL, 1}},
          s : {[k \in 0 .. 1 |-> IF k = 0 THEN 1 ELSE NUL],
               [k \in 0 .. 2 |-> IF k = 2 THEN NUL ELSE k + 1]}]

(* The other half of the state is that of a call that has ended.           *)
NoCall == [fn |-> "none"]
MemoryIdle ==
    /\ op = "memset" /\ dest = 0 /\ src = 0 /\ n = 0 /\ pc = "done" /\ edi = 0
    /\ esi = 0 /\ ecx = 0 /\ edx = 0 /\ df = 1
    /\ mem0 \in Memories /\ mem = mem0

MCInit ==
    \/ Init /\ call = NoCall /\ ret = <<>>
    \/ LibraryInit /\ MemoryIdle

MCNext ==
    \/ Next /\ UNCHANGED <<call, ret>>
    \/ LibraryNext /\ UNCHANGED vars

MCSpec == MCInit /\ [][MCNext]_<<vars, call, ret>>
            /\ WF_<<vars, call, ret>>(MCNext)
=============================================================================
