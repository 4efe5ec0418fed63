------------------------------ MODULE History -------------------------------
(***************************************************************************)
(* The command history of keyboard_int: for each terminal a ring of        *)
(* MAXHIST + 1 lines, a copy of it that recalled lines are edited in, and  *)
(* the keys of the current line.                                           *)
(*                                                                         *)
(* keyboard_int starts with interrupts disabled and acknowledges the key   *)
(* at once; put_char ends with sti.  From its first put_char on, another   *)
(* key can therefore interrupt the handler, and so can the timer, which    *)
(* switches to the kernel stack of another process: the handlers on one    *)
(* stack end in the opposite order of their keys, those on different       *)
(* stacks in any order.  What a handler does before its first put_char,    *)
(* and one put_char, is a step.                                            *)
(*                                                                         *)
(* A character stands for what kbdus gives for the scancode and the        *)
(* modifiers; backspace is kept in the history as a character.             *)
(***************************************************************************)
EXTENDS Integers, Sequences, FiniteSets, Functions, TLC

CONSTANTS
    Terminals,
    MAXHIST,        \* 8 in the code
    BUFFER_LIMIT,   \* 128 in the code: line buffer, and backspaces sent
    Chars,
    Stacks,         \* kernel stacks of the processes
    Handlers,       \* bound: calls of keyboard_int that have not ended
    Active,         \* bound: terminals where characters are typed
    MaxNum,         \* bound: lines entered on all terminals
    MaxTyped        \* bound: keys in the current lines of all terminals

ASSUME HistoryAssumption ==
    /\ MAXHIST \in Nat /\ BUFFER_LIMIT \in Nat
    /\ MaxNum \in Nat
    /\ MaxTyped \in Nat /\ MaxTyped <= BUFFER_LIMIT
    /\ 0 \in Terminals
    /\ Chars \cap {"up", "down", "none", "backspace"} = {}

Backspace == "backspace"
Line == Seq(Chars \cup {Backspace})
Slots == 0 .. MAXHIST
Slot(k) == k % (MAXHIST + 1)

VARIABLES
    curr_terminal,
    num_hist, curr_hist, min_hist,  \* lines entered, shown, oldest kept
    hist, modified_hist, curr_cmd,
    line,           \* linebuffer of terminal.c, up to linelength
    frames,         \* of the calls of keyboard_int
    \* what the properties remember
    log,            \* the last MAXHIST lines saved on a terminal
    crossed,        \* terminals whose recall was crossed; nothing follows
    mixed           \* terminals whose line keys or output have mixed up,
                    \* until the next Enter

indexes == <<num_hist, curr_hist, min_hist>>
buffers == <<hist, modified_hist, curr_cmd>>
ghosts == <<log, crossed, mixed>>
vars == <<curr_terminal, indexes, buffers, line, frames, ghosts>>

(* A handler: its key, its terminal, where it is, the put_chars done in    *)
(* its loop, the slot hist_copy_from was given, the stack it is on and the *)
(* handlers there that it interrupted.                                     *)
Frame == [key : Chars \cup {Backspace, "up", "down", "none"},
          term : Terminals,
          pc : {"none", "cmd", "modified", "erase", "type", "copy", "index"},
          i : Nat, slot : Int,
          stack : Stacks \cup {"none"}, under : SUBSET Handlers]
Idle == [key |-> "none", term |-> 0, pc |-> "none", i |-> 0, slot |-> 0,
         stack |-> "none", under |-> {}]

Init ==
    /\ curr_terminal = 0
    /\ num_hist = [t \in Terminals |-> 0] /\ curr_hist = [t \in Terminals |-> 0]
    /\ min_hist = [t \in Terminals |-> 0]
    /\ hist = [t \in Terminals |-> [k \in Slots |-> <<>>]]
    /\ modified_hist = hist
    /\ curr_cmd = [t \in Terminals |-> <<>>] /\ line = curr_cmd
    /\ frames = [h \in Handlers |-> Idle]
    /\ log = [t \in Terminals |-> <<>>] /\ crossed = {} /\ mixed = {}

-----------------------------------------------------------------------------
(* put_char on a line buffer.                                              *)
Put(l, c) ==
    IF c = Backspace THEN IF l = <<>> THEN l ELSE SubSeq(l, 1, Len(l) - 1)
    ELSE IF Len(l) < BUFFER_LIMIT THEN Append(l, c) ELSE l

(* put_char types on the terminal that is shown.                           *)
PutChar(c) == line' = [line EXCEPT ![curr_terminal] = Put(@, c)]

(* A handler that recalls a line of t, or types on it, has not ended.      *)
Recalling(t) == \E h \in Handlers : frames[h].term = t /\ frames[h].key \in {"up", "down"}
Busy(t) == \E h \in Handlers : frames[h].term = t /\ frames[h].pc # "none"

(* Another handler works on the line of the terminal t.                    *)
Mixes(t) == mixed' = IF Busy(t) THEN mixed \cup {t} ELSE mixed

Push(h, s, key, pc, i, slot) ==
    frames' = [frames EXCEPT ![h] =
      [key |-> key, term |-> curr_terminal, pc |-> pc, i |-> i, slot |-> slot,
       stack |-> s, under |-> {g \in Handlers : frames[g].stack = s}]]

Continue(h, pc, i) ==
    frames' = [frames EXCEPT ![h] =
      [key |-> frames[h].key, term |-> frames[h].term, pc |-> pc, i |-> i,
       slot |-> frames[h].slot, stack |-> frames[h].stack, under |-> frames[h].under]]

Pop(h) == frames' = [frames EXCEPT ![h] = Idle]

(* Interrupts are enabled after every step, so the timer may have switched *)
(* to any stack before the next one.                                       *)
Interrupt(h) == frames[h].pc = "none" /\ crossed = {}
Running(h, pc) ==
    /\ frames[h].pc = pc /\ crossed = {}
    /\ \A g \in Handlers : h \notin frames[g].under

(* A bound: after a mix-up only Enter follows, and Alt with a function key *)
(* to get to the terminal where it happened.                               *)
InOrder == mixed = {}

-----------------------------------------------------------------------------
(* A key that types a character, backspace included.  MaxTyped also keeps  *)
(* a line within its 128 bytes, which the code does not check.             *)
KeyChar(h, s, c) ==
    /\ Interrupt(h) /\ InOrder /\ curr_terminal \in Active
    /\ SumFunction([t \in Terminals |-> Len(curr_cmd[t])])
         + Cardinality({g \in Handlers : frames[g].pc = "cmd"}) < MaxTyped
    /\ PutChar(c)
    /\ Push(h, s, c, "cmd", 0, 0)
    /\ Mixes(curr_terminal)
    /\ UNCHANGED <<curr_terminal, indexes, buffers, log, crossed>>

AppendCmd(h) ==
    /\ Running(h, "cmd")
    /\ curr_cmd' = [curr_cmd EXCEPT ![frames[h].term] = Append(@, frames[h].key)]
    /\ Continue(h, "modified", 0)
    /\ UNCHANGED <<curr_terminal, indexes, hist, modified_hist, line, ghosts>>

(* The slot of the edited line, and that of the next free one.             *)
Edited_New(t) == Slot(num_hist[t])
Edited(t) == Slot(curr_hist[t])

AppendModified(h) ==
    /\ Running(h, "modified")
    /\ modified_hist' = [modified_hist EXCEPT ![frames[h].term][Edited(frames[h].term)] =
                            Append(@, frames[h].key)]
    /\ Pop(h)
    /\ UNCHANGED <<curr_terminal, indexes, hist, curr_cmd, line, ghosts>>

(* Up and Down: the line is erased and the other one typed in its place.   *)
Crosses(t) == crossed' = IF Recalling(t) THEN crossed \cup {t} ELSE crossed

(* There is an older line; the mutant compares with the wrong bound.       *)
CanGoUp_Any(t) == curr_hist[t] > 0
CanGoUp(t) == curr_hist[t] > min_hist[t]
CanGoDown(t) == curr_hist[t] < num_hist[t]

Recall(h, s, key, to) ==
    /\ PutChar(Backspace)
    /\ Push(h, s, key, "erase", 1, Slot(to))
    /\ Crosses(curr_terminal) /\ Mixes(curr_terminal)
    /\ UNCHANGED <<curr_terminal, indexes, buffers, log>>

KeyUp(h, s) ==
    /\ Interrupt(h) /\ InOrder /\ CanGoUp(curr_terminal)
    /\ Recall(h, s, "up", curr_hist[curr_terminal] - 1)

KeyDown(h, s) ==
    /\ Interrupt(h) /\ InOrder /\ CanGoDown(curr_terminal)
    /\ Recall(h, s, "down", curr_hist[curr_terminal] + 1)

(* hist_copy_from: BUFFER_LIMIT backspaces, then the line.  put_char acts  *)
(* on the terminal shown, whichever the key was for.                       *)
Stray(h) == mixed' = IF curr_terminal = frames[h].term THEN mixed
                     ELSE mixed \cup {curr_terminal, frames[h].term}

Erase(h) ==
    /\ Running(h, "erase") /\ frames[h].i < BUFFER_LIMIT
    /\ PutChar(Backspace)
    /\ Continue(h, "erase", frames[h].i + 1)
    /\ Stray(h)
    /\ UNCHANGED <<curr_terminal, indexes, buffers, log, crossed>>

Erased(h) ==
    /\ Running(h, "erase") /\ frames[h].i >= BUFFER_LIMIT
    /\ Continue(h, "type", 0)
    /\ UNCHANGED <<curr_terminal, indexes, buffers, line, ghosts>>

Source(h) == modified_hist[frames[h].term][frames[h].slot]

Type(h) ==
    /\ Running(h, "type") /\ frames[h].i < Len(Source(h))
    /\ PutChar(Source(h)[frames[h].i + 1])
    /\ Continue(h, "type", frames[h].i + 1)
    /\ Stray(h)
    /\ UNCHANGED <<curr_terminal, indexes, buffers, log, crossed>>

Typed(h) ==
    /\ Running(h, "type") /\ frames[h].i >= Len(Source(h))
    /\ Continue(h, "copy", 0)
    /\ UNCHANGED <<curr_terminal, indexes, buffers, line, ghosts>>

Step(h) == IF frames[h].key = "up" THEN -1 ELSE 1

(* curr_cmd becomes the recalled line: of the edited copy, or of hist.     *)
Recalled_Hist(t, k) == hist[t][Slot(k)]
Recalled(t, k) == modified_hist[t][Slot(k)]

CopyCmd(h) ==
    /\ Running(h, "copy")
    /\ curr_cmd' = [curr_cmd EXCEPT ![frames[h].term] =
                        Recalled(frames[h].term, curr_hist[frames[h].term] + Step(h))]
    /\ Continue(h, "index", 0)
    /\ UNCHANGED <<curr_terminal, indexes, hist, modified_hist, line, ghosts>>

(* The put_char of the 0 that kbdus holds for the arrows changes nothing.  *)
MoveIndex(h) ==
    /\ Running(h, "index")
    /\ curr_hist' = [curr_hist EXCEPT ![frames[h].term] = @ + Step(h)]
    /\ Pop(h)
    /\ UNCHANGED <<curr_terminal, num_hist, min_hist, buffers, line, ghosts>>

(* The oldest line that is kept, and one too many.                         *)
Oldest_Late(num, min) == IF num > MAXHIST + 1 THEN min + 1 ELSE min
Oldest(num, min) == IF num > MAXHIST THEN min + 1 ELSE min

Latest(s) == IF Len(s) > MAXHIST THEN Tail(s) ELSE s

(* Enter saves what was typed and takes the edits of other lines back.     *)
KeyEnter ==
    LET t == curr_terminal
        num == num_hist[t] + 1
        saved == [hist[t] EXCEPT ![Slot(num_hist[t])] = curr_cmd[t]]
        kept == [saved EXCEPT ![Slot(num)] = <<>>]
    IN  /\ crossed = {} /\ curr_cmd[t] # <<>> /\ SumFunction(num_hist) < MaxNum
        /\ num_hist' = [num_hist EXCEPT ![t] = num]
        /\ curr_hist' = [curr_hist EXCEPT ![t] = num]
        /\ min_hist' = [min_hist EXCEPT ![t] = Oldest(num, @)]
        /\ hist' = [hist EXCEPT ![t] = kept]
        /\ modified_hist' = [modified_hist EXCEPT ![t] = kept]
        /\ curr_cmd' = [curr_cmd EXCEPT ![t] = <<>>]
        /\ line' = [line EXCEPT ![t] = <<>>]
        /\ log' = [log EXCEPT ![t] = Latest(Append(@, curr_cmd[t]))]
        /\ Crosses(t)
        /\ mixed' = IF Busy(t) THEN mixed \cup {t} ELSE mixed \ {t}
        /\ UNCHANGED <<curr_terminal, frames>>

KeyEnterNothing ==
    /\ crossed = {} /\ curr_cmd[curr_terminal] = <<>>
    /\ line' = [line EXCEPT ![curr_terminal] = <<>>]
    /\ Mixes(curr_terminal)
    /\ UNCHANGED <<curr_terminal, indexes, buffers, frames, log, crossed>>

(* Alt with F1 to F3.                                                      *)
KeySwitch(t) ==
    /\ crossed = {} /\ t # curr_terminal
    /\ curr_terminal' = t
    /\ UNCHANGED <<indexes, buffers, line, frames, ghosts>>

(* Ctrl-L on the terminal shown, and a program that writes on its own:     *)
(* linelength becomes 0, the history is not told.                          *)
EmptyLine(t) ==
    /\ crossed = {} /\ InOrder
    /\ line' = [line EXCEPT ![t] = <<>>]
    /\ mixed' = mixed \cup {t}
    /\ UNCHANGED <<curr_terminal, indexes, buffers, frames, log, crossed>>

Next ==
    \/ \E h \in Handlers, s \in Stacks :
         \/ \E c \in Chars \cup {Backspace} : KeyChar(h, s, c)
         \/ KeyUp(h, s) \/ KeyDown(h, s)
    \/ \E h \in Handlers :
         \/ AppendCmd(h) \/ AppendModified(h)
         \/ Erase(h) \/ Erased(h) \/ Type(h) \/ Typed(h) \/ CopyCmd(h) \/ MoveIndex(h)
    \/ KeyEnter \/ KeyEnterNothing
    \/ \E t \in Terminals : KeySwitch(t) \/ EmptyLine(t)
    \/ crossed # {} /\ UNCHANGED vars

Symmetry == Permutations(Stacks) \cup Permutations(Handlers)

Spec == Init /\ [][Next]_vars

-----------------------------------------------------------------------------
(* Properties.                                                             *)

(* The line that is shown is one that is kept, and the window of lines     *)
(* that are kept fits into the ring, for every interleaving of handlers    *)
(* in which no Up, Down or Enter interrupts an Up or Down on the same      *)
(* terminal.  After that curr_hist would leave the window: the tests were  *)
(* made before the line was typed.                                         *)
IndexesInRange ==
    crossed = {} => \A t \in Terminals :
        /\ min_hist[t] <= curr_hist[t] /\ curr_hist[t] <= num_hist[t]
        /\ num_hist[t] - min_hist[t] <= MAXHIST

(* Every variable has its type, and a handler of an arrow key is in the    *)
(* code for it.                                                            *)
TypeOK ==
    /\ curr_terminal \in Terminals
    /\ num_hist \in [Terminals -> Nat] /\ curr_hist \in [Terminals -> Int]
    /\ min_hist \in [Terminals -> Nat]
    /\ hist \in [Terminals -> [Slots -> Line]]
    /\ modified_hist \in [Terminals -> [Slots -> Line]]
    /\ curr_cmd \in [Terminals -> Line] /\ line \in [Terminals -> Seq(Chars)]
    /\ frames \in [Handlers -> Frame]
    /\ \A h \in Handlers :
         frames[h].key \in {"up", "down"}
            <=> frames[h].pc \in {"erase", "type", "copy", "index"}
    /\ crossed \subseteq Terminals /\ mixed \subseteq Terminals

(* The ring holds the lines saved last, each in its slot, and the slot of  *)
(* the line being typed is empty, whatever interrupts what; every variable *)
(* keeps its type.                                                         *)
RingHoldsLast ==
    /\ TypeOK
    /\ \A t \in Terminals :
         /\ num_hist[t] - min_hist[t] = Len(log[t])
         /\ \A k \in 1 .. Len(log[t]) :
               hist[t][Slot(min_hist[t] + k - 1)] = log[t][k]
         /\ hist[t][Slot(num_hist[t])] = <<>>

Quiet(t) == ~Busy(t) /\ t \notin mixed /\ crossed = {}

(* What Enter would save is the edited copy of the line that is shown, so  *)
(* that Up and Down bring back a line as it was left, unless keys          *)
(* interrupted each other.                                                 *)
CommandIsEntry ==
    \A t \in Terminals : Quiet(t) => curr_cmd[t] = modified_hist[t][Edited(t)]

(* The line buffer after the first n of the keys cmd.                      *)
Played(cmd, n) ==
    LET at[k \in 0 .. Len(cmd)] == IF k = 0 THEN <<>> ELSE Put(at[k - 1], cmd[k])
    IN  at[n]

(* The line the reader will get is what the keys in curr_cmd give: the     *)
(* history saves what was entered, and a recalled line is the line that is *)
(* entered, unless keys interrupted each other or the line was emptied by  *)
(* Ctrl-L or by output.                                                    *)
LineIsReplay ==
    \A t \in Terminals : Quiet(t) => line[t] = Played(curr_cmd[t], Len(curr_cmd[t]))
=============================================================================
