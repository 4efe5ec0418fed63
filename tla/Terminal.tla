------------------------------ MODULE Terminal ------------------------------
(***************************************************************************)
(* One terminal of terminal.c: the cursor, the line that is being typed,   *)
(* the line that was entered last, and the process that reads and writes   *)
(* on this terminal.  Every variable of terminal.c is an array with one    *)
(* element per terminal; the terminals share curr_terminal only, of which  *)
(* shown says whether it names this one.                                   *)
(*                                                                         *)
(* put_char, terminal_write and clear_terminal run with interrupts         *)
(* disabled, a step each.  terminal_read does not: the keyboard may        *)
(* interrupt it between any two iterations of its loops.                   *)
(*                                                                         *)
(* A buffer is the sequence of its first linelength (lastlinelength)       *)
(* bytes; what lies behind them is never read.  The contents of the screen *)
(* are not modelled, only which cells are written and what scrolling does  *)
(* to them.  hist_copy_from is a sequence of put_char calls.               *)
(***************************************************************************)
EXTENDS Integers, Sequences

CONSTANTS WIDTH, HEIGHT,  \* 80 and 25 in the code
          BUFFER_LIMIT,   \* 128
          TabSize,        \* 8
          Chars,          \* printable characters
          Counts          \* the counts that programs read with

ASSUME TerminalAssumption ==
    /\ WIDTH \in Nat /\ HEIGHT \in Nat /\ BUFFER_LIMIT \in Nat /\ TabSize \in Nat
    /\ 1 <= TabSize /\ TabSize < WIDTH
    /\ 1 <= BUFFER_LIMIT /\ BUFFER_LIMIT <= WIDTH * (HEIGHT - 1)
    /\ Counts \subseteq Nat
    /\ "nul" \notin Chars

NewLine == "nl"
Nul == "nul"
Space == "space"

VARIABLES
    shown,      \* curr_terminal is this terminal
    curr_x, curr_y,
    line,       \* linebuffer, up to linelength
    lastline,   \* lastlinebuffer, up to lastlinelength
    rd,         \* an entered line waits to be read
    rpc,        \* where the process is in terminal_read
    i,          \* its loop index
    count, buf, \* its arguments
    \* what the properties remember
    entered,    \* the line entered last, until it is read or cleared
    fresh,      \* it was not read yet
    torn,       \* Enter or Ctrl-L since the reader saw rd
    tabbed,     \* a tab was typed
    faults      \* writes out of bounds; nothing is modelled behind one

cursor == <<curr_x, curr_y>>
lines == <<line, lastline, rd>>
reader == <<rpc, i, count, buf>>
ghosts == <<entered, fresh, torn, tabbed, faults>>
vars == <<shown, cursor, lines, reader, ghosts>>

Bytes == Chars \cup {NewLine, Nul, Space}

(* scroll_line keeps the cursor in a row of the screen, and the buffers    *)
(* hold only what keys, programs and the handlers put there.               *)
TypeOK ==
    /\ shown \in BOOLEAN /\ rd \in BOOLEAN
    /\ curr_x \in - (BUFFER_LIMIT + TabSize) .. WIDTH
    /\ curr_y \in 0 .. HEIGHT - 1
    /\ line \in Seq(Chars \cup {Space})
    /\ lastline \in Seq(Bytes) /\ buf \in Seq(Bytes) /\ entered \in Seq(Bytes)
    /\ rpc \in {"idle", "wait", "copy", "clear", "store"}
    /\ i \in Nat /\ count \in Nat
    /\ fresh \in BOOLEAN /\ torn \in BOOLEAN /\ tabbed \in BOOLEAN
    /\ faults \subseteq {"buffer", "screen"}

(* terminal_open; the first terminal is the one shown.                     *)
Init ==
    /\ shown \in BOOLEAN
    /\ curr_x = 0 /\ curr_y = 0
    /\ line = <<>> /\ lastline = <<>> /\ rd = FALSE
    /\ rpc = "idle" /\ i = 0 /\ count = 0 /\ buf = <<>>
    /\ entered = <<>> /\ fresh = FALSE /\ torn = FALSE
    /\ tabbed = FALSE /\ faults = {}

-----------------------------------------------------------------------------
(* Cells and positions.  Cell WIDTH * HEIGHT, just below the screen, still *)
(* lies in the 4 KB page of video memory.                                  *)
INDEX(x, y) == x + WIDTH * y
InPage(cell) == 0 <= cell /\ cell <= WIDTH * HEIGHT

Room_OneMore == Len(line) <= BUFFER_LIMIT
Room == Len(line) < BUFFER_LIMIT
InBuffer(n) == n <= BUFFER_LIMIT + 1       \* n bytes fit in the array

(* A cursor right of the screen moves to the start of the next row.        *)
Wrap(x, y) == IF x >= WIDTH THEN <<0, y + 1>> ELSE <<x, y>>

(* put_char wraps only when there is room in the line.                     *)
KeyWrap(x) == IF Room THEN Wrap(x, curr_y) ELSE <<x, curr_y>>

(* scroll_line: rows move up until the cursor is on the last one.          *)
MoveTo(x, y) ==
    /\ curr_x' = x
    /\ curr_y' = IF y >= HEIGHT THEN HEIGHT - 1 ELSE y

Writes(bytes, cells) ==
    faults' = faults \cup (IF InBuffer(bytes) THEN {} ELSE {"buffer"})
                     \cup (IF \A c \in cells : InPage(c) THEN {} ELSE {"screen"})

(* A cell stays on the screen when the rows scroll up to make y the last.  *)
Visible(cell, y) ==
    LET rows == IF y >= HEIGHT THEN y - HEIGHT + 1 ELSE 0
    IN  WIDTH * rows <= cell /\ cell < WIDTH * HEIGHT

-----------------------------------------------------------------------------
(* put_char, by the key.  The keyboard acts on the terminal shown.         *)
Keyboard == shown /\ faults = {}
Reading == rpc \in {"copy", "clear", "store"}

KeyChar_CellLate(c) ==     \* one column too far after a wrap
    /\ Keyboard /\ Room
    /\ LET w == KeyWrap(curr_x + 1) IN MoveTo(w[1] + 1, w[2])
    /\ line' = Append(line, c)
    /\ Writes(Len(line) + 1, {INDEX(curr_x, curr_y)})
    /\ UNCHANGED <<shown, lastline, rd, reader, entered, fresh, torn, tabbed>>

(* The cell was computed before the cursor wrapped.                        *)
KeyChar(c) ==
    /\ Keyboard /\ Room
    /\ LET w == KeyWrap(curr_x) IN MoveTo(w[1] + 1, w[2])
    /\ line' = Append(line, c)
    /\ Writes(Len(line) + 1, {INDEX(curr_x, curr_y)})
    /\ UNCHANGED <<shown, lastline, rd, reader, entered, fresh, torn, tabbed>>

Blanks == [k \in 1 .. TabSize |-> Space]
KeyTab ==
    /\ Keyboard /\ Room
    /\ LET w == KeyWrap(curr_x + TabSize) IN MoveTo(w[1], w[2])
    /\ line' = line \o Blanks
    /\ Writes(Len(line) + TabSize, {})
    /\ tabbed' = TRUE
    /\ UNCHANGED <<shown, lastline, rd, reader, entered, fresh, torn>>

KeyBackspace_Unguarded ==     \* moves back even on an empty line
    /\ Keyboard
    /\ LET w == KeyWrap(curr_x)
           x == w[1] - 1
       IN  MoveTo(x, w[2]) /\ Writes(Len(line), {INDEX(x, w[2])})
    /\ line' = IF line = <<>> THEN line ELSE SubSeq(line, 1, Len(line) - 1)
    /\ UNCHANGED <<shown, lastline, rd, reader, entered, fresh, torn, tabbed>>
KeyBackspace ==
    /\ Keyboard
    /\ LET w == KeyWrap(curr_x)
           x == IF line = <<>> THEN w[1] ELSE w[1] - 1
       IN  MoveTo(x, w[2]) /\ Writes(Len(line), {INDEX(x, w[2])})
    /\ line' = IF line = <<>> THEN line ELSE SubSeq(line, 1, Len(line) - 1)
    /\ UNCHANGED <<shown, lastline, rd, reader, entered, fresh, torn, tabbed>>

KeyEnter ==
    /\ Keyboard
    /\ LET w == KeyWrap(curr_x) IN MoveTo(0, w[2] + 1)
    /\ lastline' = Append(line, NewLine)
    /\ line' = <<>>
    /\ rd' = TRUE
    /\ Writes(Len(line) + 1, {})
    /\ entered' = Append(line, NewLine) /\ fresh' = TRUE /\ torn' = (torn \/ Reading)
    /\ UNCHANGED <<shown, reader, tabbed>>

(* A key without a printable character.                                    *)
KeyOther ==
    /\ Keyboard
    /\ LET w == KeyWrap(curr_x) IN MoveTo(w[1], w[2])
    /\ UNCHANGED <<shown, lines, reader, ghosts>>

(* Ctrl-L: clear_terminal, which returns early when the cursor is outside  *)
(* the columns of the screen.                                              *)
ClearRefused == curr_x < 0 \/ curr_x >= WIDTH

KeyClear ==
    /\ Keyboard /\ ~ClearRefused
    /\ curr_x' = 0 /\ curr_y' = 0
    /\ line' = <<>> /\ lastline' = <<>> /\ rd' = FALSE
    /\ torn' = (torn \/ Reading) /\ fresh' = FALSE /\ entered' = <<>>
    /\ UNCHANGED <<shown, reader, tabbed, faults>>

KeyClearNothing ==
    /\ Keyboard /\ ClearRefused
    /\ UNCHANGED vars

(* Alt-F1 to Alt-F3.                                                       *)
SwitchTerminals ==
    /\ shown' = ~shown
    /\ faults = {}
    /\ UNCHANGED <<cursor, lines, reader, ghosts>>

-----------------------------------------------------------------------------
(* The process of this terminal.                                           *)

(* terminal_write, one character at a time.  A longer write is a sequence  *)
(* of these: it ends, as each of them does, with linelength = 0.           *)
Write(c) ==
    /\ rpc = "idle" /\ faults = {}
    /\ LET w == Wrap(curr_x, curr_y)
       IN  IF c = NewLine
           THEN MoveTo(0, w[2] + 1) /\ Writes(0, {})
           ELSE MoveTo(w[1] + 1, w[2]) /\ Writes(0, {INDEX(curr_x, curr_y)})
    /\ line' = <<>>
    /\ UNCHANGED <<shown, lastline, rd, reader, entered, fresh, torn, tabbed>>

(* Of an empty buffer, or one of zero bytes.                               *)
WriteNothing ==
    /\ rpc = "idle" /\ faults = {}
    /\ line' = <<>>
    /\ UNCHANGED <<shown, cursor, lastline, rd, reader, ghosts>>

(* terminal_read: spin on rd, ...                                          *)
ReadCall(n) ==
    /\ rpc = "idle" /\ faults = {}
    /\ rpc' = "wait" /\ count' = n /\ buf' = <<>> /\ i' = 0
    /\ UNCHANGED <<shown, cursor, lines, ghosts>>

ReadWait ==
    /\ rpc = "wait" /\ rd /\ faults = {}
    /\ rpc' = "copy" /\ torn' = FALSE
    /\ UNCHANGED <<shown, cursor, lines, i, count, buf, entered, fresh, tabbed, faults>>

(* ... copy and zero the bytes asked for, ...                              *)
Copying_IgnoresCount == i < Len(lastline) /\ lastline[i + 1] # Nul
Copying == i < Len(lastline) /\ i < count /\ lastline[i + 1] # Nul

ReadCopy ==
    /\ rpc = "copy" /\ faults = {}
    /\ IF Copying
       THEN /\ buf' = Append(buf, lastline[i + 1])
            /\ lastline' = [lastline EXCEPT ![i + 1] = Nul]
            /\ i' = i + 1 /\ rpc' = rpc
       ELSE /\ rpc' = "clear" /\ i' = count
            /\ UNCHANGED <<buf, lastline>>
    /\ UNCHANGED <<shown, cursor, line, rd, count, ghosts>>

(* ... zero the rest, ...                                                  *)
ReadClear_NoStep ==     \* the index is not advanced
    /\ rpc = "clear" /\ faults = {}
    /\ IF i < Len(lastline)
       THEN lastline' = [lastline EXCEPT ![i + 1] = Nul] /\ UNCHANGED <<rpc, i>>
       ELSE rpc' = "store" /\ UNCHANGED <<lastline, i>>
    /\ UNCHANGED <<shown, cursor, line, rd, count, buf, ghosts>>
ReadClear ==
    /\ rpc = "clear" /\ faults = {}
    /\ IF i < Len(lastline)
       THEN /\ lastline' = [lastline EXCEPT ![i + 1] = Nul]
            /\ i' = i + 1 /\ rpc' = rpc
       ELSE rpc' = "store" /\ UNCHANGED <<lastline, i>>
    /\ UNCHANGED <<shown, cursor, line, rd, count, buf, ghosts>>

(* ... and, under cli, mark the line as read.                              *)
ReadStore ==
    /\ rpc = "store" /\ faults = {}
    /\ rd' = FALSE /\ lastline' = <<>>
    /\ rpc' = "idle" /\ i' = 0 /\ count' = 0 /\ buf' = <<>>
    /\ fresh' = FALSE /\ entered' = <<>>
    /\ UNCHANGED <<shown, cursor, line, torn, tabbed, faults>>

-----------------------------------------------------------------------------
Key ==
    \/ \E c \in Chars : KeyChar(c)
    \/ KeyTab \/ KeyBackspace \/ KeyEnter \/ KeyOther \/ KeyClear \/ KeyClearNothing

ReadStep == ReadWait \/ ReadCopy \/ ReadClear \/ ReadStore

Next ==
    \/ Key
    \/ SwitchTerminals
    \/ \E c \in Chars \cup {NewLine} : Write(c)
    \/ WriteNothing
    \/ \E n \in Counts : ReadCall(n)
    \/ ReadStep
    \/ faults # {} /\ UNCHANGED vars

Spec == Init /\ [][Next]_vars

(* A process that reads is given the CPU again and again (NoStarvation).   *)
FairSpec == Spec /\ WF_vars(ReadStep)

-----------------------------------------------------------------------------
Prefix(s, n) == SubSeq(s, 1, IF n < Len(s) THEN n ELSE Len(s))

(* terminal_read returns the line entered last, or as much of it as was    *)
(* asked for, although the keyboard interrupts it, unless Enter or Ctrl-L  *)
(* hits its copy loop; and no line is read twice: the reader leaves its    *)
(* spin loop for a line that was entered since the last read ended.        *)
ReadsEnteredLine ==
    /\ rpc \in {"clear", "store"} /\ ~torn => buf = Prefix(entered, count)
    /\ rpc = "wait" /\ rd => fresh

(* The cursor never leaves the rows of the screen.  As long as no tab is   *)
(* typed, what lies between the cursor and the start of the line being     *)
(* typed is at least as long as the line: put_char can erase the line      *)
(* without leaving the screen, however lines wrap, scroll and mix with     *)
(* output.                                                                 *)
LineOnScreen ==
    /\ TypeOK
    /\ ~tabbed => /\ Len(line) <= INDEX(curr_x, curr_y)
                  /\ INDEX(curr_x, curr_y) <= WIDTH * HEIGHT

(* Without tabs no write of put_char, put_char_out or terminal_read leaves *)
(* linebuffer or the page of video memory.                                 *)
NoFaultWithoutTab == faults # {} => tabbed

(* put_char shows the pressed character: its cell is still on the screen   *)
(* when the line has scrolled, save for one at the right edge of the last  *)
(* row, which is written below the screen and lost.                        *)
ShowsKey ==
    [][\A c \in Chars :
          KeyChar(c) /\ ~(curr_x = WIDTH /\ curr_y = HEIGHT - 1) =>
              /\ INDEX(curr_x', curr_y') = INDEX(curr_x, curr_y) + 1
              /\ Visible(INDEX(curr_x, curr_y), KeyWrap(curr_x)[2])]_vars

(* A read of a line that was entered returns, unless Ctrl-L takes the line *)
(* back first.                                                             *)
ReadReturns == rpc # "idle" /\ rd ~> rpc = "idle" \/ ~rd \/ faults # {}

-----------------------------------------------------------------------------
(* What the repository says of the program and the code does not keep: the *)
(* keyboard never writes outside linebuffer.                               *)
BufferInBounds == "buffer" \notin faults
=============================================================================
