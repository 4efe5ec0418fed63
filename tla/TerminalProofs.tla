--------------------------- MODULE TerminalProofs ---------------------------
(***************************************************************************)
(* The safety properties of Terminal for every size of the screen, of the  *)
(* line and of the tab, for every set of characters and of counts.         *)
(*                                                                         *)
(* Two invariants are inductive.  CursorInv relates the cursor to the line *)
(* being typed: what put_char can erase lies on the screen.  ReaderInv     *)
(* says how far the copy loop of terminal_read has come.                   *)
(***************************************************************************)
EXTENDS Terminal, SequenceTheorems, TLAPS

USE SMTT(60)

Longest == BUFFER_LIMIT + TabSize
Here == INDEX(curr_x, curr_y)

CursorInv ==
    /\ Len(line) <= Longest /\ Len(line) - Longest <= curr_x
    /\ faults = {} => 0 <= Here
    /\ ~tabbed => Len(line) <= BUFFER_LIMIT /\ Len(line) <= Here /\ faults = {}

ReaderInv ==
    /\ \A k \in 1 .. Len(entered) : entered[k] # Nul
    /\ rd => fresh
    /\ rpc \in {"idle", "wait"} /\ rd => lastline = entered
    /\ rpc = "wait" => i = 0 /\ buf = <<>>
    /\ rpc = "copy" /\ ~torn =>
         /\ i <= count /\ i <= Len(entered) /\ Len(lastline) = Len(entered)
         /\ Len(buf) = i /\ \A k \in 1 .. i : buf[k] = entered[k]
         /\ \A k \in i + 1 .. Len(entered) : lastline[k] = entered[k]
    /\ rpc \in {"clear", "store"} /\ ~torn => buf = Prefix(entered, count)

-----------------------------------------------------------------------------
(* Rows lie one behind the other.                                          *)
LEMMA RowNext ==
    ASSUME NEW y \in Int
    PROVE  WIDTH * y \in Int /\ WIDTH * (y + 1) = WIDTH * y + WIDTH
BY TerminalAssumption

LEMMA RowOrder ==
    ASSUME NEW y \in Int, NEW z \in Int, y <= z
    PROVE  WIDTH * y <= WIDTH * z
BY TerminalAssumption

(* There is a row to scroll to.                                            *)
LEMMA Screen == HEIGHT >= 2 /\ WIDTH >= 2 /\ WIDTH * 0 = 0
<1>1. WIDTH * 0 = 0
  BY TerminalAssumption
<1>2. ASSUME HEIGHT <= 1 PROVE FALSE
  <2>1. WIDTH * (HEIGHT - 1) <= WIDTH * 0
    BY <1>2, RowOrder, TerminalAssumption
  <2> QED
    BY <1>1, <2>1, TerminalAssumption
<1> QED
  BY <1>1, <1>2, TerminalAssumption

-----------------------------------------------------------------------------
(* Where the cursor goes.                                                  *)

(* A wrapped position is the same cell; it is in a column of the screen,   *)
(* and below the screen only behind the last cell.                         *)
LEMMA Wrapped ==
    ASSUME TypeOK, NEW w, w = Wrap(curr_x, curr_y) \/ w = KeyWrap(curr_x)
    PROVE  /\ w[1] \in Int /\ w[1] <= WIDTH /\ w[2] \in 0 .. HEIGHT
           /\ w[1] = curr_x \/ w[1] = 0
           /\ INDEX(w[1], w[2]) = Here
           /\ w[2] = HEIGHT => w[1] = 0
           /\ w = Wrap(curr_x, curr_y) \/ Room => w[1] < WIDTH
<1>1. curr_x \in Int /\ curr_x <= WIDTH /\ curr_y \in 0 .. HEIGHT - 1
      /\ WIDTH \in Nat /\ HEIGHT \in Nat
  BY TerminalAssumption DEF TypeOK
<1>2. WIDTH * curr_y \in Int /\ WIDTH * (curr_y + 1) = WIDTH * curr_y + WIDTH
  BY <1>1, RowNext
<1>3. w = <<curr_x, curr_y>> \/ (curr_x = WIDTH /\ w = <<0, curr_y + 1>>)
  BY <1>1 DEF Wrap, KeyWrap
<1>4. w = Wrap(curr_x, curr_y) \/ Room => w[1] < WIDTH
  BY <1>1, Screen DEF Wrap, KeyWrap
<1>5. CASE w = <<curr_x, curr_y>>
  <2>1. w[1] = curr_x /\ w[2] = curr_y
    BY <1>5
  <2> QED
    BY <1>1, <1>4, <2>1 DEF INDEX, Here
<1>6. CASE curr_x = WIDTH /\ w = <<0, curr_y + 1>>
  <2>1. w[1] = 0 /\ w[2] = curr_y + 1
    BY <1>6
  <2>2. INDEX(w[1], w[2]) = Here
    BY <1>1, <1>2, <1>6, <2>1 DEF INDEX, Here
  <2> QED
    BY <1>1, <1>4, <1>6, <2>1, <2>2
<1> QED
  BY <1>3, <1>5, <1>6

(* The cells of the screen, and those above its last row.                  *)
Cells == WIDTH * HEIGHT
LastRow == WIDTH * (HEIGHT - 1)

LEMMA RowEnds ==
    /\ LastRow \in Int /\ Cells = LastRow + WIDTH
    /\ 1 <= BUFFER_LIMIT /\ BUFFER_LIMIT <= LastRow
<1>1. HEIGHT - 1 \in Int /\ (HEIGHT - 1) + 1 = HEIGHT
  BY TerminalAssumption
<1>2. LastRow \in Int /\ WIDTH * ((HEIGHT - 1) + 1) = LastRow + WIDTH
  BY <1>1, RowNext DEF LastRow
<1>3. Cells = LastRow + WIDTH
  BY <1>1, <1>2 DEF Cells
<1> QED
  BY <1>2, <1>3, TerminalAssumption DEF LastRow

(* MoveTo keeps the cell, or the column when it scrolls.                   *)
LEMMA Moved ==
    ASSUME NEW x \in Int, NEW y \in 0 .. HEIGHT, MoveTo(x, y)
    PROVE  /\ curr_x' = x /\ curr_y' \in 0 .. HEIGHT - 1
           /\ \/ y < HEIGHT /\ Here' = INDEX(x, y)
              \/ y = HEIGHT /\ Here' = x + LastRow
           /\ x <= WIDTH => Here' <= Cells
           /\ x <= Here'
<1>1. curr_x' = x /\ curr_y' = (IF y >= HEIGHT THEN HEIGHT - 1 ELSE y)
      /\ HEIGHT \in Nat /\ HEIGHT >= 2 /\ y \in Int /\ WIDTH \in Nat
  BY Screen, TerminalAssumption DEF MoveTo
<1>2. curr_y' \in 0 .. HEIGHT - 1
  BY <1>1
<1>3. Here' = x + WIDTH * curr_y'
  BY <1>1 DEF Here, INDEX
<1>4. /\ WIDTH * 0 <= WIDTH * curr_y' /\ WIDTH * 0 = 0
      /\ WIDTH * curr_y' <= LastRow /\ WIDTH * curr_y' \in Int
  BY <1>1, <1>2, RowOrder, RowNext, Screen DEF LastRow
<1>5. \/ y < HEIGHT /\ Here' = INDEX(x, y)
      \/ y = HEIGHT /\ Here' = x + LastRow
  BY <1>1, <1>3 DEF INDEX, LastRow
<1> QED
  BY <1>1, <1>2, <1>3, <1>4, <1>5, RowEnds

(* Faults are recorded by Writes alone.                                    *)
LEMMA Written ==
    ASSUME faults = {}, NEW bytes, NEW cells, Writes(bytes, cells)
    PROVE  /\ faults' \subseteq {"buffer", "screen"}
           /\ InBuffer(bytes) /\ (\A c \in cells : InPage(c)) => faults' = {}
           /\ faults' = {} => \A c \in cells : InPage(c)
BY DEF Writes

(* What the keys do to the line.                                           *)
Shorter(s) == SubSeq(s, 1, Len(s) - 1)

LEMMA Typed ==
    ASSUME NEW S, NEW s \in Seq(S), NEW c \in S
    PROVE  /\ Len(s) \in Nat
           /\ Append(s, c) \in Seq(S) /\ Len(Append(s, c)) = Len(s) + 1
           /\ s # <<>> => /\ Shorter(s) \in Seq(S) /\ Len(Shorter(s)) = Len(s) - 1
                          /\ 1 <= Len(s)
<1>1. Len(s) \in Nat /\ Append(s, c) \in Seq(S) /\ Len(Append(s, c)) = Len(s) + 1
  OBVIOUS
<1>2. ASSUME s # <<>>
      PROVE  Shorter(s) \in Seq(S) /\ Len(Shorter(s)) = Len(s) - 1 /\ 1 <= Len(s)
  <2>1. Len(s) \in Nat \ {0}
    BY <1>2, EmptySeq
  <2>2. \A k \in 1 .. Len(s) - 1 : s[k] \in S
    BY <2>1, ElementOfSeq
  <2> DEFINE last == Len(s) - 1
  <2>3. last \in Int /\ \A k \in 1 .. last : s[k] \in S
    BY <2>1, <2>2
  <2> HIDE DEF last
  <2>4. /\ SubSeq(s, 1, last) \in Seq(S)
        /\ Len(SubSeq(s, 1, last)) = IF 1 <= last THEN last - 1 + 1 ELSE 0
    BY <2>3, SubSeqProperties
  <2>5. Shorter(s) = SubSeq(s, 1, last)
    BY Zenon DEF Shorter, last
  <2>6. Len(Shorter(s)) = IF 1 <= last THEN last - 1 + 1 ELSE 0
    BY <2>4, <2>5, Zenon
  <2>7. last = Len(s) - 1
    BY DEF last
  <2>8. Len(Shorter(s)) = Len(s) - 1 /\ 1 <= Len(s)
    BY <2>1, <2>3, <2>6, <2>7
  <2> QED
    BY <2>4, <2>5, <2>8, Zenon
<1> QED
  BY <1>1, <1>2

LEMMA Tabbed ==
    ASSUME NEW S, NEW s \in Seq(S), Space \in S
    PROVE  s \o Blanks \in Seq(S) /\ Len(s \o Blanks) = Len(s) + TabSize
<1>1. Blanks \in Seq(S) /\ Len(Blanks) = TabSize
  BY TerminalAssumption DEF Blanks
<1>2. s \o Blanks \in Seq(S) /\ Len(s \o Blanks) = Len(s) + Len(Blanks)
  BY <1>1, ConcatProperties, Zenon
<1> QED
  BY <1>1, <1>2

-----------------------------------------------------------------------------
(* The cursor and the line being typed.                                    *)

CursorType ==
    /\ curr_x \in - Longest .. WIDTH /\ curr_y \in 0 .. HEIGHT - 1
    /\ line \in Seq(Chars \cup {Space})
    /\ tabbed \in BOOLEAN /\ faults \subseteq {"buffer", "screen"}

(* The sizes, as far as the steps below compare them.                      *)
Sizes ==
    /\ WIDTH \in Int /\ HEIGHT \in Int /\ 2 <= WIDTH /\ 2 <= HEIGHT
    /\ BUFFER_LIMIT \in Int /\ 1 <= BUFFER_LIMIT
    /\ TabSize \in Int /\ 1 <= TabSize
    /\ Longest \in Int /\ Longest = BUFFER_LIMIT + TabSize
    /\ LastRow \in Int /\ BUFFER_LIMIT <= LastRow
    /\ Cells \in Int /\ Cells = LastRow + WIDTH

LEMMA SizesHold == Sizes
<1>1. /\ WIDTH \in Int /\ HEIGHT \in Int /\ 2 <= WIDTH /\ 2 <= HEIGHT
      /\ BUFFER_LIMIT \in Int /\ TabSize \in Int /\ 1 <= TabSize
      /\ Longest \in Int /\ Longest = BUFFER_LIMIT + TabSize
  BY TerminalAssumption, Screen DEF Longest
<1> QED
  BY <1>1, RowEnds DEF Sizes

(* The place of the cursor, h, and the length of the line, n.              *)
Placed(x, h, n, tab) ==
    /\ x \in Int /\ x <= WIDTH /\ n - Longest <= x
    /\ h \in Int /\ 0 <= h /\ h <= Cells
    /\ n \in Int /\ 0 <= n /\ n <= Longest
    /\ ~tab => n <= BUFFER_LIMIT /\ n <= h

LEMMA Before ==
    ASSUME TypeOK, CursorInv, faults = {}
    PROVE  /\ Placed(curr_x, Here, Len(line), tabbed)
           /\ curr_y \in 0 .. HEIGHT - 1 /\ line \in Seq(Chars \cup {Space})
           /\ tabbed \in BOOLEAN
<1>1. /\ Len(line) \in Nat /\ line \in Seq(Chars \cup {Space})
      /\ curr_x \in Int /\ curr_x <= WIDTH /\ curr_y \in 0 .. HEIGHT - 1
      /\ tabbed \in BOOLEAN
  BY TerminalAssumption DEF TypeOK
<1>2. WIDTH * curr_y \in Int /\ WIDTH * curr_y <= LastRow
  BY <1>1, SizesHold, RowNext, RowOrder DEF LastRow, Sizes
<1>3. Here = curr_x + WIDTH * curr_y
  BY DEF Here, INDEX
<1>4. Here \in Int /\ Here <= Cells
  BY <1>1, <1>2, <1>3, SizesHold DEF Sizes
<1> QED
  BY <1>1, <1>4 DEF CursorInv, Placed

(* What a step has to establish for the cursor.                            *)
LEMMA After ==
    ASSUME line' \in Seq(Chars \cup {Space}), tabbed' \in BOOLEAN,
           faults' \subseteq {"buffer", "screen"}, curr_y' \in 0 .. HEIGHT - 1,
           NEW x, NEW h, NEW n, curr_x' = x, Here' = h, Len(line') = n,
           x \in Int, x <= WIDTH, n - Longest <= x, n \in Int, 0 <= n, n <= Longest,
           faults' = {} => 0 <= h,
           ~tabbed' => n <= BUFFER_LIMIT /\ n <= h /\ faults' = {}
    PROVE  CursorType' /\ CursorInv'
<1>1. - Longest <= x
  BY SizesHold DEF Sizes
<1>2. x \in - Longest .. WIDTH
  BY <1>1, SizesHold DEF Sizes
<1>3. CursorType'
  BY <1>2, SizesHold DEF CursorType, Sizes
<1>4. CursorInv'
  BY DEF CursorInv
<1> QED
  BY <1>3, <1>4

LEMMA CursorKeyChar ==
    ASSUME TypeOK, CursorInv, NEW c \in Chars, KeyChar(c)
    PROVE  CursorType' /\ CursorInv'
<1>0. faults = {} /\ Room
  BY DEF KeyChar, Keyboard
<1> DEFINE w == KeyWrap(curr_x)
           n == Len(line)
           x == w[1]
           h == Here
<1>1. /\ x \in Int /\ x < WIDTH /\ w[2] \in 0 .. HEIGHT
      /\ x = curr_x \/ x = 0
      /\ INDEX(x, w[2]) = Here
      /\ w[2] = HEIGHT => x = 0
  BY <1>0, Wrapped
<1>2. MoveTo(x + 1, w[2])
  BY DEF KeyChar
<1>3. Placed(curr_x, h, n, tabbed) /\ n < BUFFER_LIMIT /\ tabbed \in BOOLEAN
  BY <1>0, Before DEF Room
<1>4. line' \in Seq(Chars \cup {Space}) /\ Len(line') = n + 1
  BY <1>0, Before, Typed DEF KeyChar
<1>5. faults' = {} /\ tabbed' = tabbed
  <2>1. Writes(n + 1, {h}) /\ UNCHANGED tabbed
    BY DEF KeyChar, Here
  <2> HIDE DEF w, n, x, h
  <2>2. InBuffer(n + 1)
    BY <1>3, SizesHold DEF InBuffer, Placed, Sizes
  <2>3. \A d \in {h} : InPage(d)
    BY <1>3 DEF InPage, Cells, Placed
  <2> QED
    BY <1>0, <2>1, <2>2, <2>3, Written
<1>6. /\ curr_x' = x + 1 /\ curr_y' \in 0 .. HEIGHT - 1
      /\ \/ w[2] < HEIGHT /\ Here' = INDEX(x + 1, w[2])
         \/ w[2] = HEIGHT /\ Here' = (x + 1) + LastRow
  <2> HIDE DEF w, x
  <2>1. x + 1 \in Int
    BY <1>1
  <2> QED
    BY <1>1, <1>2, <2>1, Moved
<1>7. Here' = h + 1 \/ Here' = 1 + LastRow
  <2>1. w[2] \in Int
    BY <1>1, SizesHold DEF Sizes
  <2> HIDE DEF w, x
  <2>2. WIDTH * w[2] \in Int
    BY <2>1, RowNext
  <2>3. INDEX(x + 1, w[2]) = INDEX(x, w[2]) + 1
    BY <1>1, <2>2 DEF INDEX
  <2>4. CASE w[2] < HEIGHT
    BY <1>1, <1>6, <2>1, <2>3, <2>4, SizesHold DEF Sizes
  <2>5. CASE w[2] = HEIGHT
    BY <1>1, <1>6, <2>5, SizesHold DEF Sizes
  <2> QED
    BY <1>6, <2>4, <2>5
<1> DEFINE h2 == Here'
<1> HIDE DEF w, n, x, h, h2
<1>8. /\ x + 1 \in Int /\ x + 1 <= WIDTH /\ (n + 1) - Longest <= x + 1
      /\ n + 1 \in Int /\ 0 <= n + 1 /\ n + 1 <= Longest /\ n + 1 <= BUFFER_LIMIT
  BY <1>1, <1>3, SizesHold DEF Placed, Sizes
<1>9. 0 <= h2 /\ (~tabbed => n + 1 <= h2)
  <2>1. h2 = h + 1 \/ h2 = 1 + LastRow
    BY <1>7 DEF h2
  <2> QED
    BY <1>3, <2>1, SizesHold DEF Placed, Sizes
<1>10. Here' = h2
  BY DEF h2
<1> QED
  BY <1>3, <1>4, <1>5, <1>6, <1>8, <1>9, <1>10, After

LEMMA CursorKeyTab ==
    ASSUME TypeOK, CursorInv, KeyTab
    PROVE  CursorType' /\ CursorInv'
<1>0. faults = {} /\ Room
  BY DEF KeyTab, Keyboard
<1> DEFINE w == KeyWrap(curr_x + TabSize)
           n == Len(line)
           h == Here
           x == w[1]
<1>1. \/ w = <<curr_x + TabSize, curr_y>> /\ curr_x + TabSize < WIDTH
      \/ w = <<0, curr_y + 1>>
  BY <1>0, Before, SizesHold DEF KeyWrap, Wrap, Placed, Sizes
<1>2. MoveTo(x, w[2])
  BY DEF KeyTab
<1>3. Placed(curr_x, h, n, tabbed) /\ n < BUFFER_LIMIT /\ curr_y \in 0 .. HEIGHT - 1
  BY <1>0, Before DEF Room
<1>4. line' \in Seq(Chars \cup {Space}) /\ Len(line') = n + TabSize
  BY <1>0, Before, Tabbed DEF KeyTab
<1>5. faults' \subseteq {"buffer", "screen"} /\ tabbed' = TRUE
  BY <1>0, Written DEF KeyTab
<1>6. /\ w[2] = curr_y \/ w[2] = curr_y + 1
      /\ x = 0 \/ (x = curr_x + TabSize /\ x < WIDTH /\ w[2] = curr_y)
  BY <1>1
<1> HIDE DEF w, n, x, h
<1>7. x \in Int /\ x <= WIDTH /\ w[2] \in 0 .. HEIGHT
  BY <1>3, <1>6, SizesHold DEF Placed, Sizes
<1>8. /\ curr_x' = x /\ curr_y' \in 0 .. HEIGHT - 1
      /\ \/ w[2] < HEIGHT /\ Here' = INDEX(x, w[2])
         \/ w[2] = HEIGHT /\ Here' = x + LastRow
      /\ x <= Here'
  BY <1>2, <1>7, Moved
<1>9. 0 <= Here'
  <2>1. CASE x = 0
    BY <1>8, <2>1
  <2>2. CASE x = curr_x + TabSize /\ w[2] = curr_y
    <3>1. curr_y \in Int /\ w[2] < HEIGHT
      BY <1>3, <2>2, SizesHold DEF Sizes
    <3>2. WIDTH * curr_y \in Int /\ h = curr_x + WIDTH * curr_y
      BY <3>1, RowNext DEF h, Here, INDEX
    <3>3. Here' = (curr_x + TabSize) + WIDTH * curr_y
      BY <1>8, <2>2, <3>1, SizesHold DEF INDEX, Sizes
    <3> QED
      BY <1>3, <3>2, <3>3, SizesHold DEF Placed, Sizes
  <2> QED
    BY <1>6, <2>1, <2>2
<1>10. /\ (n + TabSize) - Longest <= x
       /\ n + TabSize \in Int /\ 0 <= n + TabSize /\ n + TabSize <= Longest
  BY <1>3, <1>6, SizesHold DEF Placed, Sizes
<1> QED
  BY <1>4, <1>5, <1>7, <1>8, <1>9, <1>10, After

(* Two cells of a row are as far apart as their columns.                   *)
LEMMA SameRow ==
    ASSUME NEW x \in Int, NEW z \in Int, NEW y \in 0 .. HEIGHT
    PROVE  INDEX(z, y) \in Int /\ INDEX(z, y) - z = INDEX(x, y) - x
<1>1. y \in Int
  BY SizesHold DEF Sizes
<1>2. WIDTH * y \in Int
  BY <1>1, RowNext
<1> QED
  BY <1>2 DEF INDEX

LEMMA CursorKeyBackspace ==
    ASSUME TypeOK, CursorInv, KeyBackspace
    PROVE  CursorType' /\ CursorInv'
<1>0. faults = {}
  BY DEF KeyBackspace, Keyboard
<1> DEFINE w == KeyWrap(curr_x)
           v == w[1]
           x == IF line = <<>> THEN v ELSE v - 1
           n == Len(line)
           m == Len(line')
           h == Here
           h2 == Here'
           a == INDEX(x, w[2])
<1>1. /\ v \in Int /\ v <= WIDTH /\ w[2] \in 0 .. HEIGHT
      /\ v = curr_x \/ v = 0
      /\ INDEX(v, w[2]) = h
      /\ w[2] = HEIGHT => v = 0
  BY Wrapped
<1>2. MoveTo(x, w[2]) /\ Writes(n, {a})
  BY DEF KeyBackspace
<1>3. line' = (IF line = <<>> THEN line ELSE Shorter(line)) /\ tabbed' = tabbed
  BY DEF KeyBackspace, Shorter
<1>4. /\ Placed(curr_x, h, n, tabbed) /\ line \in Seq(Chars \cup {Space})
      /\ tabbed \in BOOLEAN
  BY <1>0, Before
<1>5. /\ line' \in Seq(Chars \cup {Space})
      /\ \/ x = v /\ m = n /\ n = 0
         \/ x = v - 1 /\ m = n - 1 /\ 1 <= n
  <2>1. CASE line = <<>>
    BY <1>3, <1>4, <2>1
  <2>2. CASE line # <<>>
    <3>1. Space \in Chars \cup {Space}
      OBVIOUS
    <3>2. Shorter(line) \in Seq(Chars \cup {Space}) /\ Len(Shorter(line)) = n - 1 /\ 1 <= n
      BY <1>4, <2>2, <3>1, Typed
    <3> QED
      BY <1>3, <2>2, <3>2
  <2> QED
    BY <2>1, <2>2
<1> HIDE DEF w, v, x, n, m, h
<1>6. x \in Int /\ x <= v
  BY <1>1, <1>5
<1>7. /\ curr_x' = x /\ curr_y' \in 0 .. HEIGHT - 1
      /\ \/ w[2] < HEIGHT /\ h2 = a
         \/ w[2] = HEIGHT /\ h2 = x + LastRow
  BY <1>1, <1>2, <1>6, Moved
<1>8. a \in Int /\ a - x = h - v
  BY <1>1, <1>6, SameRow
<1>9. h2 = Here' /\ m = Len(line')
  BY DEF h2, m
<1> HIDE DEF h2, a
<1>10. faults' \subseteq {"buffer", "screen"} /\ (faults' = {} => InPage(a))
       /\ (InBuffer(n) /\ InPage(a) => faults' = {})
  BY <1>0, <1>2, Written
<1>11. ~tabbed => faults' = {}
  <2> SUFFICES ASSUME ~tabbed PROVE faults' = {}
    OBVIOUS
  <2>1. 0 <= a /\ a <= Cells
    BY <1>1, <1>4, <1>5, <1>6, <1>8, SizesHold DEF Placed, Sizes
  <2>2. InBuffer(n)
    BY <1>4, SizesHold DEF InBuffer, Placed, Sizes
  <2> QED
    BY <1>10, <2>1, <2>2 DEF InPage, Cells
<1>12. faults' = {} => 0 <= a
  BY <1>10 DEF InPage
<1>13. /\ x <= WIDTH /\ m - Longest <= x
       /\ m \in Int /\ 0 <= m /\ m <= Longest /\ (~tabbed => m <= BUFFER_LIMIT)
  BY <1>1, <1>4, <1>5, SizesHold DEF Placed, Sizes
<1>14. (faults' = {} => 0 <= h2) /\ (~tabbed => m <= h2)
  <2>1. CASE h2 = a
    BY <1>1, <1>4, <1>5, <1>8, <1>12, <2>1, SizesHold DEF Placed, Sizes
  <2>2. CASE h2 = x + LastRow /\ v = 0
    BY <1>4, <1>5, <2>2, SizesHold DEF Placed, Sizes
  <2> QED
    BY <1>1, <1>7, <2>1, <2>2
<1> QED
  BY <1>3, <1>4, <1>5, <1>6, <1>7, <1>9, <1>10, <1>11, <1>13, <1>14, After

(* A step that empties the line, leaves no fault and moves to a place      *)
(* right of the start of a row.                                            *)
LEMMA CursorRestart ==
    ASSUME TypeOK, CursorInv, faults = {},
           NEW x \in 0 .. WIDTH, NEW y \in 0 .. HEIGHT, MoveTo(x, y),
           line' = <<>>, tabbed' = tabbed, faults' \subseteq {"buffer", "screen"},
           ~tabbed => faults' = {}
    PROVE  CursorType' /\ CursorInv'
<1> DEFINE h2 == Here'
<1>1. x \in Int /\ x <= WIDTH /\ 0 <= x
  BY SizesHold DEF Sizes
<1>2. Len(line') = 0 /\ line' \in Seq(Chars \cup {Space}) /\ tabbed \in BOOLEAN
  BY Before
<1>3. curr_x' = x /\ curr_y' \in 0 .. HEIGHT - 1 /\ x <= h2
  BY <1>1, Moved
<1>4. h2 = Here'
  OBVIOUS
<1> HIDE DEF h2
<1>5. h2 \in Int
  <2>1. INDEX(x, y) \in Int /\ x + LastRow \in Int
    BY <1>1, SameRow, SizesHold DEF Sizes
  <2> QED
    BY <1>1, <2>1, Moved DEF h2
<1>6. 0 <= h2 /\ 0 - Longest <= x /\ 0 <= Longest /\ 0 <= BUFFER_LIMIT
  BY <1>1, <1>3, <1>5, SizesHold DEF Sizes
<1> QED
  BY <1>1, <1>2, <1>3, <1>4, <1>6, After

(* scroll_line treats every row below the screen alike.                    *)
LEMMA MoveBelow ==
    ASSUME NEW x, NEW y \in 0 .. HEIGHT, MoveTo(x, y + 1)
    PROVE  \E z \in 0 .. HEIGHT : MoveTo(x, z)
<1>1. CASE y < HEIGHT
  <2>1. y + 1 \in 0 .. HEIGHT
    BY <1>1, SizesHold DEF Sizes
  <2> QED
    BY <2>1
<1>2. CASE y = HEIGHT
  <2>1. MoveTo(x, HEIGHT) /\ HEIGHT \in 0 .. HEIGHT
    BY <1>2, SizesHold DEF MoveTo, Sizes
  <2> QED
    BY <2>1
<1> QED
  BY <1>1, <1>2, SizesHold DEF Sizes

LEMMA CursorKeyEnter ==
    ASSUME TypeOK, CursorInv, KeyEnter
    PROVE  CursorType' /\ CursorInv'
<1>0. faults = {}
  BY DEF KeyEnter, Keyboard
<1> DEFINE y == KeyWrap(curr_x)[2]
           n == Len(line)
<1>1. MoveTo(0, y + 1) /\ line' = <<>> /\ tabbed' = tabbed /\ Writes(n + 1, {})
  BY DEF KeyEnter
<1>2. y \in 0 .. HEIGHT
  BY Wrapped
<1>3. Placed(curr_x, Here, n, tabbed)
  BY <1>0, Before
<1> HIDE DEF y, n
<1>4. faults' \subseteq {"buffer", "screen"} /\ (~tabbed => faults' = {})
  <2>1. ~tabbed => InBuffer(n + 1)
    BY <1>3, SizesHold DEF InBuffer, Placed, Sizes
  <2> QED
    BY <1>0, <1>1, <2>1, Written
<1>5. PICK z \in 0 .. HEIGHT : MoveTo(0, z)
  BY <1>1, <1>2, MoveBelow
<1>6. 0 \in 0 .. WIDTH
  BY SizesHold DEF Sizes
<1> QED
  BY <1>0, <1>1, <1>4, <1>5, <1>6, CursorRestart

LEMMA CursorKeyOther ==
    ASSUME TypeOK, CursorInv, KeyOther
    PROVE  CursorType' /\ CursorInv'
<1>0. faults = {} /\ line' = line /\ tabbed' = tabbed /\ faults' = faults
  BY DEF KeyOther, Keyboard, lines, ghosts
<1> DEFINE w == KeyWrap(curr_x)
           x == w[1]
           n == Len(line)
           h == Here
           h2 == Here'
<1>1. /\ x \in Int /\ x <= WIDTH /\ w[2] \in 0 .. HEIGHT
      /\ x = curr_x \/ x = 0
      /\ INDEX(x, w[2]) = h
      /\ w[2] = HEIGHT => x = 0
  BY Wrapped
<1>2. MoveTo(x, w[2])
  BY DEF KeyOther
<1>3. /\ Placed(curr_x, h, n, tabbed) /\ line \in Seq(Chars \cup {Space})
      /\ tabbed \in BOOLEAN
  BY <1>0, Before
<1> HIDE DEF w, x, n, h
<1>4. /\ curr_x' = x /\ curr_y' \in 0 .. HEIGHT - 1
      /\ \/ w[2] < HEIGHT /\ h2 = INDEX(x, w[2])
         \/ w[2] = HEIGHT /\ h2 = x + LastRow
  BY <1>1, <1>2, Moved
<1>5. h2 = Here' /\ Len(line') = n
  BY <1>0 DEF h2, n
<1> HIDE DEF h2
<1>6. h2 = h \/ h2 = LastRow
  BY <1>1, <1>4, SizesHold DEF Sizes
<1>7. 0 <= h2 /\ (~tabbed => n <= h2 /\ n <= BUFFER_LIMIT)
  BY <1>3, <1>6, SizesHold DEF Placed, Sizes
<1>8. n - Longest <= x /\ n \in Int /\ 0 <= n /\ n <= Longest
  BY <1>1, <1>3, SizesHold DEF Placed, Sizes
<1> QED
  BY <1>0, <1>1, <1>3, <1>4, <1>5, <1>7, <1>8, After

LEMMA CursorWrite ==
    ASSUME TypeOK, CursorInv, NEW c, Write(c)
    PROVE  CursorType' /\ CursorInv'
<1>0. faults = {} /\ line' = <<>> /\ tabbed' = tabbed
  BY DEF Write
<1> DEFINE w == Wrap(curr_x, curr_y)
           x == w[1]
           h == Here
           h2 == Here'
<1>1. /\ x \in Int /\ x < WIDTH /\ w[2] \in 0 .. HEIGHT
      /\ x = curr_x \/ x = 0
      /\ INDEX(x, w[2]) = h
      /\ w[2] = HEIGHT => x = 0
  BY Wrapped
<1>2. \/ MoveTo(0, w[2] + 1) /\ Writes(0, {})
      \/ MoveTo(x + 1, w[2]) /\ Writes(0, {h})
  BY DEF Write, Here
<1>3. Placed(curr_x, h, Len(line), tabbed) /\ tabbed \in BOOLEAN
  BY <1>0, Before
<1>4. h2 = Here'
  OBVIOUS
<1> HIDE DEF w, x, h, h2
<1>5. faults' = {}
  <2>1. InBuffer(0) /\ InPage(h)
    BY <1>3, SizesHold DEF InBuffer, InPage, Placed, Sizes, Cells
  <2> QED
    BY <1>0, <1>2, <2>1, Written
<1>6. CASE MoveTo(0, w[2] + 1)
  <2>1. PICK y \in 0 .. HEIGHT : MoveTo(0, y)
    BY <1>1, <1>6, MoveBelow
  <2>2. 0 \in 0 .. WIDTH
    BY SizesHold DEF Sizes
  <2> QED
    BY <1>0, <1>5, <2>1, <2>2, CursorRestart
<1>7. CASE MoveTo(x + 1, w[2])
  <2>1. CASE 0 <= x + 1
    <3>1. x + 1 \in 0 .. WIDTH
      BY <1>1, <2>1, SizesHold DEF Sizes
    <3> QED
      BY <1>0, <1>1, <1>5, <1>7, <3>1, CursorRestart
  <2>2. CASE x + 1 < 0
    <3>1. x + 1 \in Int /\ x = curr_x /\ w[2] # HEIGHT
      BY <1>1, <2>2
    <3>2. curr_x' = x + 1 /\ curr_y' \in 0 .. HEIGHT - 1 /\ h2 = INDEX(x + 1, w[2])
      BY <1>1, <1>4, <1>7, <3>1, Moved
    <3>3. INDEX(x + 1, w[2]) \in Int /\ INDEX(x + 1, w[2]) - (x + 1) = h - x
      BY <1>1, <3>1, SameRow
    <3>4. h2 = h + 1
      BY <1>1, <1>3, <3>2, <3>3 DEF Placed
    <3>5. Len(line') = 0 /\ line' \in Seq(Chars \cup {Space})
      BY <1>0
    <3>6. /\ x + 1 <= WIDTH /\ 0 - Longest <= x + 1 /\ 0 <= Longest
          /\ 0 <= BUFFER_LIMIT /\ 0 <= h2
      BY <1>1, <1>3, <3>1, <3>4, SizesHold DEF Placed, Sizes
    <3> QED
      BY <1>0, <1>3, <1>4, <1>5, <3>1, <3>2, <3>5, <3>6, After
  <2> QED
    BY <1>1, <2>1, <2>2
<1> QED
  BY <1>2, <1>6, <1>7

LEMMA CursorKeyClear ==
    ASSUME TypeOK, CursorInv, KeyClear
    PROVE  CursorType' /\ CursorInv'
<1>1. faults = {} /\ line' = <<>> /\ tabbed' = tabbed /\ faults' = faults
      /\ curr_x' = 0 /\ curr_y' = 0
  BY DEF KeyClear, Keyboard
<1>2. MoveTo(0, 0) /\ 0 \in 0 .. WIDTH /\ 0 \in 0 .. HEIGHT
  BY <1>1, SizesHold DEF MoveTo, Sizes
<1> QED
  BY <1>1, <1>2, CursorRestart

LEMMA CursorSame ==
    ASSUME TypeOK, CursorInv, faults' = faults, tabbed' = tabbed,
           UNCHANGED cursor, line' = line \/ (line' = <<>> /\ faults = {})
    PROVE  CursorType' /\ CursorInv'
<1>1. CASE line' = line
  BY <1>1 DEF CursorType, CursorInv, TypeOK, cursor, Here, Longest
<1>2. CASE line' = <<>> /\ faults = {}
  <2> DEFINE h == Here
  <2>1. Len(line') = 0 /\ line' \in Seq(Chars \cup {Space}) /\ Here' = h
        /\ curr_x' = curr_x /\ curr_y' = curr_y
    BY <1>2 DEF cursor, Here
  <2>2. /\ Placed(curr_x, h, Len(line), tabbed) /\ curr_y \in 0 .. HEIGHT - 1
        /\ tabbed \in BOOLEAN
    BY <1>2, Before
  <2> HIDE DEF h
  <2>3. /\ curr_x \in Int /\ curr_x <= WIDTH /\ 0 - Longest <= curr_x
        /\ 0 <= Longest /\ 0 <= BUFFER_LIMIT /\ 0 <= h
    BY <2>2, SizesHold DEF Placed, Sizes
  <2>4. curr_y' \in 0 .. HEIGHT - 1
    BY <2>1, <2>2
  <2> QED
    BY <1>2, <2>1, <2>2, <2>3, <2>4, After
<1> QED
  BY <1>1, <1>2

LEMMA CursorStep ==
    ASSUME TypeOK, CursorInv, [Next]_vars
    PROVE  CursorType' /\ CursorInv'
<1>1. ASSUME NEW c \in Chars, KeyChar(c) PROVE CursorType' /\ CursorInv'
  BY <1>1, CursorKeyChar
<1>2. CASE KeyTab
  BY <1>2, CursorKeyTab
<1>3. CASE KeyBackspace
  BY <1>3, CursorKeyBackspace
<1>4. CASE KeyEnter
  BY <1>4, CursorKeyEnter
<1>5. CASE KeyOther
  BY <1>5, CursorKeyOther
<1>6. CASE KeyClear
  BY <1>6, CursorKeyClear
<1>7. ASSUME NEW c, Write(c) PROVE CursorType' /\ CursorInv'
  BY <1>7, CursorWrite
<1>8. CASE WriteNothing
  BY <1>8, CursorSame DEF WriteNothing, ghosts
<1>9. CASE KeyClearNothing \/ UNCHANGED vars
  BY <1>9, CursorSame DEF KeyClearNothing, vars, lines, ghosts
<1>10. CASE SwitchTerminals \/ \E n \in Counts : ReadCall(n)
  BY <1>10, CursorSame DEF SwitchTerminals, ReadCall, lines, ghosts
<1>11. CASE ReadStep
  <2>1. faults' = faults /\ tabbed' = tabbed /\ UNCHANGED cursor /\ line' = line
    BY <1>11 DEF ReadStep, ReadWait, ReadCopy, ReadClear, ReadStore, lines, ghosts
  <2> QED
    BY <2>1, CursorSame
<1> QED
  BY <1>1, <1>2, <1>3, <1>4, <1>5, <1>6, <1>7, <1>8, <1>9, <1>10, <1>11
  DEF Next, Key

-----------------------------------------------------------------------------
(* The reader.                                                             *)

Flags ==
    /\ shown \in BOOLEAN /\ rd \in BOOLEAN
    /\ fresh \in BOOLEAN /\ torn \in BOOLEAN

ReaderType ==
    /\ Flags
    /\ lastline \in Seq(Bytes) /\ buf \in Seq(Bytes) /\ entered \in Seq(Bytes)
    /\ rpc \in {"idle", "wait", "copy", "clear", "store"}
    /\ i \in Nat /\ count \in Nat

readerState == <<lastline, rd, reader, entered, fresh, torn>>

(* The keys that only edit, output and terminal switches do not touch what *)
(* the reader looks at.                                                    *)
LEMMA ReaderSame ==
    ASSUME TypeOK, ReaderInv, UNCHANGED readerState, shown' \in BOOLEAN
    PROVE  ReaderType' /\ ReaderInv'
<1>1. ReaderType'
  BY DEF TypeOK, ReaderType, Flags, readerState, reader
<1>2. ReaderInv'
  BY DEF ReaderInv, readerState, reader, Prefix
<1> QED
  BY <1>1, <1>2

(* A line that is entered has no zero in it.                               *)
LEMMA EnteredLine ==
    ASSUME TypeOK
    PROVE  /\ Append(line, NewLine) \in Seq(Bytes)
           /\ \A k \in 1 .. Len(Append(line, NewLine)) :
                 Append(line, NewLine)[k] # Nul
<1>1. line \in Seq(Chars \cup {Space}) /\ Nul \notin Chars \cup {Space, NewLine}
  BY TerminalAssumption DEF TypeOK, Nul, Space, NewLine
<1> DEFINE S == Chars \cup {Space, NewLine}
<1>2. line \in Seq(S) /\ NewLine \in S
  <2>1. Chars \cup {Space} \subseteq S
    OBVIOUS
  <2> QED
    BY <1>1, <2>1, SeqMonotonic
<1>3. Append(line, NewLine) \in Seq(S)
  BY <1>2
<1>4. \A k \in 1 .. Len(Append(line, NewLine)) : Append(line, NewLine)[k] \in S
  BY <1>3, ElementOfSeq
<1>5. S \subseteq Bytes
  BY DEF Bytes
<1> QED
  BY <1>1, <1>3, <1>4, <1>5, SeqMonotonic

LEMMA ReaderKeyEnter ==
    ASSUME TypeOK, ReaderInv, KeyEnter
    PROVE  ReaderType' /\ ReaderInv'
<1> DEFINE l == Append(line, NewLine)
<1>1. /\ l \in Seq(Bytes) /\ \A k \in 1 .. Len(l) : l[k] # Nul
  BY EnteredLine
<1> HIDE DEF l
<1>2. /\ lastline' = l /\ entered' = l /\ rd' = TRUE /\ fresh' = TRUE
      /\ torn' = (torn \/ Reading) /\ UNCHANGED <<shown, rpc, i, count, buf>>
  BY DEF KeyEnter, reader, l
<1>f. Flags'
  BY <1>2, Zenon DEF Flags, TypeOK
<1>3. ReaderType'
  BY <1>f, <1>1, <1>2 DEF ReaderType, TypeOK
<1>4. ASSUME rpc \in {"copy", "clear", "store"} PROVE torn' = TRUE
  <2>1. Reading
    BY <1>4 DEF Reading
  <2>2. torn' \in BOOLEAN
    BY <1>f DEF Flags
  <2> QED
    BY <1>2, <2>1, <2>2, Zenon
<1>5. rpc = "wait" => i = 0 /\ buf = <<>>
  BY DEF ReaderInv
<1>6. /\ \A k \in 1 .. Len(entered') : entered'[k] # Nul
      /\ rd' => fresh'
      /\ lastline' = entered' /\ rpc' = rpc /\ i' = i /\ buf' = buf
  BY <1>1, <1>2
<1>7. ReaderInv'
  BY <1>4, <1>5, <1>6, Zenon DEF ReaderInv
<1> QED
  BY <1>3, <1>7

LEMMA ReaderKeyClear ==
    ASSUME TypeOK, ReaderInv, KeyClear
    PROVE  ReaderType' /\ ReaderInv'
<1>1. <<>> \in Seq(Bytes) /\ Len(<<>>) = 0
  BY EmptySeq
<1>2. /\ lastline' = <<>> /\ entered' = <<>> /\ rd' = FALSE /\ fresh' = FALSE
      /\ torn' = (torn \/ Reading) /\ UNCHANGED <<shown, rpc, i, count, buf>>
  BY DEF KeyClear, reader
<1>f. Flags'
  BY <1>2, Zenon DEF Flags, TypeOK
<1>3. ReaderType'
  BY <1>f, <1>1, <1>2 DEF ReaderType, TypeOK
<1>4. ASSUME rpc \in {"copy", "clear", "store"} PROVE torn' = TRUE
  <2>1. Reading
    BY <1>4 DEF Reading
  <2>2. torn' \in BOOLEAN
    BY <1>f DEF Flags
  <2> QED
    BY <1>2, <2>1, <2>2, Zenon
<1>5. rpc = "wait" => i = 0 /\ buf = <<>>
  BY DEF ReaderInv
<1>6. /\ \A k \in 1 .. Len(entered') : entered'[k] # Nul
      /\ rd' => fresh'
      /\ lastline' = entered' /\ rpc' = rpc /\ i' = i /\ buf' = buf
  BY <1>1, <1>2
<1>7. ReaderInv'
  BY <1>4, <1>5, <1>6, Zenon DEF ReaderInv
<1> QED
  BY <1>3, <1>7

LEMMA ReaderCall ==
    ASSUME TypeOK, ReaderInv, NEW n \in Counts, ReadCall(n)
    PROVE  ReaderType' /\ ReaderInv'
<1>1. /\ rpc = "idle" /\ rpc' = "wait" /\ count' = n /\ buf' = <<>> /\ i' = 0
      /\ UNCHANGED <<shown, lastline, rd, entered, fresh, torn>> /\ n \in Nat
  BY TerminalAssumption DEF ReadCall, lines, ghosts
<1>f. Flags'
  BY <1>1, Zenon DEF Flags, TypeOK
<1>2. ReaderType'
  BY <1>f, <1>1, EmptySeq DEF ReaderType, TypeOK
<1>3. ReaderInv'
  BY <1>1 DEF ReaderInv
<1> QED
  BY <1>2, <1>3

LEMMA ReaderWait ==
    ASSUME TypeOK, ReaderInv, ReadWait
    PROVE  ReaderType' /\ ReaderInv'
<1>1. /\ rpc = "wait" /\ rd /\ rpc' = "copy" /\ torn' = FALSE
      /\ UNCHANGED <<shown, lastline, rd, i, count, buf, entered, fresh>>
  BY DEF ReadWait, lines
<1>f. Flags'
  BY <1>1, Zenon DEF Flags, TypeOK
<1>2. ReaderType'
  BY <1>f, <1>1 DEF ReaderType, TypeOK
<1>3. i = 0 /\ buf = <<>> /\ lastline = entered /\ count \in Nat
      /\ entered \in Seq(Bytes) /\ fresh
  BY <1>1 DEF ReaderInv, TypeOK
<1>4. ReaderInv'
  BY <1>1, <1>3 DEF ReaderInv
<1> QED
  BY <1>2, <1>4

LEMMA ReaderStore ==
    ASSUME TypeOK, ReaderInv, ReadStore
    PROVE  ReaderType' /\ ReaderInv'
<1>1. /\ rpc' = "idle" /\ rd' = FALSE /\ lastline' = <<>> /\ i' = 0 /\ count' = 0
      /\ buf' = <<>> /\ fresh' = FALSE /\ entered' = <<>> /\ UNCHANGED <<shown, torn>>
  BY DEF ReadStore
<1>0. <<>> \in Seq(Bytes) /\ Len(<<>>) = 0
  BY EmptySeq
<1>f. Flags'
  BY <1>1, Zenon DEF Flags, TypeOK
<1>2. ReaderType'
  BY <1>f, <1>0, <1>1 DEF ReaderType, TypeOK
<1>3. ReaderInv'
  BY <1>0, <1>1 DEF ReaderInv
<1> QED
  BY <1>2, <1>3

(* Zeroing one byte of the line kept for the reader.                       *)
LEMMA Zeroed ==
    ASSUME lastline \in Seq(Bytes), i \in Nat, i < Len(lastline)
    PROVE  /\ [lastline EXCEPT ![i + 1] = Nul] \in Seq(Bytes)
           /\ Len([lastline EXCEPT ![i + 1] = Nul]) = Len(lastline)
           /\ \A k \in 1 .. Len(lastline) :
                 k # i + 1 => [lastline EXCEPT ![i + 1] = Nul][k] = lastline[k]
<1>1. Nul \in Bytes /\ i + 1 \in 1 .. Len(lastline)
  BY DEF Bytes
<1> QED
  BY <1>1, ExceptSeq

LEMMA ReaderClear ==
    ASSUME TypeOK, ReaderInv, ReadClear
    PROVE  ReaderType' /\ ReaderInv'
<1>1. /\ rpc = "clear" /\ rpc' \in {"clear", "store"}
      /\ UNCHANGED <<shown, rd, count, buf, entered, fresh, torn>>
  BY DEF ReadClear, ghosts
<1>0. i' \in Nat /\ lastline' \in Seq(Bytes)
  <2>1. CASE i < Len(lastline)
    <3>1. lastline \in Seq(Bytes) /\ i \in Nat
      BY DEF TypeOK
    <3>2. lastline' = [lastline EXCEPT ![i + 1] = Nul] /\ i' = i + 1
      BY <2>1 DEF ReadClear
    <3> QED
      BY <2>1, <3>1, <3>2, Zeroed
  <2>2. CASE ~(i < Len(lastline))
    BY <2>2 DEF ReadClear, TypeOK
  <2> QED
    BY <2>1, <2>2
<1>f. Flags'
  BY <1>1, Zenon DEF Flags, TypeOK
<1>2. ReaderType'
  BY <1>f, <1>0, <1>1 DEF ReaderType, TypeOK
<1>3. ReaderInv'
  BY <1>1 DEF ReaderInv, Prefix
<1> QED
  BY <1>2, <1>3

(* The first bytes of a line.                                              *)
LEMMA FirstOf ==
    ASSUME NEW S, NEW s \in Seq(S), NEW n \in 0 .. Len(s)
    PROVE  /\ SubSeq(s, 1, n) \in Seq(S) /\ Len(SubSeq(s, 1, n)) = n
           /\ \A k \in 1 .. n : SubSeq(s, 1, n)[k] = s[k]
<1>1. /\ n \in Int /\ 1 \in Int /\ n \in Nat
      /\ \A k \in 1 .. n : k \in 1 .. Len(s) /\ k \in Int
  OBVIOUS
<1>2. \A k \in 1 .. n : s[k] \in S
  BY <1>1, ElementOfSeq
<1>3. SubSeq(s, 1, n) \in Seq(S)
  BY <1>1, <1>2, SubSeqProperties
<1>4. Len(SubSeq(s, 1, n)) = IF 1 <= n THEN n - 1 + 1 ELSE 0
  BY <1>1, <1>2, SubSeqProperties
<1>5. \A k \in 1 .. n - 1 + 1 : SubSeq(s, 1, n)[k] = s[1 + k - 1]
  BY <1>1, <1>2, SubSeqProperties
<1> DEFINE p == SubSeq(s, 1, n)
<1> HIDE DEF p
<1>6. p \in Seq(S) /\ Len(p) = (IF 1 <= n THEN n - 1 + 1 ELSE 0)
      /\ \A k \in 1 .. n - 1 + 1 : p[k] = s[1 + k - 1]
  BY <1>3, <1>4, <1>5, Zenon DEF p
<1>7. Len(p) = n /\ \A k \in 1 .. n : p[k] = s[k]
  BY <1>1, <1>6
<1> QED
  BY <1>6, <1>7 DEF p

(* The copy loop: it ends where the line or the count ends, since a zero   *)
(* is met only when the line was taken away.                               *)
LEMMA ReaderCopy ==
    ASSUME TypeOK, ReaderInv, ReadCopy
    PROVE  ReaderType' /\ ReaderInv'
<1>1. /\ rpc = "copy" /\ UNCHANGED <<shown, rd, count, entered, fresh, torn>>
      /\ (rd => fresh) /\ \A k \in 1 .. Len(entered) : entered[k] # Nul
  BY DEF ReadCopy, ghosts, ReaderInv
<1>2. /\ lastline \in Seq(Bytes) /\ buf \in Seq(Bytes) /\ entered \in Seq(Bytes)
      /\ i \in Nat /\ count \in Nat
      /\ Len(lastline) \in Nat /\ Len(entered) \in Nat /\ Len(buf) \in Nat
  BY DEF TypeOK
<1>f. Flags'
  BY <1>1, Zenon DEF Flags, TypeOK
<1>3. ASSUME ~torn
      PROVE  /\ i <= count /\ i <= Len(entered) /\ Len(lastline) = Len(entered)
             /\ Len(buf) = i /\ \A k \in 1 .. i : buf[k] = entered[k]
             /\ \A k \in i + 1 .. Len(entered) : lastline[k] = entered[k]
  BY <1>1, <1>3 DEF ReaderInv
<1>4. CASE Copying
  <2>1. /\ buf' = Append(buf, lastline[i + 1])
        /\ lastline' = [lastline EXCEPT ![i + 1] = Nul]
        /\ i' = i + 1 /\ rpc' = rpc
    BY <1>4 DEF ReadCopy
  <2>2. i < Len(lastline) /\ i < count
    BY <1>4 DEF Copying
  <2>3. /\ lastline' \in Seq(Bytes) /\ Len(lastline') = Len(lastline)
        /\ \A k \in 1 .. Len(lastline) : k # i + 1 => lastline'[k] = lastline[k]
    BY <1>2, <2>1, <2>2, Zeroed
  <2>4. lastline[i + 1] \in Bytes
    <3>1. i + 1 \in 1 .. Len(lastline)
      BY <1>2, <2>2
    <3> QED
      BY <1>2, <3>1, ElementOfSeq
  <2>5. /\ buf' \in Seq(Bytes) /\ Len(buf') = Len(buf) + 1
        /\ \A k \in 1 .. Len(buf) : buf'[k] = buf[k]
        /\ buf'[Len(buf) + 1] = lastline[i + 1]
    BY <1>2, <2>1, <2>4
  <2>6. ReaderType'
    BY <1>f, <1>1, <1>2, <2>1, <2>3, <2>5 DEF ReaderType
  <2>7. ASSUME ~torn
        PROVE  /\ i' <= count /\ i' <= Len(entered) /\ Len(lastline') = Len(entered)
               /\ Len(buf') = i' /\ \A k \in 1 .. i' : buf'[k] = entered[k]
               /\ \A k \in i' + 1 .. Len(entered) : lastline'[k] = entered[k]
    <3> HIDE <1>4
    <3>1. i' <= count /\ i' <= Len(entered) /\ Len(lastline') = Len(entered)
          /\ Len(buf') = i' /\ i' = i + 1 /\ Len(buf) = i
      BY <1>2, <1>3, <2>1, <2>2, <2>3, <2>5, <2>7
    <3>2. lastline[i + 1] = entered[i + 1]
      BY <1>2, <1>3, <2>2, <2>7
    <3>3. ASSUME NEW k \in 1 .. i + 1 PROVE buf'[k] = entered[k]
      <4>1. CASE k = i + 1
        BY <2>5, <3>1, <3>2, <4>1
      <4>2. CASE k \in 1 .. i
        BY <1>3, <2>5, <2>7, <3>1, <4>2
      <4> QED
        BY <1>2, <4>1, <4>2
    <3>4. ASSUME NEW k \in (i + 1) + 1 .. Len(entered) PROVE lastline'[k] = entered[k]
      <4>1. k \in 1 .. Len(lastline) /\ k # i + 1 /\ k \in i + 1 .. Len(entered)
        BY <1>2, <1>3, <2>7
      <4> QED
        BY <1>3, <2>3, <2>7, <4>1
    <3> QED
      BY <3>1, <3>3, <3>4
  <2>8. rpc' = "copy"
    BY <1>1, <2>1
  <2>9. ReaderInv'
    BY <1>1, <2>7, <2>8 DEF ReaderInv
  <2> QED
    BY <2>6, <2>9
<1>5. CASE ~Copying
  <2>1. rpc' = "clear" /\ i' = count /\ buf' = buf /\ lastline' = lastline
    BY <1>5 DEF ReadCopy
  <2>2. ReaderType'
    BY <1>f, <1>1, <1>2, <2>1 DEF ReaderType
  <2>3. ASSUME ~torn PROVE buf = Prefix(entered, count)
    <3> DEFINE m == IF count < Len(entered) THEN count ELSE Len(entered)
    <3>1. i < Len(entered) => lastline[i + 1] = entered[i + 1] /\ entered[i + 1] # Nul
      BY <1>1, <1>2, <1>3, <2>3
    <3>2. i = m
      BY <1>2, <1>3, <1>5, <2>3, <3>1 DEF Copying
    <3>4. /\ SubSeq(entered, 1, i) \in Seq(Bytes)
          /\ Len(SubSeq(entered, 1, i)) = i
          /\ \A k \in 1 .. i : SubSeq(entered, 1, i)[k] = entered[k]
      <4>1. i \in 0 .. Len(entered)
        BY <1>2, <1>3, <2>3
      <4> QED
        BY <1>2, <4>1, FirstOf
    <3>5. buf = SubSeq(entered, 1, i)
      BY <1>2, <1>3, <2>3, <3>4, SeqEqual
    <3> QED
      BY <3>2, <3>5 DEF Prefix
  <2>4. ReaderInv'
    BY <1>1, <2>1, <2>3 DEF ReaderInv, Prefix
  <2> QED
    BY <2>2, <2>4
<1> QED
  BY <1>4, <1>5

LEMMA ReaderStep ==
    ASSUME TypeOK, ReaderInv, [Next]_vars
    PROVE  ReaderType' /\ ReaderInv'
<1>1. CASE KeyEnter
  BY <1>1, ReaderKeyEnter
<1>2. CASE KeyClear
  BY <1>2, ReaderKeyClear
<1>3. ASSUME NEW n \in Counts, ReadCall(n) PROVE ReaderType' /\ ReaderInv'
  BY <1>3, ReaderCall
<1>4. CASE ReadStep
  BY <1>4, ReaderWait, ReaderCopy, ReaderClear, ReaderStore DEF ReadStep
<1>5. CASE SwitchTerminals
  <2>1. UNCHANGED readerState
    BY <1>5 DEF SwitchTerminals, lines, ghosts, readerState
  <2>2. shown' \in BOOLEAN
    BY <1>5, Zenon DEF SwitchTerminals
  <2> QED
    BY <2>1, <2>2, ReaderSame
<1>6. ASSUME \/ \E c \in Chars : KeyChar(c)
             \/ KeyTab \/ KeyBackspace \/ KeyOther \/ KeyClearNothing
             \/ \E c \in Chars \cup {NewLine} : Write(c)
             \/ WriteNothing \/ UNCHANGED vars
      PROVE  ReaderType' /\ ReaderInv'
  <2>1. UNCHANGED readerState /\ shown' = shown
    BY <1>6 DEF KeyChar, KeyTab, KeyBackspace, KeyOther, KeyClearNothing, Write,
                WriteNothing, vars, lines, ghosts, readerState
  <2>2. shown' \in BOOLEAN
    BY <2>1, Zenon DEF TypeOK
  <2> QED
    BY <2>1, <2>2, ReaderSame
<1> QED
  BY <1>1, <1>2, <1>3, <1>4, <1>5, <1>6 DEF Next, Key

-----------------------------------------------------------------------------
(* The theorems.                                                           *)

TerminalInv == TypeOK /\ CursorInv /\ ReaderInv

(* The inductive invariant of the terminal: the line being typed lies      *)
(* before the cursor, and the copy loop has copied what was entered.       *)
THEOREM TerminalInvariant == Spec => []TerminalInv
<1>1. Init => TerminalInv
  <2> SUFFICES ASSUME Init PROVE TerminalInv
    OBVIOUS
  <2>1. TypeOK
    <3>1. /\ - (BUFFER_LIMIT + TabSize) <= 0 /\ 0 <= WIDTH /\ 0 <= HEIGHT - 1
          /\ 0 \in - (BUFFER_LIMIT + TabSize) .. WIDTH /\ 0 \in 0 .. HEIGHT - 1
      BY Screen, TerminalAssumption
    <3>2. rd \in BOOLEAN /\ fresh \in BOOLEAN /\ torn \in BOOLEAN /\ tabbed \in BOOLEAN
      BY Zenon DEF Init
    <3> QED
      BY <3>1, <3>2, EmptySeq DEF Init, TypeOK
  <2>2. CursorInv
    BY Screen, EmptySeq, TerminalAssumption DEF Init, CursorInv, Here, INDEX, Longest
  <2>3. ReaderInv
    BY EmptySeq DEF Init, ReaderInv
  <2> QED
    BY <2>1, <2>2, <2>3 DEF TerminalInv
<1>2. TerminalInv /\ [Next]_vars => TerminalInv'
  <2> SUFFICES ASSUME TypeOK, CursorInv, ReaderInv, [Next]_vars PROVE TerminalInv'
    BY DEF TerminalInv
  <2>1. CursorType' /\ CursorInv'
    BY CursorStep
  <2>2. ReaderType' /\ ReaderInv'
    BY ReaderStep
  <2>3. TypeOK'
    BY <2>1, <2>2 DEF TypeOK, CursorType, ReaderType, Flags, Longest
  <2> QED
    BY <2>1, <2>2, <2>3 DEF TerminalInv
<1> QED
  BY <1>1, <1>2, PTL DEF Spec

(* Without tabs put_char can erase the line being typed without leaving    *)
(* the screen, however the line wraps, scrolls and mixes with output.      *)
THEOREM LineStaysOnScreen == Spec => []LineOnScreen
<1>1. TerminalInv => LineOnScreen
  <2> SUFFICES ASSUME TypeOK, CursorInv PROVE LineOnScreen
    BY DEF TerminalInv
  <2>1. Here <= WIDTH * HEIGHT
    <3>1. curr_x \in Int /\ curr_x <= WIDTH /\ curr_y \in Int /\ curr_y <= HEIGHT - 1
      BY TerminalAssumption DEF TypeOK
    <3>2. WIDTH * curr_y \in Int /\ WIDTH * curr_y <= LastRow
      BY <3>1, RowNext, RowOrder, SizesHold DEF LastRow, Sizes
    <3>3. Here <= Cells
      BY <3>1, <3>2, SizesHold DEF Here, INDEX, Sizes
    <3> QED
      BY <3>3 DEF Cells
  <2>2. ~tabbed => Len(line) <= Here
    BY DEF CursorInv
  <2> QED
    BY <2>1, <2>2 DEF LineOnScreen, Here
<1> QED
  BY <1>1, TerminalInvariant, PTL

(* Without tabs no write of put_char, put_char_out or terminal_read leaves *)
(* linebuffer or the page of video memory.                                 *)
THEOREM FaultsNeedTab == Spec => []NoFaultWithoutTab
<1>1. TerminalInv => NoFaultWithoutTab
  BY DEF TerminalInv, CursorInv, NoFaultWithoutTab
<1> QED
  BY <1>1, TerminalInvariant, PTL

(* terminal_read returns the line entered last, or as much of it as was    *)
(* asked for, unless Enter or Ctrl-L hits its copy loop; no line is read   *)
(* twice.                                                                  *)
THEOREM ReadsAreEntered == Spec => []ReadsEnteredLine
<1>1. TerminalInv => ReadsEnteredLine
  BY DEF TerminalInv, ReaderInv, ReadsEnteredLine
<1> QED
  BY <1>1, TerminalInvariant, PTL

(* A key advances the cursor by one cell, and the cell written is still on *)
(* the screen after the scroll, save at the last cell's right edge.        *)
LEMMA KeyShown ==
    ASSUME TypeOK, CursorInv, NEW c \in Chars, KeyChar(c),
           ~(curr_x = WIDTH /\ curr_y = HEIGHT - 1)
    PROVE  /\ INDEX(curr_x', curr_y') = INDEX(curr_x, curr_y) + 1
           /\ Visible(INDEX(curr_x, curr_y), KeyWrap(curr_x)[2])
<1> DEFINE w == KeyWrap(curr_x)
<1>1. MoveTo(w[1] + 1, w[2]) /\ Room /\ faults = {}
  BY DEF KeyChar, Keyboard
<1>2. /\ w[1] \in Int /\ w[1] < WIDTH /\ w[2] \in 0 .. HEIGHT
      /\ INDEX(w[1], w[2]) = Here
  BY <1>1, Wrapped
<1>3. w[2] < HEIGHT
  <2>1. w[2] = curr_y \/ (curr_x >= WIDTH /\ w[2] = curr_y + 1)
    BY <1>1 DEF KeyWrap, Wrap
  <2> QED
    BY <2>1, Screen, TerminalAssumption DEF TypeOK
<1> HIDE DEF w
<1>4. w[1] + 1 \in Int /\ w[2] \in Int /\ WIDTH \in Nat /\ HEIGHT \in Nat
  BY <1>2, TerminalAssumption
<1>5. Here' = INDEX(w[1] + 1, w[2])
  BY <1>1, <1>2, <1>3, <1>4, Moved
<1>6. WIDTH * w[2] \in Int
  BY <1>4, RowNext
<1>7. Here' = Here + 1
  BY <1>2, <1>4, <1>5, <1>6 DEF INDEX
<1>8. 0 <= Here
  BY <1>1 DEF CursorInv
<1>9. Here < WIDTH * HEIGHT
  <2>1. WIDTH * (w[2] + 1) <= WIDTH * HEIGHT
    BY <1>2, <1>3, <1>4, RowOrder
  <2>2. WIDTH * (w[2] + 1) = WIDTH * w[2] + WIDTH
    BY <1>4, RowNext
  <2> QED
    BY <1>2, <1>4, <1>6, <2>1, <2>2 DEF INDEX
<1>10. Visible(Here, w[2])
  BY <1>2, <1>3, <1>4, <1>8, <1>9, Screen DEF Visible
<1> QED
  BY <1>7, <1>10 DEF Here, w

(* put_char shows the pressed character.                                   *)
THEOREM KeysAreShown == Spec => ShowsKey
<1> DEFINE Shows == \A c \in Chars :
               KeyChar(c) /\ ~(curr_x = WIDTH /\ curr_y = HEIGHT - 1) =>
                  /\ INDEX(curr_x', curr_y') = INDEX(curr_x, curr_y) + 1
                  /\ Visible(INDEX(curr_x, curr_y), KeyWrap(curr_x)[2])
<1>1. TerminalInv /\ [Next]_vars => [Shows]_vars
  BY KeyShown DEF TerminalInv
<1> QED
  BY <1>1, TerminalInvariant, PTL DEF Spec, ShowsKey
=============================================================================
