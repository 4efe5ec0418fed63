------------------------------ MODULE Library -------------------------------
(***************************************************************************)
(* The sequential algorithms of the system: the strings and numbers of     *)
(* lib.c and ece391support.c, printf and the console, the rate of the RTC, *)
(* the command line of kexecute and the search of grep.  The loops of the  *)
(* code are recursive operators.  One behaviour is one call: call holds    *)
(* the function and its arguments, ret what it leaves.                     *)
(*                                                                         *)
(* A string in memory is a function from 0 that holds 0 at its end.        *)
(* Names with an underscore and a capital are faulty variants of the       *)
(* definition that follows them.                                           *)
(***************************************************************************)
EXTENDS Integers, SequencesExt

CONSTANTS
    Word,               \* the number of values of a machine word
    HexWidth,           \* its hexadecimal digits
    NUM_COLS, NUM_ROWS, \* the console
    CMD_LENGTH,         \* the longest command line
    BUFSIZE,            \* the buffer of grep
    Calls               \* the calls that are made

VARIABLES call, ret

ERROR == -1

(* The characters the loops look for.                                      *)
NUL == 0
NL == 10
SP == 32

-----------------------------------------------------------------------------
(* Strings.                                                                *)

(* int8_t: the kernel compares signed characters, the programs do not.     *)
Int8(c) == IF c >= 128 THEN c - 256 ELSE c

(* strlen of lib.c and of the programs.                                    *)
RECURSIVE LenFrom(_, _)
LenFrom(s, len) == IF s[len] # NUL THEN LenFrom(s, len + 1) ELSE len
strlen(s) == LenFrom(s, 0)

(* strncmp of lib.c.                                                       *)
RECURSIVE CmpFrom(_, _, _, _)
CmpFrom(s1, s2, n, i) ==
    IF i >= n THEN 0
    ELSE IF s1[i] # s2[i] \/ s1[i] = NUL THEN Int8(s1[i]) - Int8(s2[i])
    ELSE CmpFrom(s1, s2, n, i + 1)
strncmp(s1, s2, n) == CmpFrom(s1, s2, n, 0)

(* ece391_strncmp, which decrements n after a match.  With an n the        *)
(* strings never reach it is ece391_strcmp.                                *)
RECURSIVE ECmpFrom(_, _, _, _)
ECmpFrom(s1, s2, n, i) ==
    IF s1[i] = s2[i]
    THEN IF s1[i] = NUL \/ n - 1 = 0 THEN 0 ELSE ECmpFrom(s1, s2, n - 1, i + 1)
    ELSE s1[i] - s2[i]
ece391_strncmp(s1, s2, n) == IF n = 0 THEN 0 ELSE ECmpFrom(s1, s2, n, 0)

(* strcpy in one memory: to and from are addresses, the regions may        *)
(* overlap (grep moves the rest of its buffer down).                       *)
RECURSIVE CopyFrom(_, _, _, _)
CopyFrom(m, to, from, i) ==
    IF m[from + i] # NUL
    THEN CopyFrom([m EXCEPT ![to + i] = m[from + i]], to, from, i + 1)
    ELSE [m EXCEPT ![to + i] = NUL]
strcpy(m, to, from) == CopyFrom(m, to, from, 0)

(* strncpy: n bytes, with zeros after the end of the source.               *)
RECURSIVE NCopyFrom(_, _, _, _)
NCopyFrom(d, s, n, i) ==
    IF s[i] # NUL /\ i < n
    THEN NCopyFrom([d EXCEPT ![i] = s[i]], s, n, i + 1)
    ELSE [k \in DOMAIN d |-> IF k \in i .. n - 1 THEN NUL ELSE d[k]]
strncpy(d, s, n) == NCopyFrom(d, s, n, 0)

-----------------------------------------------------------------------------
(* Numbers.                                                                *)

lookup == <<"0", "1", "2", "3", "4", "5", "6", "7", "8", "9", "A", "B", "C",
            "D", "E", "F">>

(* strrev of lib.c and ece391_strrev.                                      *)
RECURSIVE Swaps(_, _, _)
Swaps(s, beg, end) ==
    IF beg < end
    THEN Swaps([s EXCEPT ![beg] = s[end], ![end] = s[beg]], beg + 1, end - 1)
    ELSE s
strrev(s) == Swaps(s, 1, Len(s))

(* The loop of itoa, ece391_itoa and write_dec_to_char.                    *)
RECURSIVE LowDigits(_, _)
LowDigits(newval, radix) ==
    IF newval > 0
    THEN <<lookup[(newval % radix) + 1]>> \o LowDigits(newval \div radix, radix) ELSE <<>>

itoa(value, radix) ==
    IF value = 0 THEN <<"0">> ELSE strrev(LowDigits(value, radix))

(* The middle of the digits; past it they are swapped back.                *)
Half_All(ret0) == ret0
Half(ret0) == ret0 \div 2

(* write_dec_to_char: swaps up to the middle.                              *)
write_dec_to_char(num) ==
    LET s == IF num = 0 THEN <<"0">> ELSE LowDigits(num, 10)
        RECURSIVE Swap(_, _)
        Swap(t, i) ==
            IF i < Half(Len(t))
            THEN Swap([t EXCEPT ![i + 1] = t[Len(t) - i],
                                ![Len(t) - i] = t[i + 1]], i + 1)
            ELSE t
    IN  Swap(s, 0)

(* rtc_write: the rate for a frequency, or an error.  32768 >> (rate - 1)  *)
(* is the frequency.                                                       *)
Ones(frequency) == Cardinality({i \in 0 .. 30 : (frequency \div 2^i) % 2 = 1})
rtc_write(frequency) ==
    IF frequency < 2 \/ frequency > 1024 \/ Ones(frequency) > 1 THEN ERROR
    ELSE LET match == {j \in 0 .. 14 : 32768 \div 2^j = frequency}
             rate == IF match = {} THEN 0 ELSE Max(match) + 1
         IN  rate % 16

-----------------------------------------------------------------------------
(* printf and the console.                                                 *)

(* -value of a signed word, as an unsigned one.                            *)
Negated(v) == (Word - v) % Word

(* What a conversion sends to the console for an argument: the same word   *)
(* of the stack is a number, a character or the address of a string.       *)
Converted(spec, alternate, arg) ==
    CASE spec = "x" /\ ~alternate -> itoa(arg.num, 16)
      [] spec = "x" /\ alternate ->
           LET digits == itoa(arg.num, 16)
           IN  [i \in 1 .. HexWidth - Len(digits) |-> "0"] \o digits
      [] spec = "u" -> itoa(arg.num, 10)
      [] spec = "d" /\ arg.num >= Word \div 2 ->
           <<"-">> \o itoa(Negated(arg.num), 10)
      [] spec = "d" /\ arg.num < Word \div 2 -> itoa(arg.num, 10)
      [] spec = "c" -> <<arg.chr>>
      [] spec = "s" -> arg.str

(* The conversions that take an argument.                                  *)
Takes == {"x", "u", "d", "c", "s"}

(* What a conversion takes from the stack; the mutant takes nothing for %c.*)
Shift_NotC(spec) == IF spec \in Takes \ {"c"} THEN 1 ELSE 0
Shift(spec) == IF spec \in Takes THEN 1 ELSE 0

(* The loop of printf from character i with the arguments from esp on.     *)
(* The format ends with 0; a format that ends within a conversion takes    *)
(* the loop past that 0, where the code reads whatever follows.            *)
RECURSIVE FormatFrom(_, _, _, _, _)
FormatFrom(format, args, i, esp, text) ==
    LET At(k) == IF k <= Len(format) THEN format[k] ELSE "NUL"
        RECURSIVE Spec0(_)
        Spec0(k) == IF At(k) = "#" THEN Spec0(k + 1) ELSE k
        j == Spec0(i + 1)
    IN  IF i > Len(format) + 1 THEN [past |-> TRUE, text |-> text, ret |-> i]
        ELSE IF At(i) = "NUL" THEN [past |-> FALSE, text |-> text, ret |-> i - 1]
        ELSE IF At(i) # "%"
        THEN FormatFrom(format, args, i + 1, esp, Append(text, At(i)))
        ELSE IF At(j) \in Takes
        THEN FormatFrom(format, args, j + 1, esp + Shift(At(j)),
                        text \o Converted(At(j), j > i + 1, args[esp]))
        ELSE FormatFrom(format, args, j + 1, esp,
                        IF At(j) = "%" THEN Append(text, "%") ELSE text)
printf(format, args) == FormatFrom(format, args, 1, 1, <<>>)

(* The column wraps before the row is computed from it.                    *)
Column(x) == (x + 1) % NUM_COLS

(* putc: written collects the places the characters went to.               *)
putc(con, c) ==
    IF c \in {"\n", "\r"} THEN [con EXCEPT !.y = @ + 1, !.x = 0]
    ELSE [x |-> Column(con.x),
          y |-> (con.y + Column(con.x) \div NUM_COLS) % NUM_ROWS,
          written |-> Append(con.written, <<con.x, con.y>>)]
puts(con, s) == FoldLeft(putc, con, s)

-----------------------------------------------------------------------------
(* The command line of kexecute.                                           *)

(* The end of the first word.                                              *)
RECURSIVE WordEnd(_, _)
WordEnd(command, i) ==
    IF i < CMD_LENGTH /\ command[i] \notin {SP, NUL, NL}
    THEN WordEnd(command, i + 1) ELSE i

RECURSIVE SkipSpaces(_, _)
SkipSpaces(command, i) ==
    IF command[i] = SP THEN SkipSpaces(command, i + 1) ELSE i

(* The end of the arguments; for the mutant a newline belongs to them.     *)
EndsArgs_Zero(c) == c = NUL
EndsArgs(c) == c \in {NUL, NL}

(* kexecute: the name and the arguments.  no_args is not initialized;      *)
(* when no argument is copied the buffer keeps what the stack held.        *)
parse(command, no_args) ==
    LET e == WordEnd(command, 0)
        i == SkipSpaces(command, e)
        clear == command[i] # NUL
                 \/ (no_args = 0 /\ command[e] # NL)
        len == {j \in 0 .. CMD_LENGTH - i - 1 : EndsArgs(command[i + j])}
    IN  [cmd |-> [k \in 1 .. e |-> command[k - 1]],
         args |-> IF clear /\ len # {}
                  THEN [k \in 1 .. Min(len) |-> command[i + k - 1]]
                  ELSE <<ERROR>>]

-----------------------------------------------------------------------------
(* grep: do_one_file on a file that is read in pieces.                     *)

(* The search of one line.                                                 *)
Matches(data, from, to, s) ==
    \E check \in from .. to - 1 :
        /\ s[0] = data[check]
        /\ ece391_strncmp([k \in 0 .. BUFSIZE - check |-> data[check + k]],
                          s, strlen(s)) = 0

RECURSIVE LineEnd(_, _, _)
LineEnd(data, k, last) ==
    IF k < last /\ data[k] # NL THEN LineEnd(data, k + 1, last) ELSE k

(* What is kept of the buffer, and one character less.                     *)
Rest_Short(last, line_start) == last - line_start - 1
Rest(last, line_start) == last - line_start

(* ret is the state of do_one_file while it runs: the buffer, how much of  *)
(* it is filled, the result of the last read, where the line starts, the   *)
(* position in the file and the lines printed.  stack is what data holds   *)
(* before the first read.                                                  *)
GrepStart ==
    /\ call.fn = "grep" /\ ret = <<>>
    /\ ret' = <<[pc |-> "read", data |-> call.stack, last |-> 0, cnt |-> 0,
                 line_start |-> 0, pos |-> 0, out |-> <<>>]>>
    /\ UNCHANGED call

At(pc) == call.fn = "grep" /\ ret # <<>> /\ ret[1].pc = pc

(* A read of what fits behind the part that is kept.                       *)
GrepRead ==
    /\ At("read")
    /\ LET g == ret[1]
           cnt == Min({BUFSIZE - g.last, Len(call.file) - g.pos})
       IN  ret' = <<[g EXCEPT !.pc = "line", !.cnt = cnt, !.pos = @ + cnt,
                !.last = @ + cnt, !.line_start = 0,
                !.data = [k \in 0 .. BUFSIZE |->
                            IF k \in g.last .. g.last + cnt - 1
                            THEN call.file[g.pos + (k - g.last) + 1]
                            ELSE g.data[k]]]>>
    /\ UNCHANGED call

(* One round of the inner loop: the rest of the buffer is moved down, or   *)
(* the line is searched.                                                   *)
GrepLine ==
    /\ At("line")
    /\ LET g == ret[1]
           line_end == LineEnd(g.data, g.line_start, g.last)
           data == [g.data EXCEPT ![line_end] = NUL]
           printed == IF Matches(data, g.line_start, line_end, call.s)
                      THEN <<[k \in 1 .. LenFrom(data, g.line_start) - g.line_start
                                |-> data[g.line_start + k - 1]]>>
                      ELSE <<>>
           after == IF g.cnt = 0 THEN "end" ELSE "read"
       IN  ret' = <<
             IF g.data[line_end] # NL /\ g.cnt # 0 /\ g.line_start # 0
             THEN [g EXCEPT !.pc = after, !.last = Rest(@, g.line_start),
                            !.data = strcpy(data, 0, g.line_start)]
             ELSE [g EXCEPT !.data = data, !.out = @ \o printed,
                     !.line_start = line_end + 1,
                     !.last = IF line_end + 1 >= @ THEN 0 ELSE @,
                     !.pc = IF line_end + 1 >= g.last THEN after ELSE "line"]>>
    /\ UNCHANGED call

-----------------------------------------------------------------------------
(* The calls.                                                              *)

Returns(fn, v) == call.fn = fn /\ ret = <<>> /\ ret' = <<v>> /\ UNCHANGED call

CompareCall ==
    Returns("compare", [kernel |-> strncmp(call.s1, call.s2, call.n),
                        user |-> ece391_strncmp(call.s1, call.s2, call.n)])

CopyCall == Returns("strcpy", strcpy(call.mem, call.to, call.from))

NCopyCall == Returns("strncpy", strncpy(call.dest, call.src, call.n))

NumberCall ==
    Returns("number",
        [itoa |-> itoa(call.arg.num, call.radix),
         dec |-> write_dec_to_char(call.arg.num),
         hex |-> Converted("x", TRUE, call.arg),
         signed |-> Converted("d", FALSE, call.arg)])

PrintfCall == Returns("printf", printf(call.format, call.args))

PutsCall ==
    Returns("puts", puts([x |-> 0, y |-> call.y, written |-> <<>>], call.text))

RtcWriteCall == Returns("rtc_write", rtc_write(call.frequency))

ExecuteCall == Returns("execute", parse(call.command, call.no_args))

LibraryInit == call \in Calls /\ ret = <<>>

LibraryNext ==
    \/ CompareCall \/ CopyCall \/ NCopyCall \/ NumberCall \/ PrintfCall
    \/ PutsCall \/ RtcWriteCall \/ ExecuteCall
    \/ GrepStart \/ GrepRead \/ GrepLine

-----------------------------------------------------------------------------
(* Properties.                                                             *)

Returned(fn) == call.fn = fn /\ ret # <<>>

(* The number a text of digits stands for.                                 *)
Value(text, radix) ==
    FoldLeft(LAMBDA acc, c :
                acc * radix + (CHOOSE d \in 0 .. 15 : lookup[d + 1] = c),
             0, text)

Shortest(text) == Len(text) = 1 \/ text[1] # "0"

(* itoa, write_dec_to_char and the conversions of printf write the number  *)
(* they are given, without leading zeros, %#x with exactly as many digits  *)
(* as a word has, and %d also for the smallest word, whose negation in C   *)
(* is itself.                                                              *)
NumbersReadBack ==
    Returned("number") =>
        LET r == ret[1]
            v == call.arg.num
        IN  /\ Value(r.itoa, call.radix) = v /\ Shortest(r.itoa)
            /\ Value(r.dec, 10) = v /\ Shortest(r.dec)
            /\ Value(r.hex, 16) = v /\ Len(r.hex) = HexWidth
            /\ IF v >= Word \div 2
               THEN /\ r.signed[1] = "-" /\ Shortest(Tail(r.signed))
                    /\ Value(Tail(r.signed), 10) = Word - v
               ELSE Value(r.signed, 10) = v /\ Shortest(r.signed)

(* strncmp of the kernel and of the programs find the first difference     *)
(* before the end of the strings and within n characters, and agree on     *)
(* whether there is one; the sign follows signed characters in the kernel  *)
(* and unsigned ones in the programs.                                      *)
ComparesInOrder ==
    Returned("compare") =>
        LET s1 == call.s1
            s2 == call.s2
            differ == {k \in 0 .. call.n - 1 :
                          /\ s1[k] # s2[k]
                          /\ \A j \in 0 .. k - 1 : s1[j] # NUL /\ s2[j] # NUL}
        IN  IF differ = {} THEN ret[1] = [kernel |-> 0, user |-> 0]
            ELSE LET k == Min(differ)
                 IN  /\ ret[1].user = s1[k] - s2[k]
                     /\ ret[1].kernel = Int8(s1[k]) - Int8(s2[k])

(* strcpy leaves the whole source string at the destination and touches    *)
(* nothing else, also when grep moves a string down over itself.           *)
StringsMove ==
    Returned("strcpy") =>
        LET end == Min({a \in DOMAIN call.mem :
                            a >= call.from /\ call.mem[a] = NUL})
            len == end - call.from
        IN  \A a \in DOMAIN call.mem :
                ret[1][a] = IF a \in call.to .. call.to + len
                            THEN call.mem[call.from + (a - call.to)]
                            ELSE call.mem[a]

(* strncpy writes exactly n bytes, the string and then zeros, so that      *)
(* kexecute's command ends where it puts the zero.                         *)
BytesPadded ==
    Returned("strncpy") =>
        \A k \in DOMAIN call.dest :
            ret[1][k] = IF k >= call.n THEN call.dest[k]
                        ELSE IF \A j \in 0 .. k : call.src[j] # NUL
                        THEN call.src[k] ELSE NUL

(* The k-th smallest element.                                              *)
Nth(S, k) == CHOOSE x \in S : Cardinality({y \in S : y < x}) = k - 1

(* The pieces of a format: characters and conversions.                     *)
Literal(p) == Len(p) = 1 /\ p[1] # "%"
Conversion(p) ==
    /\ Len(p) >= 2 /\ p[1] = "%" /\ Last(p) # "#"
    /\ \A k \in 2 .. Len(p) - 1 : p[k] = "#"

Cut(format, starts) ==
    LET bounds == starts \cup {1, Len(format) + 1}
    IN  [k \in 1 .. Cardinality(bounds) - 1 |->
            SubSeq(format, Nth(bounds, k), Nth(bounds, k + 1) - 1)]

Meaning(pieces, args, k) ==
    LET p == pieces[k]
        used == Cardinality({j \in 1 .. k - 1 :
                    Conversion(pieces[j]) /\ Last(pieces[j]) \in Takes})
    IN  CASE Literal(p) -> p
          [] ~Literal(p) /\ Last(p) = "%" -> <<"%">>
          [] ~Literal(p) /\ Last(p) \in Takes ->
               Converted(Last(p), Len(p) > 2, args[used + 1])
          [] OTHER -> <<>>

(* printf writes every character and the conversion of every argument in   *)
(* order, each conversion with the argument that belongs to it, and stops  *)
(* at the end of the format; it runs past the end for the formats that end *)
(* within a conversion, and for no others.                                 *)
PrintsFormat ==
    Returned("printf") =>
        LET Parts == {starts \in SUBSET (2 .. Len(call.format)) :
                        LET ps == Cut(call.format, starts)
                        IN  \A k \in DOMAIN ps : Literal(ps[k]) \/ Conversion(ps[k])}
        IN  /\ ret[1].past <=> Parts = {}
            /\ \A starts \in Parts :
                 LET ps == Cut(call.format, starts)
                 IN  /\ ret[1].ret = Len(call.format)
                     /\ ret[1].text = FlattenSeq([k \in DOMAIN ps |->
                                            Meaning(ps, call.args, k)])

(* putc writes a line into one row of the screen, and starts again at the  *)
(* left when the line is longer than the row.  Only the first character of *)
(* a line can fall below the screen: the row is reduced after it.          *)
LineInOneRow ==
    Returned("puts") =>
        \A i \in DOMAIN call.text : call.text[i] # "\n" =>
            LET nth(k) == Cardinality({j \in 1 .. k : call.text[j] # "\n"})
                start == Max({0} \cup {j \in 1 .. i : call.text[j] = "\n"}) + 1
                place == ret[1].written[nth(i)]
            IN  /\ place[1] = (i - start) % NUM_COLS
                /\ i > start => place[2] = ret[1].written[nth(start)][2] % NUM_ROWS

(* rtc_write accepts the powers of two from 2 to 1024, and the rate it     *)
(* sets makes the clock run at the frequency asked for.                    *)
RateMatches ==
    Returned("rtc_write") =>
        LET k == {j \in 1 .. 10 : 2^j = call.frequency}
        IN  IF k = {} THEN ret[1] = ERROR
            ELSE ret[1] \in 1 .. 15 /\ call.frequency * 2^(ret[1] - 1) = 32768

(* Every call of the small functions of lib.c, ece391support.c and rtc.c   *)
(* returns what its reference definition says: numbers, comparisons,       *)
(* copies, console output and clock rates.                                 *)
LibraryConforms ==
    /\ NumbersReadBack /\ ComparesInOrder
    /\ StringsMove /\ BytesPadded
    /\ LineInOneRow /\ RateMatches

(* kexecute takes the first word as the program and passes the rest of the *)
(* line, without the spaces before it and the newline after it, as its     *)
(* arguments.  A line without arguments and newline, which is what the     *)
(* shell passes, is left out where no_args happens not to be zero: the     *)
(* arguments are then whatever the stack held.                             *)
CommandSplit ==
    Returned("execute") =>
        LET len == Min({k \in DOMAIN call.command : call.command[k] = NUL})
            line == [k \in 1 .. len |-> call.command[k - 1]]
            r == ret[1]
            spaces(k) == [j \in 1 .. k |-> SP]
            rest(k) == SubSeq(line, Len(r.cmd) + k + 1, len)
            passed(args) == SubSeq(args, 1,
                Min({Len(args)} \cup {j - 1 : j \in {i \in DOMAIN args : args[i] = NL}}))
        IN  /\ IsPrefix(r.cmd, line)
            /\ \A i \in DOMAIN r.cmd : r.cmd[i] \notin {SP, NL}
            /\ Len(r.cmd) < len => line[Len(r.cmd) + 1] \in {SP, NL}
            /\ \E k \in 0 .. len - Len(r.cmd) :
                 /\ SubSeq(line, Len(r.cmd) + 1, Len(r.cmd) + k) = spaces(k)
                 /\ rest(k) # <<>> => rest(k)[1] # SP
                 /\ rest(k) # <<>> \/ call.no_args = 0 => r.args = passed(rest(k))

(* The lines of a text, without their newlines.                            *)
TextLines(file) ==
    LET starts == {1} \cup {i + 1 : i \in {j \in DOMAIN file : file[j] = NL}}
        end(i) == Min({Len(file) + 1} \cup {j \in i .. Len(file) : file[j] = NL})
    IN  [k \in 1 .. Cardinality(starts) |->
            SubSeq(file, Nth(starts, k), end(Nth(starts, k)) - 1)]

HasString(line, s) ==
    \E k \in 0 .. Len(line) - strlen(s) :
        \A j \in 0 .. strlen(s) - 1 : line[k + j + 1] = s[j]

(* grep prints exactly the lines that contain the string, once, in order   *)
(* and whole, wherever the reads cut the file, for a text whose lines fit  *)
(* into the buffer.  The byte behind the buffer, which grep reads but does *)
(* not set before its first full buffer, must not happen to be a newline.  *)
GrepPrintsLines ==
    At("end") =>
        LET lines == TextLines(call.file)
        IN  /\ \A k \in DOMAIN lines : Len(lines[k]) < BUFSIZE
            /\ call.stack[BUFSIZE] # NL
            =>
               ret[1].out = SelectSeq(lines, LAMBDA l : HasString(l, call.s))
=============================================================================
