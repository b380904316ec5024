---- MODULE Console ----
(***************************************************************************)
(* The console: kbd.cpp turns scan codes into characters, a line reader    *)
(* collects them, vga.cpp shows them on a screen of WIDTH x HEIGHT cells,  *)
(* and a complete line is run.  There are three readers: the loop of       *)
(* shell::run, which splits its line into words, the SQL shell's and the   *)
(* question of format.  One step is one scan code: read_char polls, and    *)
(* the kernel does nothing else while it waits.  Colours are left out.     *)
(*                                                                         *)
(* The keyboard is external: it delivers the code of every key that goes   *)
(* down or up, and repeats the code of a key that is held - except while a *)
(* command runs, when nobody takes its codes and they may be lost.         *)
(***************************************************************************)
EXTENDS Integers, Sequences, FiniteSets

CONSTANTS Letters,      \* Letters[c]: upper case of a letter key's character c
          Others,       \* Others[c]: what another key gives with shift
          ShiftKeys,    \* the keys of the codes 0x2A and 0x36
          Outputs,      \* texts a command prints
          Prompt,       \* Prompt[r]: what reader r prints before a line
          Exits, Yes,   \* lines that end the SQL shell, and the one that formats
          Skip,         \* Skip[t]: where the parser of line t starts, for lines that end before
          Garbage,      \* a character the stack may hold
          WIDTH, HEIGHT, MAX_CMD_LEN, MAX_ARGS,
          SQL_LEN       \* size of the SQL shell's buffer

Char == DOMAIN Letters \cup {Letters[c] : c \in DOMAIN Letters}
          \cup DOMAIN Others \cup {Others[c] : c \in DOMAIN Others}
Last == WIDTH * HEIGHT - 1
Readers == {"shell", "sql", "format"}
Size == [r \in Readers |-> CASE r = "shell" -> MAX_CMD_LEN
                             [] r = "sql" -> SQL_LEN [] r = "format" -> Len(Yes) + 1]

NUL == ""
Space == " "
Backspace == "backspace"
\* The characters of what is shown, and those that take a cell of the screen.
Glyphs == Char \cup {Space, Backspace, "\n"} \cup
            UNION {{t[k] : k \in DOMAIN t} : t \in Outputs \cup {Prompt[r] : r \in Readers}}
Plain == Glyphs \ {NUL, Backspace, "\n"}

ASSUME ConsoleAssumption ==
  /\ WIDTH \in Nat \ {0} /\ HEIGHT \in Nat \ {0} /\ MAX_ARGS \in Nat
  /\ Char \subseteq Plain /\ Outputs \subseteq Seq(Glyphs)
  /\ \A r \in Readers : Prompt[r] \in Seq(Plain)
  /\ \A r \in Readers : Size[r] \in Nat \ {0, 1}
  /\ \A t \in DOMAIN Skip : Skip[t] \in (Len(t) + 1)..(SQL_LEN - 1)
  /\ DOMAIN Skip \cap (Exits \cup {<< >>}) = {}
  \* the longest prompt and line fit the screen above the last row
  /\ \A r \in Readers : Len(Prompt[r]) + Size[r] - 1 <= WIDTH * (HEIGHT - 1)

VARIABLES shift_pressed, capslock_on,
          down,         \* the shift keys that are down (external)
          missed,       \* one of them moved unseen after the last of their codes (external)
          screen,       \* [cell, x, y]: VGA_BUFFER and the cursor
          reader, input, input_len,
          ran           \* what the last key made run, or Nothing

kbd  == <<shift_pressed, capslock_on, down, missed>>
line == <<reader, input, input_len>>
vars == <<kbd, screen, line, ran>>

Blank == [k \in 0..Last |-> Space]

----------------------------------------------------------------------------
\* vga.cpp, as functions of the screen.

newline(s) ==
  IF s.y + 1 < HEIGHT THEN [s EXCEPT !.x = 0, !.y = @ + 1]
  ELSE [cell |-> [k \in 0..Last |-> IF k + WIDTH <= Last THEN s.cell[k + WIDTH] ELSE Space],
        x |-> 0, y |-> HEIGHT - 1]

\* Mutant: a backspace in the first column stays there.
BackStaysInRow(s) == IF s.x > 0 THEN [s EXCEPT !.x = @ - 1] ELSE s

\* The cursor's move of a backspace
Back(s) == IF s.x > 0 THEN [s EXCEPT !.x = @ - 1]
           ELSE IF s.y > 0 THEN [s EXCEPT !.x = WIDTH - 1, !.y = @ - 1]
           ELSE s

\* The cursor may stand behind the last column; the next character moves it on.
Show(s, c) == LET at == IF s.x >= WIDTH THEN newline(s) ELSE s IN
                [at EXCEPT !.cell[at.y * WIDTH + at.x] = c, !.x = @ + 1]

put_char(s, c) ==
  CASE c = Backspace -> LET at == Back(s) IN [at EXCEPT !.cell[at.y * WIDTH + at.x] = Space]
    [] c = "\n" -> newline(s)
    [] OTHER    -> Show(s, c)

put_string(s, text) ==
  LET p[k \in 0..Len(text)] == IF k = 0 THEN s ELSE put_char(p[k - 1], text[k])
  IN  p[Len(text)]

clear == [cell |-> Blank, x |-> 0, y |-> 0]

----------------------------------------------------------------------------
\* parse_command: strtok from position p of the line: where the word starts,
\* and where it ends.
SkipFrom(text, p) == CHOOSE k \in p..Len(text) :
                       /\ k < Len(text) => text[k + 1] # Space
                       /\ \A m \in p..(k - 1) : text[m + 1] = Space
\* Mutant: a word ends only at the end of the line.
EndNever(text, p) == Len(text)

EndFrom(text, p) == CHOOSE k \in p..Len(text) :
                      /\ k < Len(text) => text[k + 1] = Space
                      /\ \A m \in p..(k - 1) : text[m + 1] # Space

\* strtok_state after each call: behind the delimiter that ended the word, which
\* the last word does not need.
States(text) ==
  LET q[k \in 0..MAX_ARGS] ==
        IF k = 0 THEN 0
        ELSE LET end == EndFrom(text, SkipFrom(text, q[k - 1]))
             IN  IF end < Len(text) THEN end + 1 ELSE Len(text)
  IN  q

\* The words of the calls that find one; none does after one that found none.
parse_command(text) ==
  LET start(k) == SkipFrom(text, States(text)[k - 1])
  IN  [k \in {n \in 1..MAX_ARGS : start(n) < Len(text)} |->
         SubSeq(text, start(k) + 1, EndFrom(text, start(k)))]

----------------------------------------------------------------------------
EmptyLine == [k \in 0..(MAX_CMD_LEN - 1) |-> NUL]
Nothing == [reader |-> "none", text |-> << >>, behind |-> << >>]

Init == /\ shift_pressed = FALSE /\ capslock_on = FALSE /\ down = {} /\ missed = FALSE
        /\ screen = put_string(clear, Prompt["shell"])
        /\ reader = "shell" /\ input = EmptyLine /\ input_len = 0 /\ ran = Nothing

\* The string at place p of a buffer: the characters before the first NUL.  Without
\* one it goes on behind the buffer.
TextFrom(b, p) == LET size == Size[reader]
                      end == CHOOSE k \in p..size :
                               /\ k < size => b[k] = NUL
                               /\ \A m \in p..(k - 1) : b[m] # NUL
                  IN  [k \in 1..(end - p) |-> b[p + k - 1]]
Text(b) == TextFrom(b, 0)

\* INSERT and CREATE TABLE skip as many characters as their keywords should have,
\* and so run what the buffer has behind the end of a line that is shorter.
Leftover(b) == IF reader = "sql" /\ Text(b) \in DOMAIN Skip THEN TextFrom(b, Skip[Text(b)])
               ELSE << >>

\* The next line: what the buffer of a reader holds and the screen s before it.
Begin(r, b, s) == /\ reader' = r /\ input' = b /\ input_len' = 0
                  /\ screen' = put_string(s, Prompt[r])

\* A reader that is entered finds what is on the stack.
Stack(r) == {[k \in 0..(Size[r] - 1) |-> c] : c \in {NUL, Garbage}}

\* While a command runs, shift keys may move unseen.
Unseen == /\ down' \in SUBSET ShiftKeys
          /\ missed' = (missed \/ down' # down)
          /\ UNCHANGED <<shift_pressed, capslock_on>>

ShellRuns(s) ==
  \/ \E shown \in {put_string(s, t) : t \in Outputs} \cup {clear} : Begin("shell", EmptyLine, shown)
  \/ \E r \in {"sql", "format"} : \E b \in Stack(r) : Begin(r, b, s)
SqlRuns(b, s) == IF Text(b) \in Exits THEN Begin("shell", EmptyLine, s)
                 ELSE \E t \in IF Text(b) = << >> THEN {<< >>} ELSE Outputs :
                        Begin("sql", b, put_string(s, t))
\* format's question is answered, and format_drive run or not.
FormatRuns(s) == \E t \in Outputs : Begin("shell", EmptyLine, put_string(s, t))

\* A line without a word in it is not run by the shell.
Finish(b, s) ==
  IF reader = "shell" /\ parse_command(Text(b)) = << >>
    THEN Begin("shell", EmptyLine, newline(s)) /\ ran' = Nothing /\ UNCHANGED kbd
    ELSE /\ ran' = [reader |-> reader, text |-> Text(b), behind |-> Leftover(b)] /\ Unseen
         /\ CASE reader = "shell" -> ShellRuns(newline(s))
              [] reader = "sql"    -> SqlRuns(b, newline(s))
              [] reader = "format" -> FormatRuns(newline(s))

\* Mutant: the SQL shell and format rely on zeros in their buffers.
Unterminated(b, n) == b

\* They end a line with a zero; the shell's buffer has one already.
Terminated(b, n) == IF reader = "shell" THEN b ELSE [b EXCEPT ![n] = NUL]

enter == Finish(Terminated(input, input_len), screen)

Ignore == UNCHANGED <<kbd, line, screen>> /\ ran' = Nothing

\* Only the shell clears the character it takes back; format takes none back.
backspace ==
  IF input_len = 0 \/ reader = "format" THEN Ignore
  ELSE /\ input_len' = input_len - 1
       /\ input' = IF reader = "shell" THEN [input EXCEPT ![input_len - 1] = NUL] ELSE input
       /\ screen' = put_string(screen, <<Backspace, Space, Backspace>>)
       /\ ran' = Nothing /\ UNCHANGED <<kbd, reader>>

\* Mutant: the place of the final NUL is used too.
RoomWithoutEnd == input_len < Size[reader]

Room == input_len < Size[reader] - 1

\* A full line ends by itself in the SQL shell, without a zero, and in format.
Full(n) == reader # "shell" /\ n = Size[reader] - 1
EndFull(b, n) == Finish(IF reader = "format" THEN Terminated(b, n) ELSE b, put_char(screen, b[n - 1]))

\* A character; a full line of the shell takes none.
Type(c) ==
  LET b == [input EXCEPT ![input_len] = c] IN
    IF ~Room THEN Ignore
    ELSE IF Full(input_len + 1) THEN EndFull(b, input_len + 1)
    ELSE /\ input' = b /\ input_len' = input_len + 1
         /\ screen' = put_char(screen, c)
         /\ ran' = Nothing /\ UNCHANGED <<kbd, reader>>

\* Keys that give a character.
letter(c) == Type(IF capslock_on # shift_pressed THEN Letters[c] ELSE c)
other(c)  == Type(IF shift_pressed THEN Others[c] ELSE c)

\* Keys that give none.
press_shift(k) == /\ shift_pressed' = TRUE /\ down' = down \cup {k} /\ missed' = FALSE
                  /\ ran' = Nothing /\ UNCHANGED <<capslock_on, line, screen>>

\* Mutant: with caps lock on the release is taken for a letter's.
ReleaseUnlessCaps(k) == /\ k \in down /\ down' = down \ {k} /\ missed' = FALSE
                        /\ shift_pressed' = (shift_pressed /\ capslock_on)
                        /\ ran' = Nothing /\ UNCHANGED <<capslock_on, line, screen>>

release_shift(k) == /\ k \in down /\ down' = down \ {k} /\ missed' = FALSE
                    /\ shift_pressed' = FALSE
                    /\ ran' = Nothing /\ UNCHANGED <<capslock_on, line, screen>>
capslock == /\ capslock_on' = ~capslock_on /\ ran' = Nothing
            /\ UNCHANGED <<shift_pressed, down, missed, line, screen>>

Next == \/ \E c \in DOMAIN Letters : letter(c)
        \/ \E c \in DOMAIN Others : other(c)
        \/ enter \/ backspace \/ capslock
        \/ \E k \in ShiftKeys : press_shift(k) \/ release_shift(k)

Spec == Init /\ [][Next]_vars

----------------------------------------------------------------------------
TypeOK ==
  /\ shift_pressed \in BOOLEAN /\ capslock_on \in BOOLEAN
  /\ down \subseteq ShiftKeys /\ missed \in BOOLEAN
  /\ screen.x \in 0..WIDTH /\ screen.y \in 0..(HEIGHT - 1) /\ DOMAIN screen.cell = 0..Last
  /\ reader \in Readers
  /\ input \in [0..(Size[reader] - 1) -> Char \cup {NUL, Garbage}]
  /\ input_len \in 0..(Size[reader] - 1)
  /\ ran.reader \in Readers \cup {"none"}

\* The line and what is seen of it.
Line == [k \in 1..input_len |-> input[k - 1]]
Cursor == screen.y * WIDTH + screen.x
Visible == Prompt[reader] \o Line

\* What is seen is what was typed: the cells before the cursor show the prompt
\* and the line, everything after them is blank - across wrapped rows, scrolling,
\* and characters erased over the edge of a row, in each of the three readers
\* (shell.cpp:463-471, sqlite_shell.cpp:89-99, vga.cpp:72-106).
ShowsTheLine ==
  /\ \A k \in 1..Len(Visible) : screen.cell[Cursor - Len(Visible) + k - 1] = Visible[k]
  /\ \A k \in Cursor..Last : screen.cell[k] = Space

\* The line that is run is the line that was seen, whatever the buffer held before
\* it on the stack, from earlier lines or from characters taken back; a line that
\* fills the SQL shell's buffer may have more behind it (sqlite_shell.cpp:83-103,
\* shell.cpp:343-356, :451-468).  Characters behind the end of the line are run by
\* the SQL shell alone, for a line shorter than the keywords its parser skips, and
\* are those the buffer has at the place that parser starts from (sqlite3.cpp:64, :140).
RunsTheLine ==
  [][ran' # Nothing =>
       /\ \/ ran'.text = Line
          \/ /\ input_len = Size[reader] - 2 /\ SubSeq(ran'.text, 1, input_len) = Line
             /\ Len(ran'.text) = input_len + 1 \/ reader = "sql"
       /\ ran'.behind # << >> =>
            /\ reader = "sql" /\ Line \in DOMAIN Skip
            /\ \A k \in DOMAIN ran'.behind : ran'.behind[k] = input[Skip[Line] + k - 1]]_vars

\* A shift that stays on with no shift key down is the trace of a key that moved
\* while a command ran: the next code of a shift key that goes up ends it, and without such a
\* loss releasing the keys in any order ends it (kbd.cpp:72-83).
ShiftRecovers == down = {} /\ ~missed => ~shift_pressed

\* The words of a line: its longest stretches without a space, in order.
Starts(text) == {k \in 1..Len(text) : text[k] # Space /\ (k = 1 \/ text[k - 1] = Space)}
WordAt(text, k) == SubSeq(text, k,
  CHOOSE m \in k..Len(text) : /\ \A q \in k..m : text[q] # Space
                              /\ m = Len(text) \/ text[m + 1] = Space)
Words(text) ==
  LET rank(k) == Cardinality({q \in Starts(text) : q <= k})
      kth(n) == CHOOSE k \in Starts(text) : rank(k) = n
  IN  [n \in 1..Cardinality(Starts(text)) |-> WordAt(text, kth(n))]

\* strtok with its state between calls finds exactly the first MAX_ARGS words of
\* a line, whatever spaces lead, separate or end it (shell.cpp:44-50, libc.cpp:135-152).
ParsesTheWords ==
  LET words == Words(Text(input)) IN
    reader = "shell" => parse_command(Text(input)) =
                          SubSeq(words, 1, IF Len(words) < MAX_ARGS THEN Len(words) ELSE MAX_ARGS)
====
