---- MODULE Sqlite ----
(***************************************************************************)
(* The SQL client: the in-memory engine of sqlite3.cpp and the sessions    *)
(* that sqlite_shell.cpp runs on it.  A database is one block of the heap  *)
(* with an array of tables; a cell of a row points to a string allocated   *)
(* after it.  Nothing is given back before the next session resets the     *)
(* heap, so a long session runs out of memory in the middle of statements. *)
(*                                                                         *)
(* A statement is a record of what the parser takes from its text; a value *)
(* longer than a cell is parsed as two (Pieces).  Three things sscanf and  *)
(* the parsers do to a text are kept: SELECT of named columns never finds  *)
(* its table, for sscanf stores a pointer to a copy where the caller       *)
(* expects the name; it never returns where a space of its format meets    *)
(* another character (libc.cpp:489-490); and a line that ends inside the   *)
(* keyword its parser skips is read on behind its end, where an earlier    *)
(* line or one erased again left its characters (sqlite3.cpp:64, :140).    *)
(***************************************************************************)
EXTENDS Integers, Sequences, FiniteSets, Heap

CONSTANTS TableNames,   \* names statements use
          DbNames,      \* names sessions are opened with
          Values,       \* values an INSERT may give
          Lists,        \* the value lists of the INSERTs
          Pieces,       \* Pieces[v]: what the cells v is parsed into hold
          Size,         \* Size[s]: the length of string s with its end
          Columns,      \* numbers of columns a CREATE TABLE lists
          MAX_TABLES, MAX_COLUMNS, MAX_ROWS,
          DB_SIZE,      \* sizeof(sqlite3)
          TEXT,         \* bytes an allocation of a name or a message takes
          PTR           \* sizeof(char*)

Stored == UNION {{Pieces[v][k] : k \in DOMAIN Pieces[v]} : v \in Values}
Empty  == ""            \* the string of a cell without a value

ASSUME SqliteAssumption ==
  /\ MAX_TABLES \in Nat /\ MAX_COLUMNS \in Nat /\ MAX_ROWS \in Nat
  /\ DB_SIZE \in Nat \ {0} /\ TEXT \in Nat \ {0} /\ PTR \in Nat \ {0}
  /\ Columns \subseteq Nat /\ \A vs \in Lists : vs \in Seq(Values)
  /\ \A v \in Values : Pieces[v] \in Seq(Stored) /\ Pieces[v] # << >>
  /\ \A s \in Stored \cup {Empty} : Size[s] \in Nat \ {0}

VARIABLES heap_ptr,
          current_db,   \* address of the open database, null between sessions
          db_name,      \* the name it was opened with, which nothing else reads
          tables,       \* db->tables[0 .. table_count - 1]
          bytes,        \* address -> the string copied there
          first_row,    \* no SELECT has printed its column names yet
          ret           \* what the last statement answered

vars == <<heap_ptr, current_db, db_name, tables, bytes, first_row, ret>>

\* What a statement answers: that it was done and the rows it printed, or an
\* error; or nothing, because sscanf never came back.
Answer(says, rows) == [says |-> says, rows |-> rows]
Error == Answer("error", << >>)
OK    == Answer("ok", << >>)
Never == Answer("nothing", << >>)
Smaller(m, n) == IF m < n THEN m ELSE n

\* The text of a statement, as its parser reads it.  A bad one lacks a part, a
\* bare one is its keyword and no more, an endless one is a word of a hundred
\* characters in a column list, or a SELECT that sscanf loops on.
Creates == [op : {"create"}, table : TableNames, columns : Columns, listed : BOOLEAN]
Inserts == [op : {"insert"}, table : TableNames, values : Lists, closed : BOOLEAN]
Selects == [op : {"select"}, table : TableNames, star : BOOLEAN]
Statements ==
  Creates \cup Inserts \cup Selects
    \cup [op : {"other", "bad create", "bad insert", "bad select",
                "bare create", "bare insert", "endless"}]

----------------------------------------------------------------------------
\* malloc called once per element of sizes, from p on: the pointer after call
\* k, and the address call k returns.
After(p, sizes) == LET q[k \in 0..Len(sizes)] == IF k = 0 THEN p ELSE Bump(q[k - 1], sizes[k])
                   IN  q
Consumed(p, sizes) == After(p, sizes)[Len(sizes)]
Addresses(p, sizes) == LET q == After(p, sizes)
                       IN  [k \in 1..Len(sizes) |-> malloc(q[k - 1], sizes[k])]
Times(n, size) == [k \in 1..n |-> size]

find_table(name) == {t \in DOMAIN tables : tables[t].name = name}

\* A cell that was never allocated, or not successfully, is shown as "".
Read(a) == IF a = Null THEN Empty ELSE bytes[a]
Row(r) == [k \in DOMAIN r |-> Read(r[k])]

Init == /\ heap_ptr = 0 /\ current_db = Null /\ db_name = Empty /\ tables = << >>
        /\ bytes = << >> /\ first_row = TRUE /\ ret = OK

\* cmd_sqlite3 without a database name: the heap is reset before the usage text.
Usage == /\ current_db = Null
         /\ heap_ptr' = 0
         /\ UNCHANGED <<current_db, db_name, tables, bytes, first_row, ret>>

\* reset_heap and sqlite3_open: the name is ignored and the block is zeroed.
sqlite3_open(name) ==
  /\ current_db = Null
  /\ heap_ptr' = Bump(0, DB_SIZE)
  /\ current_db' = malloc(0, DB_SIZE)
  /\ db_name' = name /\ tables' = << >> /\ bytes' = << >>
  /\ ret' = IF current_db' = Null THEN Error ELSE OK
  /\ UNCHANGED first_row

\* A statement given on the command line: the shell split it at its spaces, so
\* sqlite3_exec sees its first word.  CREATE alone is no known command, INSERT and
\* SELECT alone fail, and only a first word that sscanf loops on does not answer.
OneShot(name, s) ==
  /\ current_db = Null
  /\ bytes' = << >> /\ UNCHANGED <<tables, first_row>>
  /\ \/ /\ s.op = "endless" /\ malloc(0, DB_SIZE) # Null
        /\ heap_ptr' = Bump(0, DB_SIZE) /\ current_db' = malloc(0, DB_SIZE)
        /\ db_name' = name /\ ret' = Never
     \/ /\ \E message \in CASE malloc(0, DB_SIZE) = Null -> {0}
                            [] s.op \in {"create", "bad create", "bare create", "other"} -> {TEXT}
                            [] s.op = "endless" -> {0, TEXT}
                            [] OTHER -> {0} :
             heap_ptr' = Bump(Bump(0, DB_SIZE), message)
        /\ ret' = Error /\ UNCHANGED <<current_db, db_name>>

\* A session is open and waits for a statement.
Open == current_db # Null /\ ret # Never

sqlite3_close == /\ Open
                 /\ current_db' = Null /\ db_name' = Empty /\ tables' = << >> /\ bytes' = << >>
                 /\ ret' = OK
                 /\ UNCHANGED <<heap_ptr, first_row>>

----------------------------------------------------------------------------
\* The returns of SQLITE_ERROR before anything was allocated or changed.
Fail == ret' = Error /\ UNCHANGED <<heap_ptr, tables, bytes, first_row>>

\* sscanf loops; nothing looks at the tables any more.
Hang == ret' = Never /\ UNCHANGED <<heap_ptr, tables, bytes, first_row>>

\* A SELECT refused after sscanf had made n copies.
FailAfter(n) == /\ ret' = Error /\ UNCHANGED <<tables, bytes, first_row>>
                /\ heap_ptr' = Consumed(heap_ptr, Times(n, TEXT))

\* sscanf makes two copies per column listed, also past MAX_COLUMNS; a column is
\* named by the address of its copy.  The table is added before its columns are
\* looked for.
parse_create_table(s) ==
  IF find_table(s.table) # {} \/ Len(tables) >= MAX_TABLES THEN Fail
  ELSE LET sizes == Times(IF s.listed THEN 2 * s.columns ELSE 0, TEXT)
           at == Addresses(heap_ptr, sizes)
       IN /\ ret' = IF s.listed THEN OK ELSE Error
          /\ UNCHANGED <<bytes, first_row>>
          /\ heap_ptr' = Consumed(heap_ptr, sizes)
          /\ tables' = Append(tables,
                         [name |-> s.table, rows |-> << >>,
                          columns |-> [k \in 1..Smaller(Len(sizes) \div 2, MAX_COLUMNS) |->
                                         at[2 * k - 1]]])

\* The value list cut into cells.
Flat(vs) == LET f[k \in 0..Len(vs)] == IF k = 0 THEN << >> ELSE f[k - 1] \o Pieces[vs[k]]
            IN  f[Len(vs)]

\* With its parenthesis closed an INSERT fills the columns past its values with
\* empty strings, without it leaves them null.
Cells(s, width) ==
  LET given == Flat(s.values)
      n == IF s.closed THEN width ELSE Smaller(Len(given), width)
  IN  [k \in 1..n |-> IF k <= Len(given) THEN given[k] ELSE Empty]

\* Mutant: the string's end is not counted.
BytesShort(v) == Size[v] - 1

\* strlen(value) + 1
Bytes(v) == Size[v]

\* Mutant: one row too many.
OneRowTooMany(t) == Len(tables[t].rows) > MAX_ROWS

TableFull(t) == Len(tables[t].rows) >= MAX_ROWS

\* The row's pointers, and the memory after its strings were copied.
NewRow(width, at) == [k \in 1..width |-> IF k <= Len(at) THEN at[k] ELSE Null]
NewBytes(cells, at) ==
  [a \in DOMAIN bytes \cup ({at[k] : k \in DOMAIN at} \ {Null}) |->
     IF \E k \in DOMAIN at : at[k] = a THEN cells[CHOOSE k \in DOMAIN at : at[k] = a] ELSE bytes[a]]

\* A value for which malloc returns null is copied to address 0 and lost.
parse_insert(s) ==
  IF find_table(s.table) = {} THEN Fail
  ELSE LET t == CHOOSE x \in find_table(s.table) : TRUE
           width == Len(tables[t].columns)
           cells == Cells(s, width)
           sizes == [k \in DOMAIN cells |-> Bytes(cells[k])]
           at == Addresses(heap_ptr, sizes)
       IN IF TableFull(t) THEN Fail
          ELSE /\ ret' = OK /\ UNCHANGED first_row
               /\ heap_ptr' = Consumed(heap_ptr, sizes)
               /\ tables' = [tables EXCEPT ![t].rows = Append(@, NewRow(width, at))]
               /\ bytes' = NewBytes(cells, at)

\* Mutant: a row handed over as null is printed too.
ShownUnchecked(rows, at) == [k \in DOMAIN rows |-> Row(rows[k])]

\* The rows the callback prints, by their number: a row for whose array malloc
\* returned null is handed over as null and not printed.
Shown(rows, at) == [k \in {j \in DOMAIN rows : at[j] # Null} |-> Row(rows[k])]

\* The array of the column names and their copies, then one array per row; free
\* frees none.
SelectSizes(width, rows) ==
  <<width * PTR>> \o Times(width, TEXT) \o Times(rows, width * PTR)

\* The names are printed by the first SELECT since boot that has any.
exec_select(s) ==
  IF ~s.star THEN FailAfter(2)
  ELSE IF find_table(s.table) = {} THEN Fail
  ELSE LET t == CHOOSE x \in find_table(s.table) : TRUE
           width == Len(tables[t].columns)
           rows == tables[t].rows
           at == Addresses(heap_ptr, SelectSizes(width, Len(rows)))
       IN /\ UNCHANGED <<tables, bytes>>
          /\ heap_ptr' = Consumed(heap_ptr, SelectSizes(width, Len(rows)))
          /\ first_row' = (first_row /\ at[1] = Null)
          /\ ret' = Answer("ok", Shown(rows, [k \in DOMAIN rows |-> at[1 + width + k]]))

\* strdup of the message
Unsupported == /\ heap_ptr' = Bump(heap_ptr, TEXT)
               /\ ret' = Error /\ UNCHANGED <<tables, bytes, first_row>>

\* Behind the end of a bare line lies what was typed before it, so any statement
\* of its kind may be run, or none.
sqlite3_exec(s) ==
  /\ Open
  /\ CASE s.op = "create"      -> parse_create_table(s)
       [] s.op = "insert"      -> parse_insert(s)
       [] s.op = "select"      -> exec_select(s)
       [] s.op = "other"       -> Unsupported
       [] s.op = "bad select"  -> \E n \in {0, 1} : FailAfter(n)
       [] s.op = "bare create" -> Fail \/ Hang \/ \E x \in Creates : parse_create_table(x)
       [] s.op = "bare insert" -> Fail \/ \E x \in Inserts : parse_insert(x)
       [] s.op = "endless"     -> Hang
       [] OTHER                -> Fail
  /\ UNCHANGED <<current_db, db_name>>

\* The loop of sscanf, from which only a reset of the machine leads out.
Looping == ret = Never /\ UNCHANGED vars

Next == \/ Usage
        \/ \E d \in DbNames : sqlite3_open(d)
        \/ \E d \in DbNames, s \in Statements : OneShot(d, s)
        \/ sqlite3_close
        \/ \E s \in Statements : sqlite3_exec(s)
        \/ Looping

Spec == Init /\ [][Next]_vars

----------------------------------------------------------------------------
\* Each stored cell as <<table, row, column>>, and the memory it points to.
CellsOf(t) == {<<t, r, c>> : r \in DOMAIN tables[t].rows, c \in DOMAIN tables[t].columns}
AllCells == UNION {CellsOf(t) : t \in DOMAIN tables}
At(x) == tables[x[1]].rows[x[2]][x[3]]
Live == {x \in AllCells : At(x) # Null}
Extent(a) == a .. (a + Size[bytes[a]] - 1)

TypeOK ==
  /\ heap_ptr \in 0..HEAP_SIZE
  /\ current_db \in {Null, HEAP_BASE} /\ db_name \in DbNames \cup {Empty}
  /\ Len(tables) <= MAX_TABLES
  /\ \A t \in DOMAIN tables :
       /\ tables[t].name \in TableNames
       /\ Len(tables[t].columns) <= MAX_COLUMNS /\ Len(tables[t].rows) <= MAX_ROWS
       /\ \A r \in DOMAIN tables[t].rows :
            DOMAIN tables[t].rows[r] = DOMAIN tables[t].columns
  /\ \A a \in DOMAIN bytes : bytes[a] \in Stored \cup {Empty}
  /\ first_row \in BOOLEAN

\* Every cell that is not null has its string to itself, in memory handed out
\* and behind the database block, however many statements allocated in between
\* and wherever the memory ran out (sqlite3.cpp:224-225).
CellsApart ==
  \A x \in Live :
    /\ At(x) \in DOMAIN bytes
    /\ Extent(At(x)) \subseteq (HEAP_BASE + DB_SIZE) .. (HEAP_BASE + heap_ptr - 1)
    /\ \A y \in Live : y # x => Extent(At(x)) \cap Extent(At(y)) = {}

\* The tables as relations.
UsedNames == {tables[t].name : t \in DOMAIN tables}
Relation == [n \in UsedNames |->
               LET t == CHOOSE x \in find_table(n) : TRUE IN
                 [width |-> Len(tables[t].columns),
                  rows  |-> [r \in DOMAIN tables[t].rows |-> Row(tables[t].rows[r])]]]
\* Another value, or the array for another row, may not fit.
Full == /\ current_db # Null
        /\ \/ \E v \in Stored : ~Fits(heap_ptr, Size[v])
           \/ \E w \in 1..MAX_COLUMNS : ~Fits(heap_ptr, w * PTR)
Store == INSTANCE Database WITH
  open <- current_db # Null, relation <- Relation, Lists <- {Flat(vs) : vs \in Lists},
  full <- Full, ret <- ret

\* What a statement does to the relations.
Refused == ret' = Error /\ UNCHANGED <<tables, bytes>>
Creating(s) == IF Store!CanCreate(s.table) THEN Store!CreateTable(s.table, s.columns, s.listed)
               ELSE Refused
Inserting(s) == IF Store!CanInsert(s.table) THEN Store!Insert(s.table, Flat(s.values))
                ELSE Refused
Selecting(s) == IF s.star /\ s.table \in Store!Known THEN Store!Select(s.table) ELSE Refused
Does(s) ==
  CASE s.op = "create"      -> Creating(s)
    [] s.op = "insert"      -> Inserting(s)
    [] s.op = "select"      -> Selecting(s)
    [] s.op = "bare create" -> Refused \/ Store!Hang \/ \E x \in Creates : Creating(x)
    [] s.op = "bare insert" -> Refused \/ \E x \in Inserts : Inserting(x)
    [] s.op = "endless"     -> Store!Hang
    [] OTHER                -> Refused

\* The tables behave as relations: a statement that is acknowledged did what it
\* says to the table it names and to no other, one that is refused changed
\* nothing unless it is a CREATE TABLE without columns, and a value, or a row of
\* a listing, is lost only after the memory ran out (sqlite3.cpp:263-285,
\* :330-355).  A bare INSERT or CREATE TABLE does all of what some statement does
\* or nothing.
ImplementsDatabase ==
  /\ Store!DatabaseSpec
  /\ [][\A s \in Statements : sqlite3_exec(s) => Does(s)]_vars

\* The first example of the usage text: given a database name and a CREATE TABLE
\* with its columns, sqlite3 creates the table (sqlite_shell.cpp:53).
ExamplesWork ==
  [][\A d \in DbNames, s \in Creates :
       OneShot(d, s) /\ s.listed /\ malloc(0, DB_SIZE) # Null => ret' = OK]_vars
====
