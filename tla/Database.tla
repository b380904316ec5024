---- MODULE Database ----
(***************************************************************************)
(* What a session of the SQL client promises: tables with a fixed number   *)
(* of columns, each a growing sequence of rows.  An INSERT adds one row to *)
(* the table it names, a SELECT answers that table's rows in the order of  *)
(* their insertion, and no statement changes a row that is there.  Once    *)
(* the memory is full an inserted value may be lost, and the last rows of  *)
(* an answer may be missing.  A session may also never answer again.       *)
(***************************************************************************)
EXTENDS Integers, Sequences, FiniteSets

CONSTANTS TableNames, Stored, Lists, Columns, MAX_TABLES, MAX_COLUMNS, MAX_ROWS

VARIABLES open,         \* a session is open
          relation,     \* name -> [width, rows]
          full,         \* there may be no memory for another value or answered row
          ret           \* what the last statement answered

databaseVars == <<open, relation, full, ret>>

Known == DOMAIN relation
Answer(says, rows) == [says |-> says, rows |-> rows]
Error == Answer("error", << >>)
OK    == Answer("ok", << >>)
Never == Answer("nothing", << >>)
Empty == ""             \* a value that is missing or lost

DatabaseInit == open = FALSE /\ relation = << >> /\ full = FALSE /\ ret = OK

\* A session starts with no table and an empty memory, and leaves none behind.
Start == /\ ~open /\ relation' = << >> /\ open' \in BOOLEAN
         /\ full' \in {FALSE, open'} /\ ret' \in IF open' THEN {OK, Never} ELSE {Error}

Ready == open /\ ret # Never
Leave == Ready /\ open' = FALSE /\ full' = FALSE /\ relation' = << >> /\ ret' = OK

Consume == full' \in {full, TRUE}
Refuse == Ready /\ ret' = Error /\ Consume /\ UNCHANGED <<open, relation>>
Hang   == Ready /\ ret' = Never /\ Consume /\ UNCHANGED <<open, relation>>

\* A table whose column list is missing is created too, though not acknowledged.
CanCreate(n) == n \notin Known /\ Cardinality(Known) < MAX_TABLES
CreateTable(n, columns, listed) ==
  /\ Ready /\ CanCreate(n) /\ Consume /\ UNCHANGED open
  /\ relation' = [m \in Known \cup {n} |->
                    IF m # n THEN relation[m]
                    ELSE [rows |-> << >>,
                          width |-> IF ~listed THEN 0
                                    ELSE IF columns < MAX_COLUMNS THEN columns
                                    ELSE MAX_COLUMNS]]
  /\ ret' = IF listed THEN OK ELSE Error

\* Values without a column are dropped, columns without a value are empty.
CanInsert(n) == n \in Known /\ Len(relation[n].rows) < MAX_ROWS
Insert(n, values) ==
  /\ Ready /\ CanInsert(n) /\ Consume /\ UNCHANGED open
  /\ ret' = OK
  /\ \E row \in [1..relation[n].width -> Stored \cup {Empty}] :
       /\ relation' = [relation EXCEPT ![n].rows = Append(@, row)]
       /\ \A k \in 1..relation[n].width :
            IF k <= Len(values) THEN row[k] = values[k] \/ (row[k] = Empty /\ full')
            ELSE row[k] = Empty

\* The answer has all rows while memory lasts, and the first ones afterwards; the
\* rows of a table without columns show nothing.
Select(n) ==
  /\ Ready /\ n \in Known /\ Consume /\ UNCHANGED <<open, relation>>
  /\ \E m \in 0..Len(relation[n].rows) :
       /\ ret' = Answer("ok", SubSeq(relation[n].rows, 1, m))
       /\ IF relation[n].width = 0 THEN m = 0
          ELSE m < Len(relation[n].rows) => full'

DatabaseNext ==
  \/ Start \/ Leave \/ Refuse \/ Hang
  \/ \E n \in TableNames :
       \/ Select(n)
       \/ \E columns \in Columns, listed \in BOOLEAN : CreateTable(n, columns, listed)
       \/ \E values \in Lists : Insert(n, values)

DatabaseSpec == DatabaseInit /\ [][DatabaseNext]_databaseVars
====
