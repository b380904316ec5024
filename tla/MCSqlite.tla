---- MODULE MCSqlite ----
(***************************************************************************)
(* Sqlite with two tables of two columns and two rows on a heap that is    *)
(* full after two statements or three: a table takes more than half of it, *)
(* a listing of two short rows has room for the array of one.  The value   *)
(* "long" does not fit a cell and is parsed as "w", which needs one byte   *)
(* more than an aligned unit, and "v"; the other list is empty.  No        *)
(* statement tells one table name from another, so the names are           *)
(* interchangeable.                                                        *)
(***************************************************************************)
EXTENDS Sqlite, TLC

MCPieces == [v \in Values |-> <<"w", "v">>]
MCLists  == {<<"long">>, << >>}
MCSize   == [s \in {"", "v", "w"} |-> CASE s = "" -> 1 [] s = "v" -> 8 [] s = "w" -> 9]
AnyNames == Permutations(TableNames)
====
