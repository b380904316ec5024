---- MODULE MCLoader ----
(***************************************************************************)
(* Loader with a window of eight cells at 8..15 of 24, the last two of it  *)
(* the stack.  The files are a text, an empty file, and every program with *)
(* up to two segments at the given addresses: below user space, across its *)
(* start, inside, across its end and above.  Three have a header that no   *)
(* linker writes: a segment larger in the file than in memory, one that    *)
(* ends behind the last address, and one that wraps in the file.           *)
(***************************************************************************)
EXTENDS Loader

Segments(offset, starts, lengths) ==
  [load : {TRUE}, offset : {offset}, vaddr : starts, filesz : {1}, memsz : lengths]
Note == [load |-> FALSE, offset |-> 3, vaddr |-> 0, filesz |-> 1, memsz |-> 1]

\* A program is entered at the second cell of its first segment.
Program(phs) == [valid |-> TRUE, size |-> 5, entry |-> phs[1].vaddr + 1, phs |-> phs]
Programs == {Program(<<s>>) : s \in Segments(4, {0, 3, 6, 9, 14, 16}, {1, 3})}
  \cup {Program(<<s, t>>) : s \in Segments(3, {0, 6, 9}, {2}),
                           t \in Segments(4, {3, 14, 16}, {1, 3}) \cup {Note}}
Damaged == {[load |-> TRUE, offset |-> 2, vaddr |-> 14, filesz |-> 3, memsz |-> 1],
            [load |-> TRUE, offset |-> 4, vaddr |-> 22, filesz |-> 1, memsz |-> 4],
            [load |-> TRUE, offset |-> 23, vaddr |-> 9, filesz |-> 2, memsz |-> 2]}
Other(n) == [valid |-> FALSE, size |-> n, entry |-> 0, phs |-> << >>]


MCFiles == Programs \cup {Program(<<d>>) : d \in Damaged}
  \cup {Program(<<s, d>>) : s \in Segments(3, {9}, {2}), d \in Damaged} \cup {Other(0), Other(4)}
====
