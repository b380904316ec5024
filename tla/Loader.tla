---- MODULE Loader ----
(***************************************************************************)
(* exec: shell.cpp reads a file into a buffer on its stack, elf.cpp copies *)
(* the segments of what it finds there to user memory, one step for each   *)
(* program header, and the processor jumps to the entry.                   *)
(*                                                                         *)
(* The buffer is not cleared, so behind the bytes that were read it holds  *)
(* those of files read before.  A read may fail half way or, where a FAT   *)
(* entry cannot be read, end early and report success.  Files and memory   *)
(* are measured in cells: a header, a program header and a piece of a      *)
(* segment are one cell each.  The program headers of a file follow its    *)
(* header; what they say is arbitrary, and sums wrap as 32-bit words do.   *)
(* Every address is taken for memory.  Where a segment reaches around to   *)
(* the addresses below user space it overwrites the kernel, and what the   *)
(* machine does then is not modelled.                                      *)
(***************************************************************************)
EXTENDS Integers, Sequences

CONSTANTS Files,        \* the files there are: [valid, size, entry, phs]
          NoFile,       \* what the buffer holds at first
          BUFFER,       \* cells of the buffer
          USER_BASE, WINDOW, USER_STACK_SIZE,
          WORDS,        \* addresses of the machine
          MAX_EXECS     \* bound: commands

USER_STACK_TOP == USER_BASE + WINDOW

Words == 0..(WORDS - 1)
ProgramHeaders == [load : BOOLEAN, offset : Words, vaddr : Words, filesz : Words, memsz : Words]

ASSUME LoaderAssumption ==
  /\ WINDOW \in Nat \ {0} /\ USER_BASE \in Nat /\ USER_BASE % WINDOW = 0
  /\ WORDS \in Nat /\ USER_STACK_TOP <= WORDS
  /\ BUFFER \in Nat \ {0} /\ USER_STACK_SIZE \in 1..WINDOW /\ MAX_EXECS \in Nat
  /\ NoFile \notin Files
  /\ \A f \in Files :
       /\ f \in [valid : BOOLEAN, size : 0..BUFFER, entry : Words, phs : Seq(ProgramHeaders)]
       /\ f.valid => Len(f.phs) \in 1..(f.size - 1)

VARIABLES buffer,       \* buffer[o]: the file whose cell o it holds
          size,         \* bytes_read
          memory,       \* memory[a]: [from, at], the cell of a file, or what was there
          pc,           \* "idle", "load", "running", or "lost": the kernel is overwritten
          file, i,      \* the file named in the command, the loop over headers
          entry_point, execs

vars == <<buffer, size, memory, pc, file, i, entry_point, execs>>

Untouched == [from |-> NoFile, at |-> 1]
Zero      == [from |-> NoFile, at |-> 0]
Unknown   == [from |-> NoFile, at |-> 2]

Init == /\ buffer = [o \in 0..(BUFFER - 1) |-> NoFile] /\ size = 0
        /\ memory = [a \in Words |-> Untouched]
        /\ pc = "idle" /\ file = NoFile /\ i = 0 /\ entry_point = 0 /\ execs = MAX_EXECS

----------------------------------------------------------------------------
\* What the start of the buffer is taken for.
is_valid_elf(b) == b[0] # NoFile /\ b[0].valid
Header == buffer[0]

\* read_file overwrites as much of the buffer as it got to.
Exec(f) ==
  /\ pc = "idle" /\ execs > 0
  /\ execs' = execs - 1 /\ file' = f
  /\ \E n \in 0..f.size, success \in BOOLEAN :
       /\ buffer' = [o \in DOMAIN buffer |-> IF o < n THEN f ELSE buffer[o]]
       /\ size' = IF success THEN n ELSE 0
       /\ IF success /\ is_valid_elf(buffer')
            THEN pc' = "load" /\ i' = 1 ELSE UNCHANGED <<pc, i>>
  /\ UNCHANGED <<memory, entry_point>>

\* Addresses and lengths are added as words.
Plus(x, y) == (x + y) % WORDS
\* How far ahead of an address another one is, counting on from 0 behind the last.
Ahead(start, a) == IF a >= start THEN a - start ELSE WORDS - start + a

\* Mutants: segments are looked for in the whole buffer; the limit is for the
\* start of a segment.
InsideBuffer(end) == end <= BUFFER
FitsAtStart(dest, memsz) == dest <= USER_STACK_TOP

\* A header or a segment ends where the file was read to, at the latest ...
Inside(end) == end <= size
\* ... and a segment below the top of the stack.
Fits(dest, memsz) == Plus(dest, memsz) <= USER_STACK_TOP

\* A segment linked below user space goes to the same place of the window.
Relocated(a) == IF a < USER_BASE THEN USER_BASE + (a % WINDOW) ELSE a

\* The program header in cell i of the buffer, which may be any cell of a file.
ProgramHeader ==
  LET from == buffer[i] IN
    IF from # NoFile /\ i <= Len(from.phs) THEN from.phs[i]
    ELSE [load |-> FALSE, offset |-> 0, vaddr |-> 0, filesz |-> 0, memsz |-> 0]

\* The cell at data + o; the buffer is on the stack, among other things.
Source(o) == IF o \in DOMAIN buffer THEN [from |-> buffer[o], at |-> o] ELSE Unknown

\* Memory after the copy of a segment and the zeros behind it.
Copied(ph, dest) ==
  [a \in DOMAIN memory |->
     IF Ahead(dest, a) < ph.filesz THEN Source(Plus(ph.offset, Ahead(dest, a)))
     ELSE IF Ahead(dest, a) < ph.memsz THEN Zero ELSE memory[a]]

\* The kernel is below user space.
HitsKernel(ph, dest) ==
  \E a \in 0..(USER_BASE - 1) : Ahead(dest, a) < ph.filesz \/ Ahead(dest, a) < ph.memsz

GiveUp == pc' = "idle" /\ i' = 0 /\ UNCHANGED memory

\* Mutant: the loop runs once more.
OneMoreHeader == i <= Len(Header.phs) + 1

MoreHeaders == i <= Len(Header.phs)

\* One round of the loop of load_elf_safe.
LoadSegment ==
  /\ pc = "load" /\ MoreHeaders
  /\ LET ph == ProgramHeader
         dest == Relocated(ph.vaddr)
     IN IF ~Inside(i + 1) THEN GiveUp
        ELSE IF ~ph.load THEN i' = i + 1 /\ UNCHANGED <<pc, memory>>
        ELSE IF ~Inside(Plus(ph.offset, ph.filesz)) \/ ~Fits(dest, ph.memsz) THEN GiveUp
        ELSE /\ memory' = Copied(ph, dest)
             /\ IF HitsKernel(ph, dest) THEN pc' = "lost" /\ i' = 0
                ELSE i' = i + 1 /\ UNCHANGED pc
  /\ UNCHANGED <<buffer, size, file, entry_point, execs>>

\* Mutant: the entry is left as linked.
EntryAsLinked(a) == a

Entry(a) == Relocated(a)

\* Behind the last header: the stack is cleared and the program entered.
Enter == /\ pc = "load" /\ ~MoreHeaders
         /\ entry_point' = Entry(Header.entry)
         /\ memory' = [a \in DOMAIN memory |->
              IF a \in (USER_STACK_TOP - USER_STACK_SIZE)..(USER_STACK_TOP - 1)
                THEN Zero ELSE memory[a]]
         /\ pc' = "running" /\ i' = 0
         /\ UNCHANGED <<buffer, size, file, execs>>

\* Neither a program that runs nor a kernel that is overwritten comes back.
Next == (\E f \in Files : Exec(f)) \/ LoadSegment \/ Enter

Spec == Init /\ [][Next]_vars

----------------------------------------------------------------------------
TypeOK ==
  /\ buffer \in [0..(BUFFER - 1) -> {NoFile} \cup Files] /\ size \in 0..BUFFER
  /\ DOMAIN memory = Words
  /\ pc \in {"idle", "load", "running", "lost"} /\ file \in {NoFile} \cup Files
  /\ i \in 0..(IF pc = "load" THEN Len(Header.phs) + 1 ELSE 0)
  /\ entry_point \in Words /\ execs \in 0..MAX_EXECS

Loads(f) == {f.phs[k] : k \in {m \in DOMAIN f.phs : f.phs[m].load}}
Linked(ph) == ph.vaddr .. (ph.vaddr + ph.memsz - 1)

\* What a linker sees to, and the loader does not check (elf.cpp:88-113): a segment
\* is no larger in the file than in memory, and neither place wraps.
WellFormed(ph) == /\ ph.filesz <= ph.memsz
                  /\ ph.offset + ph.filesz < WORDS
                  /\ Relocated(ph.vaddr) + ph.memsz < WORDS

\* Wherever a program was linked, loading it - also half of it - changes no
\* memory outside the window of user space; only a segment whose program header no
\* linker writes can get there (elf.cpp:88-117).
StaysInWindow ==
  [][\A a \in DOMAIN memory :
       a \notin USER_BASE..(USER_STACK_TOP - 1) /\ memory'[a] # memory[a] =>
         pc = "load" /\ MoreHeaders /\ ~WellFormed(ProgramHeader)]_vars

\* The entry moves with the segment it is in, also where a segment is linked
\* across a border of the window: such a segment is refused (elf.cpp:95-103, :121-124).
EntersItsSegment ==
  pc = "running" => \A ph \in Loads(file) :
    WellFormed(ph) /\ file.entry \in Linked(ph) =>
      entry_point - Relocated(ph.vaddr) = file.entry - ph.vaddr

\* Segments of one window keep their distances; below the stack nothing is
\* cleared after it was loaded.
Loadable(f) ==
  /\ \A ph, qh \in Loads(f) : /\ ph.vaddr \div WINDOW = qh.vaddr \div WINDOW
                              /\ ph # qh => Linked(ph) \cap Linked(qh) = {}
  /\ \A ph \in Loads(f) : /\ WellFormed(ph)
                          /\ Relocated(ph.vaddr) + ph.memsz <= USER_STACK_TOP - USER_STACK_SIZE

\* A program that is entered is the one that was named, complete: the cells of
\* each of its segments and zeros behind them, whatever was read before, read in
\* part, or loaded before, damaged files included (shell.cpp:296-313, elf.cpp:63-117).
RunsWhatWasNamed ==
  pc = "running" =>
    /\ file.valid
    /\ Loadable(file) => \A ph \in Loads(file) : \A k \in 0..(ph.memsz - 1) :
         memory[Relocated(ph.vaddr) + k] =
           IF k < ph.filesz THEN [from |-> file, at |-> ph.offset + k] ELSE Zero
====
