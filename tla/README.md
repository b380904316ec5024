# SunsetOS in TLA+

A verification development of the SunsetOS kernel (`src/`): TLA+ modules for the
parts of the kernel that keep state, TLC configurations that check them on small
instances, and TLAPS proofs of the most important results for all values of the
constants.  `PROJECT.json` lists components, runs, mutants, the map from
definitions to source lines, findings, hazards and theorems.

The repository has no design document and no tests.  What the code is held to is
what its own comments, help texts and messages say, and the abstract
specifications below.

## 1. The system

SunsetOS is a 32-bit kernel that is booted by multiboot and runs one shell.  It
has one thread, no interrupts (`cli` at entry, `main.cpp:17`) and no paging: the
keyboard and the disk are polled, every command runs to its end before the next
one is read, and a loop that does not end stops the machine.  Concurrency
therefore enters only through the hardware: a drive that works between two polls,
disk transfers that fail, power that fails between two writes, keys that go down
and up in any order and unseen while a command runs.  What is hard is, that
apart, long sequences of legal commands over hand-written linked lists, arrays
that shift, FAT chains, buffers that keep what they held and a heap that is never
given back.

| component | state | operations | interacts with |
|---|---|---|---|
| heap (`libc.cpp`) | `heap_ptr` | `malloc`, `free` (does nothing), `reset_heap` | everything that calls `new` |
| memory file system (`ntfs.cpp`) | list of `MemoryFile`, mount flags, current directory | `init`, create, read, write, delete, list, cd | heap; called by `fs.cpp` |
| FAT32 driver (`fat32.cpp`) | the disk; its memory list is a copy of the one above | `init`, create, read, write, delete, list, format | ATA driver |
| file system selection (`fs.cpp`) | `current_fs` | `init`, one dispatch per call | both file systems |
| users (`user.cpp`) | array of users, count, session | create, delete, login, logout, passwd | shell |
| SQL engine and shell (`sqlite3.cpp`, `sqlite_shell.cpp`) | open database, tables, rows | open, exec (CREATE, INSERT, SELECT), close | heap, which each command resets |
| console (`kbd.cpp`, `shell.cpp`, `sqlite_shell.cpp`, `vga.cpp`, `strtok`) | modifier flags, line, screen, cursor | one scan code at a time, for one of three line readers | all commands |
| ATA driver (`ata.cpp`) | `disk_exists`, `disk_checked`; the drive's registers | `init`, read, write sectors | the drive; FAT32, NTFS init |
| ELF loader and `exec` (`elf.cpp`, `shell.cpp`) | the file buffer, user memory | read, check, load, enter | file system, the processor |
| network, system calls, zlib, SQLite OS layer | none that matters | print text, or are never called | - |

The interactions that matter: the shell calls the file system through `fs.cpp`;
the file list and the SQL engine take their memory from the same heap, and the
SQL command resets it; FAT32 sees the disk only through single-sector transfers.

What makes each component correct:

- **Memory file system**: the list has no cycle, memory of different files never
  overlaps, every call answers as a stack of named files would, and returns.
- **Users**: slot 0, which the permission checks read, remains root's; names are
  unique; the array behaves as a map although deletion shifts it.
- **FAT32**: chains never join, every entry owns its first cluster, other files
  are not touched, an acknowledged write is read back; also when transfers fail
  and, for what is on the disk, when power fails.
- **SQL engine**: tables are sequences of rows that only grow; refused statements
  change nothing; values, and rows of a listing, are lost only after the memory is
  full.
- **Console**: the screen shows the line that will be run; the line that is run is
  the one that was seen, whatever its buffer held before, and what else is run is
  known; it is split into its words; shift does not stay on for good.
- **ATA driver**: every call returns, also when the drive never answers; a transfer
  moves the sector it was asked for, except where the drive still serves a request
  the driver gave up; nothing else is left in the drive between calls.
- **Loader**: loading a segment as a linker writes it changes nothing outside user
  space; what is entered is the program that was named, complete, at the place its
  entry was moved to.

`PROJECT.json` lists the hazards at their lines, with the properties that are
aimed at each, or why there is none yet.

## 2. Modules

```
Heap      <- MemFs  <- MCMemFs, MemFsProofs        FileStore (abstract), used by MemFs
             MemFs  <- Kernel <- MCKernel
Heap      <- Sqlite <- MCSqlite, SqliteProofs      Database (abstract), used by Sqlite
Users     <- MCUsers, UsersProofs                  Accounts (abstract), used by Users
Fat32     <- MCFat32, Fat32Proofs
Fat32     <- Format <- MCFormat
Console   <- MCConsole, ConsoleProofs
Ata       <- MCAta, AtaProofs                      Disk (abstract), used by Ata
Loader    <- MCLoader, LoaderProofs
Induction <- MemFsProofs, Fat32Proofs, SqliteProofs, ConsoleProofs
```

**Heap** is passive: `malloc(p, size)` and `Bump(p, size)` give the result and the
new pointer of a call made with `heap_ptr = p`.

**MemFs** has one action per call of `ntfs.cpp`, and one step per iteration for
the four calls with a loop over the list (`Enter`, `Advance`, and the action named
for the call that returns).  Nodes are a function from addresses to fields, so
that aliasing and overlap are expressible.  A failed `new` writes at address 0, as
the code does.  **FileStore** is the stack of named files it implements; once the
heap may be full it allows a push to lose every file.

**Users** has one action per call of `user.cpp` on the array with its stale slots;
**Accounts** is a map from names to accounts.

**Fat32** has one step per sector written.  Its state is the first FAT and the
data area (`fat`, `sec`), and the local variables of the call in progress.  A
lookup only reads and is one step together with the write that follows it,
through recursive functions that walk FAT chains.  Each step may have one failed
transfer, chosen from writes, the scan for a free cluster, or the read of one
FAT entry or directory sector.  `Crash` forgets everything but the disk.
**Format** adds `format_drive`.

**Sqlite** has one action per command and statement.  Every allocation moves the
heap pointer, so that memory runs out in the middle of a statement: a value is
then null, and a row of a listing without its array is not printed (`Shown`).  A
statement is the record of what its parser takes from the text.  A *bare* one is
shorter than the keywords its parser skips: `parse_create_table` and
`parse_insert` then read what an earlier line left in the buffer, so any statement
of that kind may be run, or none.  An *endless* one is a text on which `sscanf`
loops; `ret` is then `Never`, and `Looping` the only step left.  `OneShot` is a
statement on the command line, of which only the first word arrives.  **Database**
is what it implements; `ImplementsDatabase` adds that each statement does what the
abstract statement with the same arguments does.

**Console** has one action per kind of scan code; the screen is a function of
cells with a cursor, and `put_char`, `put_string`, `newline` are functions of it.
`reader` says which of the three loops takes the characters: the shell's, whose
buffer is cleared for every line, the SQL shell's, whose buffer is on the stack,
is never cleared and ends a full line by itself without a zero, or the question
`format` asks.  `ran` is the line the last key completed, with the reader it went
to and with what the SQL parsers run behind its end: `Skip` gives the place where
the parser of a line starts, for lines that end before that place, and `Leftover` the
string the buffer has there.

**Ata** is the driver and the drive.  `pc` and `polls` are the driver's place and
the status reads it has left; each poll is a step.  The drive is external: `Work`
is its step, `Command` what it makes of a command, and it may be missing, slow,
refuse anything, or lose a sector it took.  `owed` collects the requests the
driver gave up and the drive may still serve.  **Disk** is what a caller can rely
on: `Read`, `Write` and `Fail` name the sectors a transfer can have moved.

**Loader** is `exec`: `Exec` is the read into the buffer on the stack with all it
may leave there of earlier files, `LoadSegment` one round of the loop over the
program headers, `Enter` the jump.  Program headers hold arbitrary words and
`Plus` wraps, so the two checks of a segment are those of the code.  Each cell of
memory says which cell of which file it came from, so that a mixture of two
programs shows.  `WellFormed` is what the loader relies on without a check.

**Kernel** composes the memory file system with the boot sequence, the dispatch of
`fs.cpp` and the heap reset of the SQL command.

## 3. Runs

Passing runs:

| run | bounds | why they are enough |
|---|---|---|
| memfs | heap of 144 bytes, nodes of 48, two names, contents of 5 and of 20 bytes | three nodes fit, or two with blocks: duplicates, deletion at head, middle and end, overwriting with and without a new block, and each allocation failing happen |
| users | 3 slots, 4 names and a name that is too long, 2 passwords | the table fills up, shifts past a stale slot and is filled again |
| fat32_dirs | 7 clusters of one sector with two slots, 2 failures, 1 power failure | the third entry makes a directory grow, the volume fills up, a subdirectory exists, a failure can hit the recovery from a failure, or make a directory of two clusters seem to have one |
| fat32_files | 4 clusters of two sectors with one slot, 1 failure | a long content takes two clusters; overwriting leaves a tail; the volume fills up in the middle of a write |
| sqlite | heap of 88 bytes, 2 tables, 2 columns, 2 rows, 3 interchangeable names | row and table limits are reached; the heap runs out inside INSERT, and inside SELECT between one row and the next; a value longer than a cell fills two |
| console | 3 x 3 cells, lines of 5 characters for the shell and 3 for the SQL shell, 2 words, 2 interchangeable shift keys, one line shorter than what its parser skips | the line wraps over two rows and scrolls; a third word is cut; a line fills the SQL shell's buffer; the short line is run behind a longer one; one shift key goes up while the other is down, or unseen |
| ata | 4 sectors in two registers of one bit, addresses 0, 3 and 4, 2 polls, 2 contents | addresses that differ in each register, and one past the last; every wait can be given up, with requests of both kinds left behind |
| loader | a window of 8 cells of 24, a buffer of 5, programs of one and two segments, three damaged headers, 2 commands | segments below, across the start of, inside, across the end of and above the window; a segment that is longer in the file than in memory, one that wraps in memory and one that wraps in the file; a second program in a buffer and a memory that hold the first |

What they show: `memfs` that every order of calls on the file list keeps it a
list, keeps memory apart, returns, and refines FileStore.  `users` that the
shifted array refines the map.  `fat32_dirs` and `fat32_files` that partial
failures leak clusters but never join files; `Acknowledged`, that a call which
answers 0 and none of whose own transfers failed has done what it says, whatever
earlier calls left behind; `CreateLosesOnlyTails`, that creating a file costs a
directory entries only where a FAT entry of that directory could not be read, and
only those behind it.  `sqlite` that the tables are relations until memory runs
out, statement by statement, with the two exceptions of bare and endless texts.
`console` that screen, line and what is run agree, where more than the line is run,
and which keys end a shift that was left on.  `ata` that a driver which never resets
the drive can only confuse transfers with requests it gave up itself.  `loader` that
a file read in part, a file behind another in the buffer, and well formed segments
linked anywhere are refused or loaded right, and that only a header no linker writes
changes memory outside user space.

What success does *not* mean in FAT32: the results of `set_fat_entry` are ignored
where a directory and where a file grows (`fat32.cpp:443`, `:579`).  If that
transfer fails, the call still reports success, and the new entry or the rest of the
data is in a cluster that nothing leads to.  `Acknowledged` leaves out calls with a
failed transfer of their own, so no property states this; `ChainsApart`,
`Isolation` and `CreateLosesOnlyTails` show that nothing else is harmed by it.

Violation runs; each checks one statement of the repository that the code does
not keep:

- **sqlite_usage**: "Example: sqlite3 test.db CREATE TABLE t1(id INT, name TEXT)"
  (`sqlite_shell.cpp:53`).  The shell has split the line at its spaces, so the
  engine gets the word `CREATE` and answers with an error.  The other two examples
  fail in the same way.
- **fat32_rm**: "rm - Remove file or directory" (`shell.cpp:72`).  `delete_file`
  reports success and writes its mark into the sector before the file's first
  cluster.  The run creates a file, deletes it and still finds its path.
- **fat32_format**: "Drive formatted successfully!" (`fat32.cpp:773`).  The root
  directory's cluster is left free in the new FAT and given to the first file.
- **kernel_ls**: "ls - List directory contents" (`shell.cpp:66`).  The heap reset
  of `sqlite3` lets the next file node overlay a live one; the list becomes a
  loop, and `ls` does not end.

One more statement the code does not keep is seen without a run: "useradd - Create
new user (admin only)" (`shell.cpp:78`), and the same of userdel.  The check
(`user.cpp:25`, `:58`) reads slot 0, which is always root's (that is theorem
`RootKept`), and never the account of the session, so any session that is logged in
may create and delete users; the guards of `create_user` and `delete_user` in Users
have it so.

Bounds are part of the configuration (`HEAP_SIZE`, `MAX_USERS`, `LAST_CLUSTER`,
`MAX_ROWS`, `POLLS`, ...: the code's own limits with small values), except
`MAX_FAULTS` and `MAX_CRASHES` of Fat32 and `MAX_EXECS` of Loader, which bound the
environment.  The symmetry of `sqlite` is sound because table names are only
compared, that of `console` because the code treats the two shift keys alike.
Deadlock is checked everywhere but in `loader`: neither a program that was entered
nor a kernel that was overwritten has a way back to the shell, so that run stops
there, and when its commands are used up.

**Fairness.** The `FairSpec` of MemFs, Fat32 and Ata assumes weak fairness of
`Proceed`, the steps inside a call: the processor goes on executing the loop it is
in.  Nothing obliges a user to type a command, a drive to work, to answer or to
fail, or power to go; that `EveryTransferEnds` holds is the driver's own doing.
`EveryCallReturns` of Fat32 is checked with failures and without power failures.

## 4. Proofs

All are checked by TLAPS for arbitrary constants under the named assumptions of
the modules, which TLC evaluates in the runs of those modules.  Most only say what
kind of thing a constant is; the others are:

- `MemFsAssumption`: contents are no longer than a node, which the shell's command
  line (`MAX_CMD_LEN`) keeps, and the mark for bytes that nobody wrote is not
  itself a content.
- `Fat32Assumption`: the end mark is no cluster number, contents are not empty, and
  a name that went through the 8.3 conversion once survives it unchanged.
- `ConsoleAssumption`: keys produce printable characters; the longest prompt and
  line fit the screen above its last row (the longest, the SQL shell's, takes less
  than 530 of 1920 cells in the code); `Skip` names places behind the end of its
  line, inside the SQL shell's buffer.
- `LoaderAssumption`: the window starts at a multiple of its size and ends inside
  the address space; a file with an ELF header has program headers, which follow
  that header.  It says nothing of what the program headers hold.

Every property of a passing run is a theorem except liveness: `EveryCallReturns`
of MemFs and Fat32 and `EveryTransferEnds` of Ata.

**Induction** is what the proofs about recursive definitions rest on: induction
over an interval of the naturals in the form of sets, and that a recursive
function over an interval has the values its definition names.  It follows from
the library's theorem that strict inclusion of finite sets is well founded, so no
theorem with an operator as a parameter is needed.  `Lookup` and `Walk` of Fat32,
`put_string` and the states of `strtok` in Console, the addresses of a statement in
Sqlite and the file list of MemFs are reasoned about with it.

**MemFsProofs.**  `Disjoint` is not inductive: that a new block is apart from the
old ones follows only from where the heap pointer is.  The invariant `IInv` adds
`Layout`: every node and block lies below `heap_ptr`, and any two are apart as
intervals.  `MallocLemma` gives the interval `malloc` returns.  `PushLemma` shows
that a push preserves the invariant and is used by create and by write;
`OverwriteLemma` and `DeleteLemma` treat the two calls that change nodes.  From
`Inductive` follow `TypeCorrect`, `ListsDescend`, `PrevIsPredecessor`,
`MemoryDisjoint`, and the action property `LoopsDescend`: the variant that bounds
each loop.  The bound on contents is needed in WriteNew, where the node may fail
to fit although a shorter block would.

`ListIsFileStore` is the refinement.  Its invariant `RInv` adds three parts:
`ChainPart`, a sequence of addresses that the links lead through, and the place of
the loop in it, with `prev` one before `file` and nothing found so far (that
`prev` leads to `file`, `PrevLinks`, would not do: a node that was unlinked does
so too); `DataPart`, that a node without its block was refused it by a heap that
refuses every later node as well, which is why losing the list is confined to a
full heap; and `ReplyPart`, what `call` and `ret` say between calls.  `FilesLemma`
shows that the recursive chain of the refinement mapping is that sequence, then
there is one lemma per call.

**UsersProofs.**  `IInv` is the conjunction of the three invariants of the run and
`SessionNamed`, that a session has a name exactly while it is logged in, which
the refinement needs: uniqueness of names is what makes `First`, the slot a scan stops at, the only
slot of that name (`FirstLemma`), and root's slot is never the one that is
deleted because its name is unique.  `ShiftLemma` describes the array after a
deletion.  `ImplementsMap` shows the refinement: `MapInit`, and one lemma per
call that its step is the map's step or a refusal.

**Fat32Proofs.**  The three invariants of the runs are not inductive.  `IInv` adds
to them, on the disk: clusters in use come before the free ones (`FrontInUse`, the
scan takes the first free one and only the latest is ever given back), and no
entry is left in a free cluster (`FreeBare`), where it would come back to life; and
in a call: the cluster just taken is `Fresh`, which nothing leads to yet, at every
place from where it is marked to where it is linked, in spite of the failed writes
in between.  `ScanLemma` and `WayLemma` say what a lookup with a failed read can
return.

- `OthersUntouched`: `Reach(o)` is the chain of `o`.  `HomePart` says that a call
  works on the chain of its own object, or on one behind a fresh cluster that a
  refused write left unlinked, and `MeetLemma` that two chains from different
  starts never meet.  `LookupStableLemma` is what makes this work over several
  steps: the path still leads where it led when the call began.
- `CreatesKeepListings`: `ChainsAreAlong` shows that the rounds of `Chains` compute
  exactly what is reachable.  `LinkPart` says that the cluster a directory grows by
  is empty when it is linked, and that a directory which goes on is only linked
  over after a failed read.
- `SuccessIsTrue`: `WrittenPart` says that the clusters written so far are linked
  from the file's first one in order and hold the content up to where the loop is;
  `PlacePart` that a create without a failure is on the chain of its directory, so
  that a lookup, which reads all of that chain, finds the entry (`FoundLemma`).
  `EnoughLemma` is the division of a length into sectors and clusters, `ReadLemma`
  what the read loop returns from the linked clusters.

**SqliteProofs.**  `CellsApart` needs where strings are: `Memory` says that they lie
one behind another between the database block and the heap pointer, `Owners` that a
cell which is not null has a string and no other cell has it, `Session` that the
heap holds nothing between sessions, which is what makes the reset by the next
command harmless here.  One lemma per statement; a statement that runs out of
memory in the middle ends with nulls (`AddressLemma`), and so does the list of
arrays of a listing, which is why the rows that are shown are the first ones.
`SessionIsDatabase`:
`KeptLemma` (strings that are there keep their bytes), `ImageLemma` (the row a
statement adds is the row of the relation, with values missing only where the heap
was full) and `CardinalityLemma` (the limit on tables counts names) carry the
refinement, together with the arguments: each statement does what the abstract
statement does.

**ConsoleProofs.**  `Shows(screen, text)` says that the cells before the cursor end
with the text and those behind it are blank; `ShowLemma`, `BackLemma` and
`EraseLemma` are its account of `put_char` through wrapping, scrolling and going
back over the end of a row, and `PutStringLemma` lifts it to strings.  The
assumption on sizes is what keeps a line from scrolling out of reach of backspace.
`TheLineIsRun` needs in addition that each buffer, whatever it held, ends its line
where the reader says: `Buffer`; `EndLemma` finds that end, and `LeftoverLemma` the
end of what is run behind it.  `TheWordsAreParsed` relates the states `strtok`
keeps between calls to the starts of words: `StartsLemma` and `RankLemma` order
them, `CountLemma` says there are as many calls as words, `WordLemma` and
`ParseLemma` that each returns its word.

**AtaProofs.**  `AddressLemma` is the arithmetic of the registers: the low bits and
the next four of an address are its remainder.  `InStep` is not inductive; `IInv`
adds what the phases of the drive mean (`DrivePart`), what each place of the driver
knows of it after its last status read (`DriverPart`: at `data` the drive is not
busy, and if it has nothing to move it has refused), and whose request the drive
is serving (`OwedPart`: inside a transfer one that was given up, or the call's
own).  One lemma per action.  `KeepsTheContract` then shows each step to be one of
Disk or to change nothing Disk speaks of; `ReadRefines` is the interesting one:
`OwedPart` names the request whose sector, description or noise the words are.

**LoaderProofs.**  `RunsWhatWasNamed` speaks of the last state only; the invariant
says of each place of the loop that the segments of the headers passed so far are
in memory.  That they stay there needs that two segments of one window, moved
below each other's addresses or not, never meet (`SameWindowLemma`, `SegmentLemma`,
`ApartLemma`), and `EntersItsSegment` the same arithmetic for the entry.
`CopyLemma` is where `WellFormed` is needed: only then do the wrapped sums of the
two checks (`PlusLemma`) bound what is copied (`AheadLemma`).  A header that claims
more data than memory is copied past the limit, and one whose sums wrap passes both
checks; `elf.cpp:88-113` looks for neither, `WindowKept` says that nothing else gets
outside, and `EntryMovesAlong` and `NamedProgramRuns` name the condition.

Out of the prover's reach, and left to TLC: liveness under fairness
(`EveryCallReturns`, `EveryTransferEnds`; for MemFs the variant is proved) and
`ENABLED`.  The four violation runs are counterexamples that TLC finds, so Format
and Kernel, which only such runs check, have no theorems.  The parts
that the proofs add to the invariant of Fat32 were checked by TLC on both instances
of its runs before they were proved.

## 5. Abstractions

- **Names and contents** are model values or short sets.  A path of the memory
  file system is one name: that code resolves no path.  In Fat32 a path is a
  sequence of names, and `Stored` gives what a name is after 8.3 conversion.
- **Fat32 is the driver behind its interface.**  `ntfs::init` succeeds whatever
  the drive holds, so `fs::init` never gets to `fat32::init` (`fs.cpp:27-39`,
  definition `Boot` of Kernel): in the kernel as it stands the driver is compiled
  and not reached.  It is modelled as its own source defines it, mounted by `init`.
- **Contents are no entries.**  The driver reads any 32 bytes as a directory entry.
  In Fat32 the text of a file (`Text`) and what was on the medium before (`Old`) are
  values that look neither like an entry nor like a free slot, so what a lookup would
  make of them where a cluster is linked but not cleared, or shared, does not appear
  (hazard at `fat32.cpp:446`).
- **The disk** of Fat32 starts as a volume another system formatted with the end
  mark `0x0FFFFFFF` and an empty root directory; the FAT has exactly the entries of
  the data area.  (`mkfs` ends the root directory with `0x0FFFFFF8` and leaves FAT
  entries behind the last cluster free; both lead outside the partition and are
  listed as hazards.)  A transfer that fails leaves the disk as it was.  The
  second FAT is never written by the driver and is left out.  What Ata shows beyond
  that, writes that are acknowledged and lost and transfers of another sector, is
  not carried into Fat32.
- **The drive** of Ata shows BSY by the first status read after a command and is
  ready whenever it is not busy, so that `wait_for_ready` waits for one thing.  A
  command it is given while it is busy or has data to move is ignored or aborts
  what it did.  Every caller asks for one sector.  An address of 2^28 or more names
  the sector of its low 28 bits, as the registers do.  Nobody reads the data of
  IDENTIFY, so a first read that the drive does not take for a new command gets
  that data; Disk says so.
- **Loader**: a header, a program header and a piece of a segment are a cell each.
  A file with an ELF header has at least one program header, and they follow the
  header; what they hold is arbitrary.  Cells a wrapped offset finds outside the
  buffer are `Unknown`.  A copy that reaches the addresses below user space has
  overwritten the kernel, and `pc` is `lost`: no further step is modelled.  The
  file system returns the number of cells read, or failure after some were.  Memory
  at the window and the buffer of 1 MB on the stack are taken to exist.  The stack
  is cleared after the segments were copied, so a segment in its last megabyte is
  wiped: `RunsWhatWasNamed` is stated for programs without one (`Loadable`).
- **SQL texts.**  `sscanf` does not end where a space of its format meets another
  character, as behind a word of 100 characters (`libc.cpp:489-490`); such texts are
  the statement `endless`.  Behind a SELECT that is too short it also walks past the
  end of its own format, whose further course depends on the constants next to it;
  that too is `endless` or a failure here.  What lies behind a bare line is any
  statement of its kind in Sqlite; that it is what the buffer held is said in Console.
- **The keyboard** delivers every code in order while a line is read; while a
  command runs, shift keys may move unseen.  Codes with the prefix `0xE0` are not
  modelled.  A line that fills the SQL shell's buffer is run with one character of
  what the stack holds behind it, or with none.
- **Kernel**: the instance makes empty files only, so that nodes overlay whole
  nodes after a reset, and runs no SQL statement.
- **Integers**: no sum in the modelled parts reaches 2^32; heap requests are
  hundreds of bytes in a 4 MB array, cluster numbers are 28 bits wide.

Not modelled, with the reason: `printf`, `scanf` and the string functions are pure
conversions of text, except `strtok` and what `sscanf` does to the texts of SQL,
which are in Console and Sqlite; the network commands print fixed text and `wget`
calls a card driver that was never set up; the system call table prints a list;
zlib and the SQLite OS layer are called by nothing.

## 6. Plan

Done: every module of section 2, with the proofs of section 4.

Next, in order:

1. Variants for the loops of Fat32 and Ata, in the way of `LoopsDescend`.
2. Fat32 on disks the present Init leaves out: other end marks, a FAT longer than
   the data area, stale directory contents in free clusters after a power failure,
   a failed format; and on the Disk of `Disk.tla` instead of one that only fails.
   The proofs show where each would bite: `FreeBare` for stale contents,
   `ScanLemma` for other end marks, `FreeLemma` for a longer FAT.
3. Kernel with contents, SQL statements and accounts.
