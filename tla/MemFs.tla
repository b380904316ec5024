---- MODULE MemFs ----
(***************************************************************************)
(* The memory file system of ntfs.cpp: a singly linked list of MemoryFile  *)
(* nodes that live in the kernel heap.  The kernel is single-threaded and  *)
(* polls, so no call overlaps another; the calls that walk the list take   *)
(* one step per iteration of their while loop, since whether the loop      *)
(* ends is what is at stake.  fat32.cpp carries the same list code.        *)
(*                                                                         *)
(* A node is a function from its address to its fields, contents are kept  *)
(* per data block, and deleted nodes stay in memory: free does nothing.    *)
(***************************************************************************)
EXTENDS Integers, Sequences, FiniteSets, Heap

CONSTANTS Names,        \* paths a caller passes; no path is resolved, "/a" and "a" differ
          NewDirs,      \* those of them it makes directories with
          Dirs,         \* paths it changes to; any is accepted
          Datas,        \* contents a caller writes
          Size,         \* Size[d]: the length of d
          NODE_SIZE     \* sizeof(MemoryFile)

ASSUME MemFsAssumption ==
  /\ NewDirs \subseteq Names
  /\ NODE_SIZE \in Nat \ {0}
  /\ Size \in [Datas -> Nat \ {0}]
  \* the mark below for bytes nobody wrote is no contents
  /\ "lost" \notin Datas
  \* fedit writes at most a command line (MAX_CMD_LEN - 1), less than a node
  /\ \A d \in Datas : Size[d] <= NODE_SIZE

VARIABLES heap_ptr, root_directory, fs_initialized, use_memory_fs, current_dir,
          node,         \* address -> the MemoryFile there
          bytes,        \* address of a data block -> the contents last copied there
          pc,           \* "idle", or "walk" inside the loop of call
          call,         \* the call that walks
          file, prev,   \* the loop's pointers (file is "current" in delete_file)
          listed,       \* what list_directory passed to its callback so far
          ret           \* the reply to the last call

store == <<heap_ptr, node, bytes, root_directory>>
mount == <<fs_initialized, use_memory_fs>>
loop  == <<pc, call, file, prev, listed>>
vars  == <<store, mount, current_dir, loop, ret>>

DIRECTORY == 16         \* what ls_callback takes for a directory
ARCHIVE   == 32         \* the attribute mkfile passes
Attributes == {0, ARCHIVE}
Empty == "empty"        \* nothing was read: the file has size 0
Lost  == "lost"         \* bytes no write call put there
Drives == {"absent", "unreadable", "foreign", "ntfs"}
Calls == [op : {"list"}] \cup [op : {"read", "delete"}, path : Names]
           \cup [op : {"write"}, path : Names, data : Datas]

Entry(n, a) == [name |-> n, attributes |-> a]
Reply(ok, listing, data) == [ok |-> ok, listing |-> listing, data |-> data]
Yes == Reply(TRUE, << >>, Empty)
No  == Reply(FALSE, << >>, Empty)
Waiting == Reply(FALSE, << >>, "waiting")      \* the call is still in its loop
MemoryFile(n, a, d, size, next) ==
  [name |-> n, attributes |-> a, data |-> d, size |-> size, capacity |-> size, next |-> next]
FixedNames == <<"$MFT", "$MFTMirr", "$LogFile", "$Volume", "$AttrDef", "$Root",
                "$Bitmap", "$Boot", "$BadClus", "$Secure", "$UpCase", "$Extend">>
Fixed == [i \in 1..Len(FixedNames) |-> Entry(FixedNames[i], 0)]

Put(f, a, v) == [x \in DOMAIN f \cup {a} |-> IF x = a THEN v ELSE f[x]]

Init == /\ heap_ptr = 0 /\ root_directory = Null
        /\ fs_initialized = FALSE /\ use_memory_fs = FALSE
        /\ current_dir = "/"
        /\ node = << >> /\ bytes = Put(<< >>, Null, Lost)
        /\ pc = "idle" /\ call = [op |-> "list"] /\ file = Null /\ prev = Null
        /\ listed = << >> /\ ret = No

----------------------------------------------------------------------------
\* init(): whatever the drive holds it succeeds, and only an NTFS boot sector
\* keeps it out of memory mode.
init(drive) == /\ pc = "idle" /\ ~fs_initialized
               /\ fs_initialized' = TRUE
               /\ use_memory_fs' = (drive # "ntfs")
               /\ ret' = Yes
               /\ UNCHANGED <<store, current_dir, loop>>

\* Mutant: the head is set before the node's next is.
PushNodeSelf(n, a, d, size) ==
  LET at == malloc(heap_ptr, NODE_SIZE) IN
    /\ node' = IF at = Null THEN node ELSE Put(node, at, MemoryFile(n, a, d, size, at))
    /\ root_directory' = at

\* new MemoryFile() and the push in front of the list.  A failed new is not
\* noticed: the node is written at address 0 and the list now starts there.
PushNode(n, a, d, size) ==
  LET at == malloc(heap_ptr, NODE_SIZE) IN
    /\ node' = IF at = Null THEN node
               ELSE Put(node, at, MemoryFile(n, a, d, size, root_directory))
    /\ root_directory' = at

create_file(path, attributes) ==
  /\ pc = "idle"
  /\ IF fs_initialized /\ use_memory_fs
       THEN /\ PushNode(path, attributes, Null, 0)
            /\ heap_ptr' = Bump(heap_ptr, NODE_SIZE)
            /\ bytes' = IF Fits(heap_ptr, NODE_SIZE) THEN bytes ELSE Put(bytes, Null, Lost)
            /\ ret' = Yes
       ELSE ret' = No /\ UNCHANGED store
  /\ UNCHANGED <<mount, current_dir, loop>>

\* create_directory passes attributes 0, not the directory bit
create_directory(path) == create_file(path, 0)

set_current_dir(path) == /\ pc = "idle"
                         /\ IF fs_initialized
                              THEN current_dir' = path /\ ret' = Yes
                              ELSE ret' = No /\ UNCHANGED current_dir
                         /\ UNCHANGED <<store, mount, loop>>

\* What a call answers outside memory mode: list the fixed names, read 0 bytes.
StubReply(c) == IF ~fs_initialized \/ c.op \in {"write", "delete"} THEN No
                ELSE IF c.op = "list" THEN Reply(TRUE, Fixed, Empty) ELSE Yes

\* list_directory, read_file, write_file and delete_file up to their while loop
Enter(c) == /\ pc = "idle"
            /\ IF fs_initialized /\ use_memory_fs
                 THEN /\ pc' = "walk" /\ call' = c /\ listed' = << >>
                      /\ file' = root_directory /\ prev' = Null
                      /\ ret' = Waiting
                 ELSE ret' = StubReply(c) /\ UNCHANGED loop
            /\ UNCHANGED <<store, mount, current_dir>>

----------------------------------------------------------------------------
Found == file # Null /\ call.op # "list" /\ node[file].name = call.path

\* Mutants: prev stays behind; the loop forgets to move.
AdvanceLosesPrev == /\ pc = "walk" /\ file # Null /\ ~Found
                    /\ listed' = IF call.op # "list" THEN listed
                         ELSE Append(listed, Entry(node[file].name, node[file].attributes))
                    /\ file' = node[file].next
                    /\ UNCHANGED <<store, mount, current_dir, pc, call, prev, ret>>
AdvanceStuck == /\ pc = "walk" /\ file # Null /\ ~Found
                /\ prev' = file
                /\ UNCHANGED <<store, mount, current_dir, pc, call, file, listed, ret>>

\* One more iteration: list_directory calls back, the others compare names.
Advance == /\ pc = "walk" /\ file # Null /\ ~Found
           /\ listed' = IF call.op # "list" THEN listed
                        ELSE Append(listed, Entry(node[file].name, node[file].attributes))
           /\ prev' = file
           /\ file' = node[file].next
           /\ UNCHANGED <<store, mount, current_dir, pc, call, ret>>

Return(v) == /\ pc' = "idle" /\ ret' = v
             /\ call' = [op |-> "list"] /\ file' = Null /\ prev' = Null /\ listed' = << >>
             /\ UNCHANGED <<mount, current_dir>>

list_directory == /\ pc = "walk" /\ call.op = "list" /\ file = Null
                  /\ Return(Reply(TRUE, listed, Empty))
                  /\ UNCHANGED store

\* memcpy(buffer, file->data, size), from address 0 when the data was never allocated
ReadValue == IF node[file].size = 0 THEN Empty ELSE bytes[node[file].data]

read_file == /\ pc = "walk" /\ call.op = "read"
             /\ file = Null \/ Found
             /\ Return(IF Found THEN Reply(TRUE, << >>, ReadValue) ELSE No)
             /\ UNCHANGED store

\* write_file when the name is there: a larger content moves to a new block.
NeedsBlock == node[file].capacity < Size[call.data]

Overwrite ==
  /\ pc = "walk" /\ call.op = "write" /\ Found
  /\ LET size == Size[call.data]
         at == IF NeedsBlock THEN malloc(heap_ptr, size) ELSE node[file].data IN
       /\ node' = [node EXCEPT ![file].data = at, ![file].size = size,
                               ![file].capacity = IF NeedsBlock THEN size ELSE @]
       /\ bytes' = Put(bytes, at, call.data)
       /\ heap_ptr' = IF NeedsBlock THEN Bump(heap_ptr, size) ELSE heap_ptr
  /\ Return(Yes)
  /\ UNCHANGED root_directory

\* write_file when it is not: the node first, then its block, then the push.
WriteNew ==
  /\ pc = "walk" /\ call.op = "write" /\ file = Null
  /\ LET size == Size[call.data]
         p == Bump(heap_ptr, NODE_SIZE)
         at == malloc(p, size) IN
       /\ PushNode(call.path, 0, at, size)
       /\ bytes' = Put(IF Fits(heap_ptr, NODE_SIZE) THEN bytes ELSE Put(bytes, Null, Lost),
                       at, call.data)
       /\ heap_ptr' = Bump(p, size)
  /\ Return(Yes)

\* Mutant: what follows the deleted file goes with it.
UnlinkRest ==
  IF prev # Null
    THEN node' = [node EXCEPT ![prev].next = Null] /\ UNCHANGED root_directory
    ELSE root_directory' = Null /\ UNCHANGED node

\* delete_file: unlink; delete[] and delete free nothing
Unlink ==
  IF prev # Null
    THEN node' = [node EXCEPT ![prev].next = node[file].next] /\ UNCHANGED root_directory
    ELSE root_directory' = node[file].next /\ UNCHANGED node

delete_file == /\ pc = "walk" /\ call.op = "delete"
               /\ file = Null \/ Found
               /\ IF Found THEN Unlink ELSE UNCHANGED <<node, root_directory>>
               /\ Return(IF Found THEN Yes ELSE No)
               /\ UNCHANGED <<heap_ptr, bytes>>

Proceed == Advance \/ list_directory \/ read_file \/ Overwrite \/ WriteNew \/ delete_file

Next == \/ \E d \in Drives : init(d)
        \/ \E n \in Names : create_file(n, ARCHIVE)
        \/ \E n \in NewDirs : create_directory(n)
        \/ \E d \in Dirs : set_current_dir(d)
        \/ \E c \in Calls : Enter(c)
        \/ Proceed

Spec == Init /\ [][Next]_vars

\* The CPU keeps executing the loop it is in; no user has to type a command.
FairSpec == Spec /\ WF_vars(Proceed)

----------------------------------------------------------------------------
Fields == [name : Names, attributes : Attributes, data : Nat, size : Nat,
           capacity : Nat, next : Nat]
TypeOK ==
  /\ heap_ptr \in Nat /\ heap_ptr <= HEAP_SIZE
  /\ root_directory \in DOMAIN node \cup {Null}
  /\ fs_initialized \in BOOLEAN /\ use_memory_fs \in BOOLEAN
  /\ current_dir \in Dirs \cup {"/"}
  /\ DOMAIN node \subseteq Nat /\ \A a \in DOMAIN node : node[a] \in Fields
  /\ Null \in DOMAIN bytes /\ \A a \in DOMAIN bytes : bytes[a] \in Datas \cup {Lost}
  /\ pc \in {"idle", "walk"} /\ call \in Calls
  /\ file \in DOMAIN node \cup {Null} /\ prev \in DOMAIN node \cup {Null}

\* Every next pointer is null or leads to a node allocated earlier, so no list
\* of nodes has a cycle and the loops of the four walking calls come to an end
\* (ntfs.cpp:129, :182, :205, :249).
Descending == \A a \in DOMAIN node :
                node[a].next \in DOMAIN node \cup {Null} /\ node[a].next < a

\* The address ranges of a node and of the block a node's data points to.
NodeRange(a) == a .. (a + NODE_SIZE - 1)
DataRange(a) == IF node[a].data = Null THEN {}
                ELSE node[a].data .. (node[a].data + node[a].capacity - 1)

\* Live memory is disjoint: no two nodes overlap, no two files share a data
\* block and no block overlaps a node, so writing one file can never change
\* another's name, link or contents (ntfs.cpp:207-212 copies into the block).
Disjoint ==
  \A a, b \in DOMAIN node :
    /\ a # b => NodeRange(a) \cap NodeRange(b) = {} /\ DataRange(a) \cap DataRange(b) = {}
    /\ NodeRange(a) \cap DataRange(b) = {}

\* In delete_file's loop prev is the node whose next is current, null exactly
\* at the head of the list: unlinking drops that one file (ntfs.cpp:252-257).
PrevLinks == pc = "walk" =>
               IF prev = Null THEN file = root_directory ELSE node[prev].next = file

\* Each iteration moves to a node at a lower address or to null: the variant
\* that bounds every loop over the list (ntfs.cpp:130-132).
WalkDescends == [][pc = "walk" /\ pc' = "walk" => file' < file]_vars

\* Every call that enters a loop over the list returns.
EveryCallReturns == pc = "walk" ~> pc = "idle"

----------------------------------------------------------------------------
\* The list as a stack of files.
\* Chain[k]: node k of the list, counted from 0; null past its end.
Chain == LET c[k \in 0..Cardinality(DOMAIN node)] ==
               IF k = 0 THEN root_directory
               ELSE IF c[k - 1] = Null THEN Null ELSE node[c[k - 1]].next
         IN  c
Length == CHOOSE k \in DOMAIN Chain : Chain[k] = Null /\ \A m \in 0..(k - 1) : Chain[m] # Null

\* What file f holds: a size with no data is what malloc refused.
Contents(f) == IF f.size = 0 THEN Empty ELSE IF f.data = Null THEN Lost ELSE bytes[f.data]
File(a) == [name |-> node[a].name, attributes |-> node[a].attributes, data |-> Contents(node[a])]
Files == [k \in 1..Length |-> File(Chain[k - 1])]

Store == INSTANCE FileStore WITH
  files <- Files,
  mode  <- IF ~fs_initialized THEN "off" ELSE IF use_memory_fs THEN "memory" ELSE "volume",
  full  <- ~Fits(heap_ptr, NODE_SIZE),
  request <- call,
  ret   <- ret

\* Every call of ntfs.cpp acts on the list, in the step that leaves its loop, as
\* FileStore says it acts on the stack of files: the newest file of a name
\* answers, deleting it uncovers the older one, and nothing is lost before the
\* heap is full (ntfs.cpp:124-270).
ImplementsFileStore == Store!StoreSpec
====
